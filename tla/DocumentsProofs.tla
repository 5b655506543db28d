--------------------------- MODULE DocumentsProofs ---------------------------
(***************************************************************************)
(* Theorems about Documents, Intake and Chunking, for every value of their *)
(* constants.                                                              *)
(***************************************************************************)
EXTENDS Documents, Intake, FiniteSetTheorems, SequenceTheorems, WellFoundedInduction, TLAPS

(***************************************************************************)
(* Chunking: every character is in a chunk, and few are in many.           *)
(***************************************************************************)

\* The order of the natural numbers is well founded.
LEMMA NatOrder == IsWellFoundedOn({ss \in Nat \X Nat : ss[1] < ss[2]}, Nat)
BY NatLessThanWellFounded DEF OpToRel

\* A set of natural numbers that is not empty has a least element ...
LEMMA LeastElement ==
    ASSUME NEW S \in SUBSET Nat, S # {}
    PROVE  \E m \in S : \A k \in S : m <= k
<1> DEFINE R == {ss \in Nat \X Nat : ss[1] < ss[2]}
<1>1. IsWellFoundedOn(R, Nat)
  BY NatOrder
<1>2. PICK m \in S : \A y \in S : ~ (<<y, m>> \in R)
  <2> HIDE DEF R
  <2> QED
    BY <1>1, WFMin
<1>3. \A y \in S : ~(y < m)
  BY <1>2
<1> QED
  BY <1>3

\* ... and, when it is bounded, a greatest one.
LEMMA GreatestElement ==
    ASSUME NEW n \in Nat, NEW S \in SUBSET (0..n), S # {}
    PROVE  \E m \in S : \A k \in S : k <= m
<1> DEFINE T == {i \in 0..n : n - i \in S}
<1>1. T \in SUBSET Nat
  BY DEF T
<1>2. T # {}
  <2>1. PICK k \in S : TRUE
    OBVIOUS
  <2>2. k \in 0..n
    BY <2>1
  <2>3. n - k \in 0..n /\ n - (n - k) = k
    BY <2>2
  <2>4. n - k \in T
    BY <2>1, <2>3
  <2> QED
    BY <2>4
<1>3. PICK i \in T : \A j \in T : i <= j
  <2> HIDE DEF T
  <2> QED
    BY <1>1, <1>2, LeastElement
<1>4. ASSUME NEW k \in S PROVE k <= n - i
  <2>1. k \in 0..n
    OBVIOUS
  <2>2. n - k \in 0..n /\ n - (n - k) = k
    BY <2>1
  <2>3. n - k \in T
    BY <2>2
  <2>4. i <= n - k /\ i \in 0..n
    BY <1>3, <2>3
  <2> QED
    BY <2>1, <2>4
<1>5. n - i \in S
  BY <1>3
<1> QED
  BY <1>4, <1>5

\* Strip gives a text.
LEMMA StripText ==
    ASSUME NEW t \in Texts
    PROVE  Strip(t) \in Texts /\ Len(Strip(t)) \in Nat
<1> DEFINE Seen == {i \in 1..Len(t) : t[i] \notin Blanks}
           first == CHOOSE i \in Seen : \A j \in Seen : i <= j
           last == CHOOSE i \in Seen : \A j \in Seen : j <= i
<1>t. Len(t) \in Nat /\ \A i \in 1..Len(t) : t[i] \in Chars
  BY DEF Texts
<1>s. Seen \in SUBSET Nat /\ Seen \in SUBSET (0..Len(t)) /\ Seen \subseteq 1..Len(t)
  BY <1>t
<1>1. CASE Seen = {}
  <2>1. Strip(t) = <<>>
    BY <1>1 DEF Strip
  <2> QED
    BY <2>1 DEF Texts
<1>2. CASE Seen # {}
  <2>1. Strip(t) = SubSeq(t, first, last)
    BY <1>2 DEF Strip
  <2>2. first \in Seen
    <3> HIDE DEF Seen
    <3>1. \E i \in Seen : \A j \in Seen : i <= j
      BY <1>s, <1>2, LeastElement
    <3> QED
      BY <3>1
  <2>3. last \in Seen
    <3> HIDE DEF Seen
    <3>1. \E i \in Seen : \A j \in Seen : j <= i
      BY <1>s, <1>t, <1>2, GreatestElement
    <3> QED
      BY <3>1
  <2> HIDE DEF first, last, Seen
  <2>4. first \in 1..Len(t) /\ last \in 1..Len(t)
    BY <1>s, <2>2, <2>3
  <2>5. \A i \in first..last : t[i] \in Chars
    BY <1>t, <2>4
  <2>6. SubSeq(t, first, last) \in Seq(Chars)
    BY <1>t, <2>4, <2>5, SubSeqProperties
  <2> QED
    BY <2>1, <2>6, LenProperties DEF Texts
<1> QED
  BY <1>1, <1>2

\* The end of a chunk lies after its start, and no further on than Size.
LEMMA EndWithin ==
    ASSUME NEW t \in Texts, NEW s \in Nat, s < Len(t)
    PROVE  End(t, s) \in s + 1..Len(t) /\ End(t, s) <= s + Size
<1> USE ChunkingAssumption
<1> DEFINE e == Least(s + Size, Len(t))
           Spaces == {k \in s + 1..e - 1 : t[k + 1] = Space}
           k0 == CHOOSE k \in Spaces : \A j \in Spaces : j <= k
<1>1. Len(t) \in Nat /\ e \in s + 1..Len(t) /\ e <= s + Size
  BY DEF Least, Texts
<1>2. CASE e < Len(t) /\ Spaces # {}
  <2>1. End(t, s) = k0
    BY <1>2 DEF End
  <2>2. Spaces \in SUBSET (0..Len(t))
    BY <1>1
  <2>3. \E k \in Spaces : \A j \in Spaces : j <= k
    <3> HIDE DEF Spaces
    <3> QED
      BY <1>1, <1>2, <2>2, GreatestElement
  <2>4. k0 \in Spaces
    <3> HIDE DEF Spaces
    <3> QED
      BY <2>3
  <2>5. k0 \in s + 1..e - 1
    BY <2>4
  <2> HIDE DEF k0, e
  <2> QED
    BY <1>1, <2>1, <2>5
<1>3. CASE ~(e < Len(t) /\ Spaces # {})
  BY <1>1, <1>3 DEF End
<1> QED
  BY <1>2, <1>3

\* The next chunk begins after the start of this one, not after its end, and no more than
\* Overlap before it.
LEMMA AfterWithin ==
    ASSUME NEW t \in Texts, NEW s \in Nat, NEW e \in s + 1..Len(t)
    PROVE  /\ After(t, s, e) \in s + 1..Len(t)
           /\ e - Overlap <= After(t, s, e) /\ After(t, s, e) <= e
<1> USE ChunkingAssumption
<1>1. Len(t) \in Nat
  BY DEF Texts
<1> QED
  BY <1>1 DEF After, Greatest

(***************************************************************************)
(* The invariant: text is the page being cut, every chunk is of a page     *)
(* reached, and those of the page being cut begin before start and end no  *)
(* more than Overlap after it.                                             *)
(***************************************************************************)
TextOfPage == IF at = 0 THEN text = <<>> ELSE text = Strip(pages[at])

Behind ==
    \A k \in 1..Len(pieces) :
        /\ pieces[k].page \in 1..at
        /\ pieces[k].page = at => pieces[k].from < start /\ pieces[k].to - Overlap <= start

CutInv == CutTypeOK /\ TextOfPage /\ Behind /\ LittleRepeated /\ NothingLost

\* What the types say of the variables, one by one.
LEMMA TypedChunks ==
    ASSUME CutTypeOK
    PROVE  /\ Len(pieces) \in Nat /\ Len(pages) \in Nat /\ Len(text) \in Nat
           /\ at \in Nat /\ start \in Nat /\ start <= Len(text) /\ text \in Texts
           /\ \A p \in 1..Len(pages) : pages[p] \in Texts
           /\ \A k \in 1..Len(pieces) :
                /\ pieces[k].index \in Nat /\ pieces[k].page \in Nat
                /\ pieces[k].from \in Nat /\ pieces[k].to \in Nat
<1> USE DEF CutTypeOK
<1>1. Len(pieces) \in Nat /\ Len(pages) \in Nat /\ Len(text) \in Nat /\ text \in Texts
  BY LenProperties DEF Texts
<1>2. at \in Nat /\ start \in Nat /\ start <= Len(text)
  BY <1>1
<1>3. \A p \in 1..Len(pages) : pages[p] \in Texts
  BY LenProperties
<1>4. \A k \in 1..Len(pieces) :
         pieces[k] \in [index : Nat, page : Nat, from : Nat, to : Nat]
  BY LenProperties
<1>5. \A k \in 1..Len(pieces) :
         /\ pieces[k].index \in Nat /\ pieces[k].page \in Nat
         /\ pieces[k].from \in Nat /\ pieces[k].to \in Nat
  BY <1>4
<1> HIDE DEF CutTypeOK
<1> QED
  BY <1>1, <1>2, <1>3, <1>5

\* The invariant holds before the first call and after each step.
LEMMA InitCut == CutInit => CutInv
BY DEF CutInit, CutInv, CutTypeOK, TextOfPage, Behind, LittleRepeated, NothingLost, CutOf, Texts

LEMMA BeginCut ==
    ASSUME NEW ps \in Seq(Texts), Begin(ps)
    PROVE  CutInv'
<1>1. pages' = ps /\ at' = 0 /\ text' = <<>> /\ start' = 0 /\ pieces' = <<>>
  BY DEF Begin
<1>2. CutTypeOK' /\ TextOfPage'
  BY <1>1 DEF CutTypeOK, TextOfPage, Texts
<1>3. Behind' /\ LittleRepeated'
  BY <1>1 DEF Behind, LittleRepeated
<1>4. NothingLost'
  <2>1. \A p \in 1..Len(pages') : CutOf(p)' = 0
    BY <1>1 DEF CutOf
  <2> QED
    BY <2>1 DEF NothingLost
<1> QED
  BY <1>2, <1>3, <1>4 DEF CutInv

LEMMA TurnPageCut ==
    ASSUME CutInv, TurnPage
    PROVE  CutInv'
<1>t. CutTypeOK
  BY DEF CutInv
<1>1. /\ pages' = pages /\ at' = at + 1 /\ text' = Strip(pages[at + 1]) /\ start' = 0
      /\ pieces' = pieces /\ start = Len(text) /\ at + 1 \in 1..Len(pages)
  BY <1>t, TypedChunks DEF TurnPage, CutTypeOK
<1>2. text' \in Texts /\ Len(text') \in Nat
  BY <1>t, <1>1, TypedChunks, StripText
<1>3. CutTypeOK'
  BY <1>t, <1>1, <1>2, TypedChunks DEF CutTypeOK
<1>4. TextOfPage'
  BY <1>t, <1>1, TypedChunks DEF TextOfPage
<1>5. Behind'
  BY <1>t, <1>1, TypedChunks DEF CutInv, Behind
<1>6. LittleRepeated'
  BY <1>1 DEF CutInv, LittleRepeated
<1>7. NothingLost'
  <2>1. ASSUME NEW p \in 1..Len(pages) PROVE CutOf(p)' = CutOf(p)
    BY <1>t, <1>1, TypedChunks DEF CutOf, CutInv, TextOfPage
  <2> QED
    BY <1>1, <2>1 DEF CutInv, NothingLost
<1> QED
  BY <1>3, <1>4, <1>5, <1>6, <1>7 DEF CutInv

LEMMA CutCut ==
    ASSUME CutInv, Cut
    PROVE  CutInv'
<1> USE ChunkingAssumption
<1> DEFINE e == End(text, start)
           q == [index |-> Len(pieces), page |-> at, from |-> start, to |-> e]
<1>t. CutTypeOK
  BY DEF CutInv
<1>1. /\ pages' = pages /\ at' = at /\ text' = text /\ start < Len(text)
      /\ pieces' = Keep(text, start, e) /\ start' = After(text, start, e)
  BY DEF Cut
<1>2. e \in start + 1..Len(text) /\ e <= start + Size
  BY <1>t, <1>1, TypedChunks, EndWithin
<1>3. start' \in start + 1..Len(text) /\ e - Overlap <= start' /\ start' <= e
  <2> HIDE DEF e
  <2> QED
    BY <1>t, <1>1, <1>2, TypedChunks, AfterWithin
<1> HIDE DEF e
<1>4. at \in 1..Len(pages) /\ text = Strip(pages[at])
  BY <1>t, <1>1, TypedChunks DEF CutInv, TextOfPage, CutTypeOK
<1>5. q \in [index : Nat, page : Nat, from : Nat, to : Nat]
  BY <1>t, <1>2, TypedChunks
<1>6. TextOfPage'
  BY <1>1 DEF CutInv, TextOfPage
<1>7. CASE \E i \in start + 1..e : text[i] \notin Blanks
  <2>1. pieces' = Append(pieces, q)
    BY <1>1, <1>7 DEF Keep
  <2>2. /\ pieces' \in Seq([index : Nat, page : Nat, from : Nat, to : Nat])
        /\ Len(pieces') = Len(pieces) + 1 /\ pieces'[Len(pieces) + 1] = q
        /\ \A k \in 1..Len(pieces) : pieces'[k] = pieces[k]
    BY <1>t, <1>5, <2>1, AppendProperties DEF CutTypeOK
  <2> HIDE DEF q
  <2>q. q.index = Len(pieces) /\ q.page = at /\ q.from = start /\ q.to = e
    BY DEF q
  <2>3. CutTypeOK'
    BY <1>t, <1>1, <1>3, <2>2, TypedChunks DEF CutTypeOK
  <2>4. Behind'
    <3> SUFFICES ASSUME NEW k \in 1..Len(pieces) + 1
                 PROVE  /\ pieces'[k].page \in 1..at
                        /\ pieces'[k].page = at =>
                             pieces'[k].from < start' /\ pieces'[k].to - Overlap <= start'
      BY <1>1, <2>2 DEF Behind
    <3>1. CASE k = Len(pieces) + 1
      <4>1. pieces'[k] = q
        BY <2>2, <3>1
      <4>2. q.page \in 1..at
        BY <1>4, <2>q
      <4>3. q.from < start'
        BY <1>t, <1>3, <2>q, TypedChunks
      <4>4. q.to - Overlap <= start'
        BY <1>3, <2>q
      <4> QED
        BY <4>1, <4>2, <4>3, <4>4
    <3>2. CASE k \in 1..Len(pieces)
      <4>1. pieces'[k] = pieces[k]
        BY <2>2, <3>2
      <4>2. /\ pieces[k].page \in 1..at
            /\ pieces[k].page = at =>
                 pieces[k].from < start /\ pieces[k].to - Overlap <= start
        BY <3>2 DEF CutInv, Behind
      <4> QED
        BY <1>t, <1>3, <3>2, <4>1, <4>2, TypedChunks, SMTT(20)
    <3>3. k = Len(pieces) + 1 \/ k \in 1..Len(pieces)
      BY <1>t, TypedChunks
    <3> QED
      BY ONLY <3>1, <3>2, <3>3, Zenon
  <2>5. LittleRepeated'
    <3> DEFINE Fits(k) ==
                 /\ pieces'[k].index = k - 1
                 /\ pieces'[k].from < pieces'[k].to
                 /\ pieces'[k].to <= pieces'[k].from + Size
                 /\ \A j \in 1..k - 1 :
                      /\ pieces'[j].page <= pieces'[k].page
                      /\ pieces'[j].page = pieces'[k].page =>
                           /\ pieces'[j].from < pieces'[k].from
                           /\ pieces'[j].to - Overlap <= pieces'[k].from
    <3> SUFFICES ASSUME NEW k \in 1..Len(pieces) + 1
                 PROVE  Fits(k)
      BY <2>2 DEF LittleRepeated
    <3>1. CASE k = Len(pieces) + 1
      <4>1. k - 1 = Len(pieces) /\ pieces'[k] = q
        BY <1>t, <2>2, <3>1, TypedChunks
      <4>2. \A j \in 1..Len(pieces) :
               /\ pieces'[j].page <= at
               /\ pieces'[j].page = at =>
                    pieces'[j].from < start /\ pieces'[j].to - Overlap <= start
        <5> SUFFICES ASSUME NEW j \in 1..Len(pieces)
                     PROVE  /\ pieces[j].page <= at
                            /\ pieces[j].page = at =>
                                 pieces[j].from < start /\ pieces[j].to - Overlap <= start
          BY <2>2
        <5>1. pieces[j].page \in 1..at
          BY DEF CutInv, Behind
        <5> QED
          BY <1>t, <5>1, TypedChunks DEF CutInv, Behind
      <4> QED
        BY <1>t, <1>2, <2>q, <4>1, <4>2, TypedChunks
    <3>2. CASE k \in 1..Len(pieces)
      <4>1. \A j \in 1..k : pieces'[j] = pieces[j]
        BY <1>t, <2>2, <3>2, TypedChunks
      <4>2. k \in 1..k /\ \A j \in 1..k - 1 : j \in 1..k
        BY <1>t, <3>2, TypedChunks
      <4>3. /\ pieces[k].index = k - 1
            /\ pieces[k].from < pieces[k].to
            /\ pieces[k].to <= pieces[k].from + Size
            /\ \A j \in 1..k - 1 :
                 /\ pieces[j].page <= pieces[k].page
                 /\ pieces[j].page = pieces[k].page =>
                      /\ pieces[j].from < pieces[k].from
                      /\ pieces[j].to - Overlap <= pieces[k].from
        BY <3>2 DEF CutInv, LittleRepeated
      <4> QED
        BY <4>1, <4>2, <4>3
    <3>3. k = Len(pieces) + 1 \/ k \in 1..Len(pieces)
      BY <1>t, TypedChunks
    <3> HIDE DEF Fits
    <3> QED
      BY <3>1, <3>2, <3>3
  <2>6. NothingLost'
    <3>p. pages' = pages /\ Len(pieces') = Len(pieces) + 1
      BY <1>1, <2>2
    <3> SUFFICES ASSUME NEW p \in 1..Len(pages), NEW i \in 1..CutOf(p)',
                        Strip(pages[p])[i] \notin Blanks
                 PROVE  \E k \in 1..Len(pieces) + 1 :
                            pieces'[k].page = p /\ pieces'[k].from < i /\ i <= pieces'[k].to
      BY <3>p DEF NothingLost
    <3>1. CASE i \in 1..CutOf(p)
      <4>1. PICK k \in 1..Len(pieces) :
                   pieces[k].page = p /\ pieces[k].from < i /\ i <= pieces[k].to
        BY <3>1 DEF CutInv, NothingLost
      <4>2. pieces'[k] = pieces[k] /\ k \in 1..Len(pieces) + 1
        BY <1>t, <2>2, TypedChunks
      <4> QED
        BY <4>1, <4>2
    <3>2. CASE i \notin 1..CutOf(p)
      <4>1. p = at
        BY <1>1, <3>2 DEF CutOf
      <4>2. i \in start + 1..start'
        BY <1>t, <1>1, <1>3, <3>2, <4>1, TypedChunks DEF CutOf
      <4>3. q.page = p /\ q.from < i /\ i <= q.to
        BY <1>t, <1>2, <1>3, <2>q, <4>1, <4>2, TypedChunks
      <4>4. pieces'[Len(pieces) + 1] = q /\ Len(pieces) + 1 \in 1..Len(pieces) + 1
        BY <1>t, <2>2, TypedChunks
      <4> QED
        BY <4>3, <4>4
    <3> QED
      BY <3>1, <3>2
  <2> QED
    BY <1>6, <2>3, <2>4, <2>5, <2>6 DEF CutInv
<1>8. CASE \A i \in start + 1..e : text[i] \in Blanks
  <2>1. pieces' = pieces
    BY <1>1, <1>8 DEF Keep
  <2>2. CutTypeOK'
    BY <1>t, <1>1, <1>3, <2>1, TypedChunks DEF CutTypeOK
  <2>3. Behind'
    BY <1>t, <1>1, <1>3, <2>1, TypedChunks DEF CutInv, Behind
  <2>4. LittleRepeated'
    BY <2>1 DEF CutInv, LittleRepeated
  <2>5. NothingLost'
    <3> SUFFICES ASSUME NEW p \in 1..Len(pages), NEW i \in 1..CutOf(p)',
                        Strip(pages[p])[i] \notin Blanks
                 PROVE  \E k \in 1..Len(pieces) :
                            pieces[k].page = p /\ pieces[k].from < i /\ i <= pieces[k].to
      BY <1>1, <2>1 DEF NothingLost
    <3>1. CASE i \in 1..CutOf(p)
      BY <3>1 DEF CutInv, NothingLost
    <3>2. CASE i \notin 1..CutOf(p)
      <4>1. p = at
        BY <1>1, <3>2 DEF CutOf
      <4>2. i \in start + 1..e
        BY <1>t, <1>1, <1>2, <1>3, <3>2, <4>1, TypedChunks DEF CutOf
      <4> QED
        BY <1>4, <1>8, <4>1, <4>2
    <3> QED
      BY <3>1, <3>2
  <2> QED
    BY <1>6, <2>2, <2>3, <2>4, <2>5 DEF CutInv
<1> QED
  BY <1>7, <1>8

\* Whatever text a document has, chunk_pages puts every character that is not blank into a
\* chunk of its page, and takes no character more than Overlap characters back.
THEOREM TextIsCovered == CutSpec => []ChunksCover
<1>1. CutInit => CutInv
  BY InitCut
<1>2. CutInv /\ [CutNext]_cutVars => CutInv'
  <2>1. CutInv /\ UNCHANGED cutVars => CutInv'
    BY DEF CutInv, CutTypeOK, TextOfPage, Behind, LittleRepeated, NothingLost, CutOf, cutVars
  <2> QED
    BY <2>1, BeginCut, TurnPageCut, CutCut DEF CutNext
<1>3. CutInv => ChunksCover
  BY DEF CutInv, ChunksCover
<1> QED
  BY <1>1, <1>2, <1>3, PTL DEF CutSpec

------------------------------------------------------------------------------
(***************************************************************************)
(* Taking the text out: for any file, of any pages, lines and cells.  What *)
(* FlattenSeq joins holds each of its parts, by induction over its parts.  *)
(***************************************************************************)

\* What holds of 0 and, with a number below m, of the next one, holds of m.
LEMMA UpTo ==
    ASSUME NEW m \in Nat, NEW S, 0 \in S, \A n \in 0..(m-1) : n \in S => n + 1 \in S
    PROVE  m \in S
<1> DEFINE Bad == {n \in 0..m : n \notin S}
<1>1. ASSUME Bad # {} PROVE FALSE
  <2>1. PICK n \in Bad : \A k \in Bad : n <= k
    <3>1. Bad \in SUBSET Nat
      OBVIOUS
    <3> HIDE DEF Bad
    <3> QED
      BY <1>1, <3>1, LeastElement
  <2>2. n \in 0..m /\ n \notin S /\ n # 0
    OBVIOUS
  <2>3. n - 1 \in 0..(m-1) /\ n - 1 \in 0..m /\ (n - 1) + 1 = n /\ ~(n <= n - 1)
    BY <2>2
  <2>4. n - 1 \in S
    BY <2>1, <2>3
  <2>5. (n - 1) + 1 \in S
    BY <2>3, <2>4
  <2> QED
    BY <2>2, <2>3, <2>5
<1>2. m \in 0..m
  OBVIOUS
<1> QED
  BY <1>1, <1>2

\* Occurs, position by position.
Within(t, s) == \E i \in 0..Len(s) - Len(t) : \A k \in 1..Len(t) : s[i + k] = t[k]

LEMMA WithinOccurs ==
    ASSUME NEW T, NEW t \in Seq(T), NEW s \in Seq(T), Within(t, s)
    PROVE  Occurs(t, s)
<1>1. PICK i \in 0..Len(s) - Len(t) : \A k \in 1..Len(t) : s[i + k] = t[k]
  BY DEF Within
<1>2. Len(s) \in Nat /\ Len(t) \in Nat /\ i \in Nat /\ i + Len(t) <= Len(s)
  OBVIOUS
<1> DEFINE u == SubSeq(s, i + 1, i + Len(t))
<1>3. u \in Seq(T) /\ Len(u) = Len(t) /\ \A k \in 1..Len(t) : u[k] = s[i + k]
  BY <1>2
<1>4. u = t
  BY <1>1, <1>3
<1> QED
  BY <1>4 DEF Occurs

LEMMA WithinItself ==
    ASSUME NEW T, NEW t \in Seq(T)
    PROVE  Within(t, t) /\ Within(<<>>, t)
<1>1. Len(t) \in Nat /\ Len(t) - Len(t) = 0 /\ Len(<<>>) = 0
  OBVIOUS
<1>2. 0 \in 0..Len(t) - Len(t) /\ 0 \in 0..Len(t) - Len(<<>>)
  BY <1>1
<1>3. \A k \in 1..Len(t) : t[0 + k] = t[k]
  OBVIOUS
<1>4. \A k \in 1..Len(<<>>) : t[0 + k] = <<>>[k]
  BY <1>1
<1> QED
  BY <1>2, <1>3, <1>4 DEF Within

LEMMA WithinAll ==
    ASSUME NEW T, NEW t \in Seq(T), NEW s \in Seq(T), NEW u \in Seq(T), Within(t, s), Within(s, u)
    PROVE  Within(t, u)
<1>1. PICK i \in 0..Len(s) - Len(t) : \A k \in 1..Len(t) : s[i + k] = t[k]
  BY DEF Within
<1>2. PICK j \in 0..Len(u) - Len(s) : \A k \in 1..Len(s) : u[j + k] = s[k]
  BY DEF Within
<1>3. Len(s) \in Nat /\ Len(t) \in Nat /\ Len(u) \in Nat
  OBVIOUS
<1>4. j + i \in 0..Len(u) - Len(t)
  BY <1>3
<1>5. ASSUME NEW k \in 1..Len(t) PROVE u[(j + i) + k] = t[k]
  <2>1. i + k \in 1..Len(s) /\ j + (i + k) = (j + i) + k
    BY <1>3
  <2> QED
    BY <1>1, <1>2, <2>1
<1> QED
  BY <1>4, <1>5 DEF Within

LEMMA WithinParts ==
    ASSUME NEW T, NEW a \in Seq(T), NEW b \in Seq(T)
    PROVE  a \o b \in Seq(T) /\ Within(a, a \o b) /\ Within(b, a \o b)
<1> DEFINE c == a \o b
<1>1. /\ c \in Seq(T) /\ Len(a) \in Nat /\ Len(b) \in Nat /\ Len(c) = Len(a) + Len(b)
      /\ \A k \in 1..Len(a) : c[0 + k] = a[k]
      /\ \A k \in 1..Len(b) : c[Len(a) + k] = b[k]
  OBVIOUS
<1>2. 0 \in 0..Len(c) - Len(a) /\ Len(a) \in 0..Len(c) - Len(b)
  BY <1>1
<1> HIDE DEF c
<1>3. Within(a, c) /\ Within(b, c)
  BY <1>1, <1>2 DEF Within
<1> QED
  BY <1>1, <1>3 DEF c

\* What FlattenSeq builds up.
IsFlat(f, ss, m) == f = [i \in 1..m |-> IF i = 1 THEN ss[i] ELSE f[i - 1] \o ss[i]]

LEMMA FlatExists ==
    ASSUME NEW T, NEW ss \in Seq(Seq(T))
    PROVE  \E f \in [1..Len(ss) -> Seq(T)] : IsFlat(f, ss, Len(ss))
<1> DEFINE S == {m \in Nat : \E f \in [1..m -> Seq(T)] : IsFlat(f, ss, m)}
<1>1. 0 \in S
  <2> DEFINE f == [i \in 1..0 |-> <<>>]
  <2>1. f \in [1..0 -> Seq(T)] /\ f = [i \in 1..0 |-> IF i = 1 THEN ss[i] ELSE f[i - 1] \o ss[i]]
    OBVIOUS
  <2> QED
    BY <2>1 DEF IsFlat
<1>2. ASSUME NEW k \in 0..(Len(ss) - 1), k \in S PROVE k + 1 \in S
  <2>1. PICK g \in [1..k -> Seq(T)] : IsFlat(g, ss, k)
    BY <1>2
  <2> DEFINE m == k + 1
             last == IF k = 0 THEN ss[m] ELSE g[k] \o ss[m]
             f == [i \in 1..m |-> IF i = m THEN last ELSE g[i]]
  <2>i. k \in Nat /\ m \in 1..Len(ss) /\ ss[m] \in Seq(T) /\ (k # 0 => k \in 1..k)
    BY <1>2
  <2>2. last \in Seq(T)
    <3>1. CASE k = 0
      BY <2>i, <3>1
    <3>2. CASE k # 0
      <4>1. g[k] \in Seq(T)
        BY <2>1, <2>i, <3>2
      <4> QED
        BY <2>i, <3>2, <4>1
    <3> QED
      BY <3>1, <3>2
  <2>3. f \in [1..m -> Seq(T)]
    <3>1. ASSUME NEW i \in 1..m PROVE i = m \/ i \in 1..k
      BY <2>i
    <3> HIDE DEF last
    <3> QED
      BY <2>1, <2>2, <3>1
  <2>4. ASSUME NEW i \in 1..m PROVE f[i] = IF i = 1 THEN ss[i] ELSE f[i - 1] \o ss[i]
    <3>1. CASE i = m
      BY <2>i, <3>1
    <3>2. CASE i # m
      <4>1. i \in 1..k /\ (i # 1 => i - 1 \in 1..k /\ i - 1 # m)
        BY <2>i, <3>2
      <4>2. g[i] = IF i = 1 THEN ss[i] ELSE g[i - 1] \o ss[i]
        BY <2>1, <4>1 DEF IsFlat
      <4>3. f[i] = g[i] /\ (i # 1 => f[i - 1] = g[i - 1])
        <5> HIDE DEF last
        <5> QED
          BY <2>i, <3>2, <4>1
      <4> HIDE DEF f
      <4> QED
        BY <4>1, <4>2, <4>3
    <3> QED
      BY <3>1, <3>2
  <2>5. f = [i \in 1..m |-> IF i = 1 THEN ss[i] ELSE f[i - 1] \o ss[i]]
    BY <2>4
  <2>6. IsFlat(f, ss, m)
    <3> HIDE DEF f
    <3> QED
      BY <2>5 DEF IsFlat
  <2>7. m \in Nat
    BY <2>i
  <2> HIDE DEF f
  <2> QED
    BY <2>3, <2>6, <2>7
<1>3. PICK l \in Nat : l = Len(ss)
  OBVIOUS
<1> HIDE DEF S
<1>4. l \in S
  <2>1. \A k \in 0..(l - 1) : k \in S => k + 1 \in S
    BY <1>2, <1>3
  <2> QED
    BY <1>1, <2>1, UpTo
<1> QED
  BY <1>3, <1>4 DEF S

\* FlattenSeq loses nothing of its parts.
LEMMA FlattenHolds ==
    ASSUME NEW T, NEW ss \in Seq(Seq(T))
    PROVE  /\ Seqs!FlattenSeq(ss) \in Seq(T)
           /\ \A i \in 1..Len(ss) : Within(ss[i], Seqs!FlattenSeq(ss))
<1>0. CASE Len(ss) = 0
  <2>1. Seqs!FlattenSeq(ss) = ss
    BY <1>0 DEF Seqs!FlattenSeq
  <2>2. ss = <<>> /\ ss \in Seq(T)
    BY <1>0
  <2> QED
    BY <1>0, <2>1, <2>2
<1>n. CASE Len(ss) # 0
  <2> DEFINE f == CHOOSE g : IsFlat(g, ss, Len(ss))
             S == {m \in Nat : m # 0 => f[m] \in Seq(T) /\ \A i \in 1..m : Within(ss[i], f[m])}
  <2>1. Seqs!FlattenSeq(ss) = f[Len(ss)]
    BY <1>n DEF Seqs!FlattenSeq, IsFlat
  <2>2. IsFlat(f, ss, Len(ss)) /\ Len(ss) \in Nat
    BY FlatExists
  <2> HIDE DEF f
  <2>3. 0 \in S
    OBVIOUS
  <2>4. ASSUME NEW k \in 0..(Len(ss) - 1), k \in S PROVE k + 1 \in S
    <3>1. k \in Nat /\ k + 1 \in 1..Len(ss) /\ ss[k + 1] \in Seq(T) /\ (k + 1) - 1 = k
      BY <2>2
    <3>2. f[k + 1] = IF k + 1 = 1 THEN ss[k + 1] ELSE f[k] \o ss[k + 1]
      BY <2>2, <3>1 DEF IsFlat
    <3>3. CASE k = 0
      <4>1. f[1] = ss[1] /\ ss[1] \in Seq(T) /\ Within(ss[1], ss[1])
        BY <3>1, <3>2, <3>3, WithinItself
      <4>2. \A i \in 1..1 : i = 1
        OBVIOUS
      <4> QED
        BY <3>3, <4>1, <4>2
    <3>4. CASE k # 0
      <4>0. f[k] \in Seq(T) /\ \A i \in 1..k : Within(ss[i], f[k])
        BY <2>4, <3>4
      <4>1. f[k + 1] = f[k] \o ss[k + 1]
        <5>1. k + 1 # 1
          BY <3>1, <3>4
        <5> QED
          BY <3>2, <5>1
      <4>2. f[k + 1] \in Seq(T) /\ Within(f[k], f[k + 1]) /\ Within(ss[k + 1], f[k + 1])
        BY <3>1, <4>0, <4>1, WithinParts
      <4>3. ASSUME NEW i \in 1..(k + 1) PROVE Within(ss[i], f[k + 1])
        <5>1. CASE i = k + 1
          BY <4>2, <5>1
        <5>2. CASE i # k + 1
          <6>1. i \in 1..k /\ i \in 1..Len(ss)
            BY <2>2, <3>1, <5>2
          <6>2. ss[i] \in Seq(T)
            BY <6>1
          <6> QED
            BY <4>0, <4>2, <6>1, <6>2, WithinAll
        <5> QED
          BY <5>1, <5>2
      <4>4. k + 1 \in Nat
        BY <3>1
      <4> QED
        BY <4>2, <4>3, <4>4
    <3> QED
      BY <3>3, <3>4
  <2>5. PICK l \in Nat : l = Len(ss)
    BY <2>2
  <2> HIDE DEF S
  <2>6. l \in S
    <3>1. \A k \in 0..(l - 1) : k \in S => k + 1 \in S
      BY <2>4, <2>5
    <3> QED
      BY <2>3, <3>1, UpTo
  <2> QED
    BY <1>n, <2>1, <2>5, <2>6 DEF S
<1> QED
  BY <1>0, <1>n

LEMMA WithinItem ==
    ASSUME NEW T, NEW t \in Seq(T), NEW s \in Seq(T), Within(t, s), NEW k \in 1..Len(t)
    PROVE  \E j \in 1..Len(s) : s[j] = t[k]
<1>1. PICK i \in 0..Len(s) - Len(t) : \A n \in 1..Len(t) : s[i + n] = t[n]
  BY DEF Within
<1>2. i + k \in 1..Len(s)
  OBVIOUS
<1> QED
  BY <1>1, <1>2

\* Nothing that is joined is lost.
LEMMA JoinHolds ==
    ASSUME NEW T, NEW sep \in Seq(T), NEW ts \in Seq(Seq(T))
    PROVE  Join(sep, ts) \in Seq(T) /\ \A i \in 1..Len(ts) : Within(ts[i], Join(sep, ts))
<1>l. PICK l \in Nat : l = Len(ts)
  OBVIOUS
<1> DEFINE n == 2 * l - 1
           xs == [i \in 1..n |-> IF i % 2 = 1 THEN ts[(i + 1) \div 2] ELSE sep]
<1>1. xs \in Seq(Seq(T)) /\ (l # 0 => Len(xs) = n)
  <2>1. ASSUME NEW i \in 1..n PROVE (i + 1) \div 2 \in 1..l
    BY <1>l
  <2>2. ASSUME NEW i \in 1..n PROVE (IF i % 2 = 1 THEN ts[(i + 1) \div 2] ELSE sep) \in Seq(T)
    <3>1. (i + 1) \div 2 \in 1..Len(ts)
      BY <1>l, <2>1
    <3>2. ts[(i + 1) \div 2] \in Seq(T)
      BY <3>1
    <3> QED
      BY <3>2
  <2>3. CASE l = 0
    <3>1. 1..n = 1..0
      BY <2>3
    <3> HIDE DEF n
    <3>2. xs \in [1..n -> Seq(T)]
      BY <2>2
    <3> HIDE DEF xs
    <3>3. xs \in [1..0 -> Seq(T)]
      BY <3>1, <3>2
    <3>4. \A f \in [1..0 -> Seq(T)] : f \in Seq(Seq(T))
      OBVIOUS
    <3> QED
      BY <2>3, <3>3, <3>4
  <2>4. CASE l # 0
    <3>1. n \in Nat
      BY <2>4
    <3> HIDE DEF n
    <3>2. xs \in [1..n -> Seq(T)]
      BY <2>2
    <3> QED
      BY <3>1, <3>2
  <2> QED
    BY <2>3, <2>4
<1>2. Join(sep, ts) = Seqs!FlattenSeq(xs)
  BY <1>l DEF Join
<1>3. ASSUME NEW i \in 1..l PROVE \E j \in 1..Len(xs) : xs[j] = ts[i]
  <2>1. 2 * i - 1 \in 1..n /\ (2 * i - 1) % 2 = 1 /\ ((2 * i - 1) + 1) \div 2 = i
    OBVIOUS
  <2>2. xs[2 * i - 1] = ts[i]
    BY <2>1
  <2> HIDE DEF xs
  <2> QED
    BY <1>1, <2>1, <2>2
<1> HIDE DEF xs, n
<1> QED
  BY <1>l, <1>1, <1>2, <1>3, FlattenHolds

\* Filled drops what is empty, and nothing else.
LEMMA FilledHolds ==
    ASSUME NEW T, NEW ts \in Seq(Seq(T))
    PROVE  /\ Filled(ts) \in Seq(Seq(T))
           /\ \A i \in 1..Len(ts) : ts[i] # <<>> => \E j \in 1..Len(Filled(ts)) : Filled(ts)[j] = ts[i]
<1> DEFINE xs == [i \in 1..Len(ts) |-> IF ts[i] = <<>> THEN <<>> ELSE <<ts[i]>>]
<1>1. xs \in Seq(Seq(Seq(T))) /\ Len(xs) = Len(ts)
  OBVIOUS
<1>2. Filled(ts) = Seqs!FlattenSeq(xs)
  BY DEF Filled
<1>3. ASSUME NEW i \in 1..Len(ts), ts[i] # <<>> PROVE xs[i] = <<ts[i]>>
  BY <1>3
<1> HIDE DEF xs
<1>4. /\ Seqs!FlattenSeq(xs) \in Seq(Seq(T))
      /\ \A i \in 1..Len(xs) : Within(xs[i], Seqs!FlattenSeq(xs))
  BY <1>1, FlattenHolds
<1>5. ASSUME NEW i \in 1..Len(ts), ts[i] # <<>>
      PROVE  \E j \in 1..Len(Filled(ts)) : Filled(ts)[j] = ts[i]
  <2>1. PICK t : t = <<ts[i]>>
    OBVIOUS
  <2>2. t \in Seq(Seq(T)) /\ 1 \in 1..Len(t) /\ t[1] = ts[i]
    BY <2>1
  <2>3. Within(t, Filled(ts)) /\ Filled(ts) \in Seq(Seq(T))
    BY <1>1, <1>2, <1>3, <1>4, <1>5, <2>1
  <2>4. \E j \in 1..Len(Filled(ts)) : Filled(ts)[j] = t[1]
    BY <2>2, <2>3, WithinItem
  <2> QED
    BY <2>2, <2>4
<1> QED
  BY <1>2, <1>4, <1>5

\* Lines and bodies of the characters in T.
LinesOver(T) == [place : {"text", "table", "aside"}, cells : Seq(Seq(T))]
BodiesOver(T) == Seq(Seq(LinesOver(T)))
LineRows == LinesOver(Chars)
Bodied == BodiesOver(Chars)
FileTypes == {"pdf", "docx", "xlsx", "pptx", "txt", "md", "image"}

LEMMA Characters == LineEnd \in Chars /\ Bar \in Chars /\ Space \in Chars
BY IntakeAssumption, ChunkingAssumption

LEMMA LinesHold ==
    ASSUME NEW ts \in Seq(Texts), NEW i \in 1..Len(ts), NEW c \in Texts, Within(c, ts[i])
    PROVE  Lines(ts) \in Texts /\ Within(c, Lines(ts))
<1> DEFINE F == Filled(ts)
<1>1. ts \in Seq(Seq(Chars)) /\ ts[i] \in Seq(Chars) /\ c \in Seq(Chars)
  BY DEF Texts
<1>2. /\ F \in Seq(Seq(Chars))
      /\ ts[i] # <<>> => \E j \in 1..Len(F) : F[j] = ts[i]
  BY <1>1, FilledHolds
<1>3. <<LineEnd>> \in Seq(Chars)
  BY Characters
<1>4. Lines(ts) = Join(<<LineEnd>>, F)
  BY DEF Lines
<1> HIDE DEF F
<1>5. /\ Lines(ts) \in Seq(Chars)
      /\ \A j \in 1..Len(F) : Within(F[j], Lines(ts))
  BY <1>2, <1>3, <1>4, JoinHolds
<1>6. Within(ts[i], Lines(ts))
  BY <1>1, <1>2, <1>5, WithinItself
<1>7. Within(c, Lines(ts))
  BY <1>1, <1>5, <1>6, WithinAll
<1> QED
  BY <1>5, <1>7 DEF Texts

\* The extractors add no character but these.
Separators == {LineEnd, Bar, Space}

LEMMA LinesType ==
    ASSUME NEW T, LineEnd \in T, NEW ts \in Seq(Seq(T))
    PROVE  Lines(ts) \in Seq(T)
<1>1. <<LineEnd>> \in Seq(T)
  OBVIOUS
<1> QED
  BY <1>1, FilledHolds, JoinHolds DEF Lines

LEMMA LineTypes ==
    ASSUME NEW T, Separators \subseteq T, NEW line \in LinesOver(T)
    PROVE  /\ Seqs!FlattenSeq(line.cells) \in Seq(T)
           /\ Row(line) \in Seq(T) /\ Written(line) \in Seq(T)
<1>1. line.cells \in Seq(Seq(T)) /\ <<>> \in Seq(T) /\ <<Space, Bar, Space>> \in Seq(T)
  BY DEF LinesOver, Separators
<1>2. Seqs!FlattenSeq(line.cells) \in Seq(T)
  BY <1>1, FlattenHolds
<1>3. Join(<<Space, Bar, Space>>, Filled(line.cells)) \in Seq(T)
  BY <1>1, FilledHolds, JoinHolds
<1> QED
  BY <1>1, <1>2, <1>3 DEF Row, Written

LEMMA RowHolds ==
    ASSUME NEW line \in LineRows
    PROVE  /\ Row(line) \in Texts
           /\ line.place # "aside" =>
                \A c \in 1..Len(line.cells) : Within(line.cells[c], Row(line))
<1> DEFINE F == Filled(line.cells)
           sep == <<Space, Bar, Space>>
<1>1. line.cells \in Seq(Seq(Chars))
  BY DEF LineRows, LinesOver, Texts
<1>2. /\ F \in Seq(Seq(Chars))
      /\ \A c \in 1..Len(line.cells) : line.cells[c] # <<>> => \E j \in 1..Len(F) : F[j] = line.cells[c]
  BY <1>1, FilledHolds
<1>3. sep \in Seq(Chars)
  BY Characters
<1>a. CASE line.place = "aside"
  BY <1>a DEF Row, Texts
<1>b. SUFFICES ASSUME line.place # "aside"
               PROVE  /\ Row(line) \in Texts
                      /\ \A c \in 1..Len(line.cells) : Within(line.cells[c], Row(line))
  BY <1>a
<1>4. Row(line) = Join(sep, F)
  BY <1>b DEF Row
<1> HIDE DEF F, sep
<1>5. /\ Row(line) \in Seq(Chars)
      /\ \A j \in 1..Len(F) : Within(F[j], Row(line))
  BY <1>2, <1>3, <1>4, JoinHolds
<1>6. ASSUME NEW c \in 1..Len(line.cells) PROVE Within(line.cells[c], Row(line))
  BY <1>2, <1>5, WithinItself
<1> QED
  BY <1>5, <1>6 DEF Texts

LEMMA CellsHold ==
    ASSUME NEW line \in LineRows
    PROVE  /\ Seqs!FlattenSeq(line.cells) \in Texts
           /\ \A c \in 1..Len(line.cells) : Within(line.cells[c], Seqs!FlattenSeq(line.cells))
<1>1. line.cells \in Seq(Seq(Chars))
  BY DEF LineRows, LinesOver, Texts
<1> QED
  BY <1>1, FlattenHolds DEF Texts

LEMMA WrittenHolds ==
    ASSUME NEW line \in LineRows
    PROVE  /\ Written(line) \in Texts
           /\ line.place = "text" => \A c \in 1..Len(line.cells) : Within(line.cells[c], Written(line))
<1>1. <<>> \in Texts
  BY DEF Texts
<1> QED
  BY <1>1, CellsHold DEF Written

\* The lines of all pages, one after the other.
LEMMA AllLines ==
    ASSUME NEW xss \in Seq(Seq(Texts)), NEW p \in 1..Len(xss), NEW l \in 1..Len(xss[p]),
           NEW c \in Texts, Within(c, xss[p][l])
    PROVE  Lines(Seqs!FlattenSeq(xss)) \in Texts /\ Within(c, Lines(Seqs!FlattenSeq(xss)))
<1> DEFINE F == Seqs!FlattenSeq(xss)
<1>1. F \in Seq(Texts) /\ Within(xss[p], F) /\ xss[p] \in Seq(Texts)
  BY FlattenHolds
<1> HIDE DEF F
<1>2. PICK j \in 1..Len(F) : F[j] = xss[p][l]
  BY <1>1, WithinItem
<1>3. Lines(F) \in Texts /\ Within(c, Lines(F))
  BY <1>1, <1>2, LinesHold
<1> QED
  BY <1>3 DEF F

\* Every cell is on the page it is cited with.
LEMMA CellIsFound ==
    ASSUME NEW t \in FileTypes, NEW b \in Bodied, NEW p \in 1..Len(b), NEW l \in 1..Len(b[p]),
           b[p][l].place \in PlacesRead(t), NEW c \in 1..Len(b[p][l].cells),
           NEW page, page = IF t \in {"pdf", "xlsx", "pptx"} THEN p ELSE 1
    PROVE  Occurs(b[p][l].cells[c], ExtractPages(t, b)[page])
<1> DEFINE line == b[p][l]
           cell == line.cells[c]
           found == ExtractPages(t, b)[page]
<1>1. /\ b[p] \in Seq(LineRows) /\ line \in LineRows /\ cell \in Texts
      /\ \A q \in 1..Len(b) : b[q] \in Seq(LineRows) /\ \A i \in 1..Len(b[q]) : b[q][i] \in LineRows
  <2>1. \A q \in 1..Len(b) : b[q] \in Seq(LineRows)
    BY DEF Bodied, BodiesOver, LineRows
  <2>2. \A q \in 1..Len(b) : \A i \in 1..Len(b[q]) : b[q][i] \in LineRows
    BY <2>1
  <2>3. line \in LineRows
    BY <2>2
  <2>4. cell \in Texts
    BY <2>3 DEF LineRows, LinesOver, Texts
  <2> QED
    BY <2>1, <2>2, <2>3, <2>4
<1> SUFFICES found \in Texts /\ Within(cell, found)
  BY <1>1, WithinOccurs DEF Texts
<1>2. CASE t = "pdf"
  <2> DEFINE xs == [i \in 1..Len(b[p]) |-> Seqs!FlattenSeq(b[p][i].cells)]
  <2>1. xs \in Seq(Texts) /\ Len(xs) = Len(b[p])
    BY <1>1, CellsHold
  <2>2. Within(cell, xs[l])
    BY <1>1, CellsHold
  <2>3. found = Lines(xs)
    BY <1>2 DEF ExtractPages, ExtractPdf, PerPage
  <2> HIDE DEF xs, cell, found
  <2> QED
    BY <1>1, <2>1, <2>2, <2>3, LinesHold
<1>3. CASE t = "xlsx"
  <2> DEFINE xs == [i \in 1..Len(b[p]) |-> Row(b[p][i])]
             ps == PerPage(b, Row)
  <2>1. xs \in Seq(Texts) /\ Len(xs) = Len(b[p])
    BY <1>1, RowHolds
  <2>2. Within(cell, xs[l])
    BY <1>1, <1>3, RowHolds DEF PlacesRead
  <2>3. ps[p] = Lines(xs) /\ Len(ps) = Len(b)
    BY DEF PerPage
  <2>4. ps # <<>>
    BY <2>3
  <2>5. found = Lines(xs)
    BY <1>3, <2>3, <2>4 DEF ExtractPages, ExtractXlsx, OrOneEmpty
  <2> HIDE DEF xs, cell, found
  <2> QED
    BY <1>1, <2>1, <2>2, <2>5, LinesHold
<1>4. CASE t = "pptx"
  <2> DEFINE xs == [i \in 1..Len(b[p]) |-> Written(b[p][i])]
             ps == PerPage(b, Written)
  <2>1. xs \in Seq(Texts) /\ Len(xs) = Len(b[p])
    BY <1>1, WrittenHolds
  <2>2. Within(cell, xs[l])
    BY <1>1, <1>4, WrittenHolds DEF PlacesRead
  <2>3. ps[p] = Lines(xs) /\ Len(ps) = Len(b)
    BY DEF PerPage
  <2>4. ps # <<>>
    BY <2>3
  <2>5. found = Lines(xs)
    BY <1>4, <2>3, <2>4 DEF ExtractPages, ExtractPptx, OrOneEmpty
  <2> HIDE DEF xs, cell, found
  <2> QED
    BY <1>1, <2>1, <2>2, <2>5, LinesHold
<1>5. CASE t = "docx"
  <2> DEFINE xss == [q \in 1..Len(b) |-> [i \in 1..Len(b[q]) |-> Written(b[q][i])]]
  <2>1. /\ xss \in Seq(Seq(Texts)) /\ Len(xss) = Len(b) /\ Len(xss[p]) = Len(b[p])
        /\ Within(cell, xss[p][l])
    <3>1. ASSUME NEW q \in 1..Len(b) PROVE [i \in 1..Len(b[q]) |-> Written(b[q][i])] \in Seq(Texts)
      BY <1>1, WrittenHolds
    <3>2. xss \in Seq(Seq(Texts)) /\ Len(xss) = Len(b)
      BY <3>1
    <3>3. Len(xss[p]) = Len(b[p])
      BY <1>1
    <3>4. Within(cell, xss[p][l])
      BY <1>1, <1>5, WrittenHolds DEF PlacesRead
    <3> QED
      BY <3>2, <3>3, <3>4
  <2>2. found = Lines(Seqs!FlattenSeq(xss))
    BY <1>5 DEF ExtractPages, ExtractDocx
  <2> HIDE DEF xss, cell, found
  <2> QED
    BY <1>1, <2>1, <2>2, AllLines
<1>6. CASE t \in {"txt", "md", "image"}
  <2> DEFINE xss == [q \in 1..Len(b) |-> [i \in 1..Len(b[q]) |-> Seqs!FlattenSeq(b[q][i].cells)]]
  <2>1. /\ xss \in Seq(Seq(Texts)) /\ Len(xss) = Len(b) /\ Len(xss[p]) = Len(b[p])
        /\ Within(cell, xss[p][l])
    <3>1. ASSUME NEW q \in 1..Len(b)
          PROVE  [i \in 1..Len(b[q]) |-> Seqs!FlattenSeq(b[q][i].cells)] \in Seq(Texts)
      BY <1>1, CellsHold
    <3>2. xss \in Seq(Seq(Texts)) /\ Len(xss) = Len(b)
      BY <3>1
    <3>3. Len(xss[p]) = Len(b[p])
      BY <1>1
    <3>4. Within(cell, xss[p][l])
      BY <1>1, CellsHold
    <3> QED
      BY <3>2, <3>3, <3>4
  <2>2. found = Lines(Seqs!FlattenSeq(xss))
    BY <1>6 DEF ExtractPages, ExtractText, ExtractImage, Everything
  <2> HIDE DEF xss, cell, found
  <2> QED
    BY <1>1, <2>1, <2>2, AllLines
<1> QED
  BY <1>2, <1>3, <1>4, <1>5, <1>6 DEF FileTypes

\* The pages hold what characters the body holds, and separators.
LEMMA PagesAreOver ==
    ASSUME NEW T, Separators \subseteq T, NEW t \in FileTypes, NEW b \in BodiesOver(T)
    PROVE  ExtractPages(t, b) \in Seq(Seq(T))
<1>0. LineEnd \in T
  BY DEF Separators
<1>1. \A q \in 1..Len(b) : \A i \in 1..Len(b[q]) : b[q][i] \in LinesOver(T)
  BY DEF BodiesOver
<1>2. ASSUME NEW q \in 1..Len(b)
      PROVE  /\ [i \in 1..Len(b[q]) |-> Seqs!FlattenSeq(b[q][i].cells)] \in Seq(Seq(T))
             /\ [i \in 1..Len(b[q]) |-> Row(b[q][i])] \in Seq(Seq(T))
             /\ [i \in 1..Len(b[q]) |-> Written(b[q][i])] \in Seq(Seq(T))
  <2>1. Len(b[q]) \in Nat
    BY DEF BodiesOver
  <2> QED
    BY <1>1, <2>1, LineTypes
<1>3. <<>> \in Seq(T)
  OBVIOUS
<1>4. CASE t = "pdf"
  <2>1. ExtractPages(t, b) = [q \in 1..Len(b) |-> Lines([i \in 1..Len(b[q]) |-> Seqs!FlattenSeq(b[q][i].cells)])]
    BY <1>4 DEF ExtractPages, ExtractPdf, PerPage
  <2>2. \A q \in 1..Len(b) : Lines([i \in 1..Len(b[q]) |-> Seqs!FlattenSeq(b[q][i].cells)]) \in Seq(T)
    BY <1>2, <1>0, LinesType
  <2> QED
    BY <2>1, <2>2
<1>5. CASE t \in {"xlsx", "pptx"}
  <2> DEFINE ps == IF t = "xlsx" THEN PerPage(b, Row) ELSE PerPage(b, Written)
             R(q) == Lines([i \in 1..Len(b[q]) |-> Row(b[q][i])])
             W(q) == Lines([i \in 1..Len(b[q]) |-> Written(b[q][i])])
  <2>1. ps \in Seq(Seq(T))
    <3>1. /\ PerPage(b, Row) = [q \in 1..Len(b) |-> R(q)]
          /\ PerPage(b, Written) = [q \in 1..Len(b) |-> W(q)]
      BY DEF PerPage
    <3>2. \A q \in 1..Len(b) : R(q) \in Seq(T) /\ W(q) \in Seq(T)
      BY <1>2, <1>0, LinesType
    <3> HIDE DEF R, W
    <3>3. [q \in 1..Len(b) |-> R(q)] \in Seq(Seq(T)) /\ [q \in 1..Len(b) |-> W(q)] \in Seq(Seq(T))
      BY <3>2
    <3> QED
      BY <3>1, <3>3
  <2>2. ExtractPages(t, b) = OrOneEmpty(ps)
    BY <1>5 DEF ExtractPages, ExtractXlsx, ExtractPptx
  <2> HIDE DEF ps
  <2> QED
    BY <1>3, <2>1, <2>2 DEF OrOneEmpty
<1>6. CASE t = "docx"
  <2> DEFINE xss == [q \in 1..Len(b) |-> [i \in 1..Len(b[q]) |-> Written(b[q][i])]]
  <2>1. xss \in Seq(Seq(Seq(T)))
    BY <1>2
  <2>2. ExtractPages(t, b) = <<Lines(Seqs!FlattenSeq(xss))>>
    BY <1>6 DEF ExtractPages, ExtractDocx
  <2> HIDE DEF xss
  <2> QED
    BY <2>1, <2>2, FlattenHolds, <1>0, LinesType
<1>7. CASE t \in {"txt", "md", "image"}
  <2> DEFINE xss == [q \in 1..Len(b) |-> [i \in 1..Len(b[q]) |-> Seqs!FlattenSeq(b[q][i].cells)]]
  <2>1. xss \in Seq(Seq(Seq(T)))
    BY <1>2
  <2>2. ExtractPages(t, b) = <<Lines(Seqs!FlattenSeq(xss))>>
    BY <1>7 DEF ExtractPages, ExtractText, ExtractImage, Everything
  <2> HIDE DEF xss
  <2> QED
    BY <2>1, <2>2, FlattenHolds, <1>0, LinesType
<1> QED
  BY <1>4, <1>5, <1>6, <1>7 DEF FileTypes

LEMMA PagesAreTexts ==
    ASSUME NEW t \in FileTypes, NEW b \in Bodied
    PROVE  ExtractPages(t, b) \in Seq(Texts)
<1>1. Separators \subseteq Chars
  BY Characters DEF Separators
<1> QED
  BY <1>1, PagesAreOver DEF Bodied, Texts

\* A NUL in the text that was taken out stood in a cell.
LEMMA NulComesFromCell ==
    ASSUME NEW t \in FileTypes, NEW b \in Bodied, NEW p \in 1..Len(ExtractPages(t, b)),
           Occurs(<<Nul>>, ExtractPages(t, b)[p])
    PROVE  \E q \in 1..Len(b) : \E l \in 1..Len(b[q]) :
             \E c \in 1..Len(b[q][l].cells) : Occurs(<<Nul>>, b[q][l].cells[c])
<1> DEFINE T == Chars \ {Nul}
           found == ExtractPages(t, b)[p]
<1>1. Separators \subseteq T
  BY Characters, IntakeAssumption, ChunkingAssumption DEF Separators
<1> SUFFICES ASSUME \A q \in 1..Len(b) : \A l \in 1..Len(b[q]) :
                      \A c \in 1..Len(b[q][l].cells) : ~Occurs(<<Nul>>, b[q][l].cells[c])
             PROVE  FALSE
  OBVIOUS
<1>2. ASSUME NEW q \in 1..Len(b), NEW l \in 1..Len(b[q]) PROVE b[q][l] \in LinesOver(T)
  <2>1. b[q][l] \in LinesOver(Chars)
    BY DEF Bodied, BodiesOver
  <2> DEFINE cells == b[q][l].cells
  <2>2. cells \in Seq(Seq(Chars))
    BY <2>1 DEF LinesOver
  <2>3. ASSUME NEW c \in 1..Len(cells) PROVE cells[c] \in Seq(T)
    <3>0. Nul \in Chars
      BY IntakeAssumption
    <3>1. cells[c] \in Seq(Chars) /\ Nul \in Chars /\ ~Occurs(<<Nul>>, cells[c])
      <4>1. ~Occurs(<<Nul>>, cells[c])
        OBVIOUS
      <4> HIDE DEF cells
      <4>2. cells[c] \in Seq(Chars)
        BY <2>2
      <4> QED
        BY <3>0, <4>1, <4>2
    <3> HIDE DEF cells
    <3>2. ASSUME NEW i \in 1..Len(cells[c]), cells[c][i] = Nul PROVE FALSE
      <4>1. <<Nul>> \in Seq(Chars) /\ Len(<<Nul>>) = 1 /\ <<Nul>>[1] = Nul
        BY <3>1
      <4>2. i - 1 \in 0..Len(cells[c]) - 1 /\ (i - 1) + 1 = i
        BY <3>1
      <4>3. \A k \in 1..1 : cells[c][(i - 1) + k] = <<Nul>>[k]
        BY <3>2, <4>1, <4>2
      <4>4. Within(<<Nul>>, cells[c])
        BY <4>1, <4>2, <4>3 DEF Within
      <4> QED
        BY <3>1, <4>1, <4>4, WithinOccurs
    <3> QED
      BY <3>1, <3>2
  <2>4. cells \in Seq(Seq(T))
    <3> DEFINE U == Seq(T)
    <3>1. Len(cells) \in Nat /\ cells = [c \in 1..Len(cells) |-> cells[c]]
      BY <2>2
    <3>2. \A c \in 1..Len(cells) : cells[c] \in U
      BY <2>3
    <3> HIDE DEF U, cells
    <3>3. cells \in Seq(U)
      BY <3>1, <3>2
    <3> QED
      BY <3>3 DEF U
  <2>5. b[q][l].place \in {"text", "table", "aside"} /\ DOMAIN b[q][l] = {"place", "cells"}
    BY <2>1 DEF LinesOver
  <2>6. b[q][l] = [place |-> b[q][l].place, cells |-> cells]
    BY <2>1 DEF LinesOver
  <2> HIDE DEF T, cells
  <2> QED
    BY <2>4, <2>5, <2>6 DEF LinesOver
<1>3. b \in BodiesOver(T)
  <2>1. b \in Seq(Seq(LinesOver(Chars)))
    BY DEF Bodied, BodiesOver
  <2>2. ASSUME NEW q \in 1..Len(b) PROVE b[q] \in Seq(LinesOver(T))
    <3>1. b[q] \in Seq(LinesOver(Chars))
      BY <2>1
    <3> HIDE DEF T
    <3> QED
      BY <1>2, <3>1
  <2> HIDE DEF T
  <2> DEFINE L == LinesOver(T)
  <2>3. Len(b) \in Nat /\ b = [q \in 1..Len(b) |-> b[q]]
    BY <2>1
  <2>4. \A q \in 1..Len(b) : b[q] \in Seq(L)
    BY <2>2
  <2> HIDE DEF L
  <2>5. b \in Seq(Seq(L))
    BY <2>3, <2>4
  <2> QED
    BY <2>5 DEF BodiesOver, L
<1>4. ExtractPages(t, b) \in Seq(Seq(T))
  BY <1>1, <1>3, PagesAreOver
<1>5. found \in Seq(T)
  BY <1>4
<1>6. Len(<<Nul>>) = 1
  OBVIOUS
<1>7. PICK i \in 0..Len(found) - 1 : SubSeq(found, i + 1, i + 1) = <<Nul>>
  BY <1>6 DEF Occurs
<1> HIDE DEF found
<1>8. i + 1 \in 1..Len(found)
  BY <1>5, <1>7
<1>9. found[i + 1] = Nul
  <2> DEFINE k == i + 1
  <2>1. k \in 1..Len(found) /\ SubSeq(found, k, k) = <<Nul>>
    BY <1>7, <1>8
  <2> HIDE DEF T, k
  <2> DEFINE u == SubSeq(found, k, k)
  <2>2. k \in Int /\ k - k + 1 = 1 /\ k + 1 - 1 = k
    BY <2>1
  <2>3. u[1] = found[k]
    <3>1. \A j \in k .. k : found[j] \in {found[k]}
      BY <2>2
    <3>2. \A j \in 1 .. k - k + 1 : SubSeq(found, k, k)[j] = found[k + j - 1]
      BY <2>2, <3>1, SubSeqProperties
    <3> QED
      BY <2>2, <3>2
  <2>4. u = <<Nul>>
    BY <2>1
  <2> HIDE DEF u
  <2>5. found[k] = Nul
    BY <2>3, <2>4
  <2> QED
    BY <2>5 DEF k
<1> QED
  BY <1>5, <1>8, <1>9

\* The pages that are cut are those of the body.
IntakeInv ==
    /\ stage \in {"none", "refused", "stored", "cutting", "failed", "ready"}
    /\ stage \in {"stored", "cutting", "failed", "ready"} => type \in FileTypes /\ body \in Bodied
    /\ stage = "failed" =>
         \/ error = "embedding"
         \/ error = "file" /\ (~file.sound \/ (type = "image" /\ ~Ocr))
         \/ error = "text" /\ pages = ExtractPages(type, body) /\ ~Storable
    /\ stage \in {"cutting", "ready"} => pages = ExtractPages(type, body)

LEMMA IntakeStep == IntakeInv /\ [IntakeNext]_intakeVars => IntakeInv'
<1> SUFFICES ASSUME IntakeInv, [IntakeNext]_intakeVars PROVE IntakeInv'
  OBVIOUS
<1>1. ASSUME NEW f \in Files, NEW b \in Bodies, Accept(f, b) PROVE IntakeInv'
  <2>1. b \in Bodied
    BY IntakeAssumption DEF Bodied, BodiesOver, LinesOver, Texts
  <2>2. ExtMap[f.ext] \in FileTypes
    BY <1>1 DEF Accept, DetectFileType, ExtMap, FileTypes
  <2>3. stage' = "stored" /\ body' = b /\ type' = ExtMap[f.ext]
    BY <1>1 DEF Accept
  <2> QED
    BY <2>1, <2>2, <2>3 DEF IntakeInv
<1>2. ASSUME NEW f \in Files, Refuse(f) PROVE IntakeInv'
  BY <1>2 DEF Refuse, IntakeInv
<1>3. CASE Extract
  <2>1. /\ stage = "stored" /\ stage' = "cutting" /\ type' = type /\ body' = body
        /\ pages' = ExtractPages(type, body)
    BY <1>3 DEF Extract, Begin
  <2>2. ExtractPages(type, body)' = ExtractPages(type, body)
    BY <2>1
  <2> QED
    BY <2>1, <2>2 DEF IntakeInv
<1>4. CASE CannotExtract
  BY <1>4 DEF CannotExtract, Fail, Extracts, IntakeInv, FileTypes
<1>5. CASE CutStep \/ Finish \/ UNCHANGED intakeVars
  <2>1. /\ type' = type /\ body' = body /\ file' = file /\ pages' = pages
        /\ \/ stage' = stage /\ error' = error
           \/ stage = "cutting" /\ stage' = "ready"
    BY <1>5 DEF CutStep, TurnPage, Cut, Finish, intakeVars, cutVars
  <2> QED
    BY <2>1 DEF IntakeInv, Storable
<1>6. CASE CannotEmbed \/ CannotStore
  BY <1>6 DEF CannotEmbed, CannotStore, Fail, IntakeInv, Storable, cutVars
<1> QED
  BY <1>1, <1>2, <1>3, <1>4, <1>5, <1>6 DEF IntakeNext

LEMMA IntakeInitially == IntakeInit => IntakeInv
BY DEF IntakeInit, IntakeInv

(* With its embeddings to be had, a file the checks let in fails only where its library
   cannot read it, as a picture without OCR, or over a NUL in one of its cells; and once it
   is ready the text of every cell its extractor reads stands on the page it is cited with:
   whatever extract_pages joins, nothing of its parts is lost.  What DOCX, PPTX and XLSX
   hold elsewhere (PlacesRead) is not read. *)
THEOREM AcceptedFilesAreRead == IntakeSpec => []AcceptedIsRead
<1>1. IntakeInv => AcceptedIsRead
  <2>1. ASSUME IntakeInv, stage = "ready", NEW p \in 1..Len(body), NEW l \in 1..Len(body[p]),
               body[p][l].place \in PlacesRead(type), NEW c \in 1..Len(body[p][l].cells)
        PROVE  Occurs(body[p][l].cells[c], pages[CitedPage(p)])
    <3>1. type \in FileTypes /\ body \in Bodied /\ pages = ExtractPages(type, body)
      BY <2>1 DEF IntakeInv
    <3>2. CitedPage(p) = IF type \in {"pdf", "xlsx", "pptx"} THEN p ELSE 1
      BY DEF CitedPage
    <3> QED
      BY <2>1, <3>1, <3>2, CellIsFound
  <2>2. ASSUME IntakeInv, stage = "failed", error = "text"
        PROVE  \E p \in 1..Len(body) : \E l \in 1..Len(body[p]) :
                 \E c \in 1..Len(body[p][l].cells) : Occurs(<<Nul>>, body[p][l].cells[c])
    <3>1. /\ type \in FileTypes /\ body \in Bodied /\ pages = ExtractPages(type, body)
          /\ ~Storable
      BY <2>2 DEF IntakeInv
    <3>2. PICK p \in 1..Len(pages) : Occurs(<<Nul>>, pages[p])
      BY <3>1 DEF Storable
    <3> QED
      BY <3>1, <3>2, NulComesFromCell
  <2>3. ASSUME IntakeInv, stage = "failed", error # "text"
        PROVE  \/ error = "embedding"
               \/ error = "file" /\ (~file.sound \/ (type = "image" /\ ~Ocr))
    BY <2>3 DEF IntakeInv
  <2>4. ASSUME IntakeInv, stage = "failed" PROVE AcceptedIsRead
    <3>1. stage # "ready"
      BY <2>4
    <3> QED
      BY <2>2, <2>3, <2>4, <3>1 DEF AcceptedIsRead
  <2>5. ASSUME IntakeInv, stage # "failed" PROVE AcceptedIsRead
    BY <2>1, <2>5 DEF AcceptedIsRead
  <2> QED
    BY <2>4, <2>5
<1> QED
  BY <1>1, IntakeInitially, IntakeStep, PTL DEF IntakeSpec

(* process_document cuts what it took out as chunk_pages says, and does nothing else to it:
   an upload behaves like Chunking, at most with pauses. *)
THEOREM IntakeCuts == IntakeSpec => CutSpec
<1>1. IntakeInit => CutInit
  BY DEF IntakeInit
<1>2. IntakeInv /\ [IntakeNext]_intakeVars => [CutNext]_cutVars
  <2> SUFFICES ASSUME IntakeInv, [IntakeNext]_intakeVars PROVE [CutNext]_cutVars
    OBVIOUS
  <2>1. CASE Extract
    <3>1. Begin(ExtractPages(type, body)) /\ ExtractPages(type, body) \in Seq(Texts)
      BY <2>1, PagesAreTexts DEF Extract, IntakeInv
    <3> QED
      BY <3>1 DEF CutNext
  <2>2. CASE CutStep
    BY <2>2 DEF CutStep, CutNext
  <2>3. CASE \/ Finish \/ CannotExtract \/ CannotEmbed \/ CannotStore
             \/ (\E f \in Files : Refuse(f)) \/ UNCHANGED intakeVars
    BY <2>3 DEF Finish, CannotExtract, CannotEmbed, CannotStore, Fail, Refuse, intakeVars
  <2>4. CASE \E f \in Files, b \in Bodies : Accept(f, b)
    BY <2>4 DEF Accept
  <2> QED
    BY <2>1, <2>2, <2>3, <2>4 DEF IntakeNext
<1> QED
  BY <1>1, <1>2, IntakeInitially, IntakeStep, PTL DEF IntakeSpec, CutSpec

\* So whatever file is uploaded, all the text that was taken out of it is in its chunks.
COROLLARY UploadsAreCovered == IntakeSpec => []ChunksCover
BY IntakeCuts, TextIsCovered, PTL

------------------------------------------------------------------------------
USE DocsAssumption, ProcsAssumption, LimitsAssumption

(***************************************************************************)
(* Type correctness.                                                       *)
(***************************************************************************)

\* A process that has something to do works on a document.
LEMMA Busy ==
    ASSUME TypeOK, NEW p \in Procs, proc[p].pc # "idle"
    PROVE  /\ proc[p].doc \in Docs /\ proc[p].seen \in Status
           /\ proc[p].pc \in UploadPc \cup DeletePc \cup ProcessPc
BY DEF TypeOK, Idle

LEMMA StartType ==
    ASSUME TypeOK, NEW p \in Procs, NEW d \in Docs, NEW s \in Status,
           NEW label \in UploadPc \cup DeletePc \cup ProcessPc, Start(p, label, d, s)
    PROVE  proc' \in [Procs -> {Idle} \cup
               [pc : UploadPc \cup DeletePc \cup ProcessPc, doc : Docs, seen : Status]]
BY DEF TypeOK, Start

LEMMA GoOnType ==
    ASSUME TypeOK, NEW p \in Procs, proc[p].pc # "idle",
           NEW label \in UploadPc \cup DeletePc \cup ProcessPc, GoOn(p, label)
    PROVE  proc' \in [Procs -> {Idle} \cup
               [pc : UploadPc \cup DeletePc \cup ProcessPc, doc : Docs, seen : Status]]
BY Busy, StartType DEF GoOn, Status

LEMMA StopType ==
    ASSUME TypeOK, NEW p \in Procs, Stop(p)
    PROVE  proc' \in [Procs -> {Idle} \cup
               [pc : UploadPc \cup DeletePc \cup ProcessPc, doc : Docs, seen : Status]]
BY DEF TypeOK, Stop

\* Every variable keeps its type: in particular the queue never holds a negative
\* number of messages and only documents with an id have rows, chunks and files.
THEOREM TypeCorrect == Spec => []TypeOK
<1>1. Init => TypeOK
  BY DEF Init, TypeOK, Idle, Status
<1>2. TypeOK /\ [Next]_vars => TypeOK'
  <2> SUFFICES ASSUME TypeOK, [Next]_vars PROVE TypeOK'
    OBVIOUS
  <2> USE DEF UploadPc, DeletePc, ProcessPc, Procs, At
  <2>1. ASSUME NEW c \in Clients, NEW d \in Docs, CheckCount(c, d) PROVE TypeOK'
    <3>1. "none" \in Status BY DEF Status
    <3> QED BY <2>1, <3>1, StartType DEF CheckCount, TypeOK, rowVars, envVars
  <2>2. ASSUME NEW c \in Clients, NEW d \in Docs, StartDelete(c, d) PROVE TypeOK'
    <3>1. "none" \in Status BY DEF Status
    <3> QED BY <2>2, <3>1, StartType DEF StartDelete, TypeOK, rowVars, envVars
  <2>3. ASSUME NEW c \in Clients, CheckBytes(c) PROVE TypeOK'
    BY <2>3, GoOnType, StopType DEF CheckBytes, TypeOK, rowVars, envVars
  <2>4. ASSUME NEW c \in Clients, PutBlob(c) PROVE TypeOK'
    BY <2>4, Busy, GoOnType DEF PutBlob, TypeOK, rowVars, envVars
  <2>5. ASSUME NEW c \in Clients, InsertRow(c) PROVE TypeOK'
    BY <2>5, Busy, GoOnType DEF InsertRow, TypeOK, rowVars, envVars, Status
  <2>6. ASSUME NEW c \in Clients, HandOver(c) PROVE TypeOK'
    BY <2>6, Busy, StartType, StopType DEF HandOver, TypeOK, rowVars, envVars
  <2>7. ASSUME NEW c \in Clients, DeleteBlob(c) PROVE TypeOK'
    BY <2>7, Busy, GoOnType DEF DeleteBlob, TypeOK, rowVars, envVars
  <2>8. ASSUME NEW c \in Clients, DeleteRow(c) PROVE TypeOK'
    BY <2>8, Busy, StopType DEF DeleteRow, TypeOK, rowVars, envVars, Status
  <2>9. ASSUME NEW w \in Workers, NEW d \in Docs, TakeTask(w, d) PROVE TypeOK'
    BY <2>9, StartType DEF TakeTask, Load, TypeOK, rowVars, envVars
  <2>10. ASSUME NEW p \in Procs, MarkProcessing(p) PROVE TypeOK'
    BY <2>10, Busy, GoOnType, StopType DEF MarkProcessing, TypeOK, rowVars, envVars, Status
  <2>11. ASSUME NEW p \in Procs, ReadBlob(p) PROVE TypeOK'
    BY <2>11, GoOnType DEF ReadBlob, TypeOK, rowVars, envVars
  <2>12. ASSUME NEW p \in Procs, SaveChunks(p) PROVE TypeOK'
    BY <2>12, Busy, GoOnType, StopType DEF SaveChunks, TypeOK, rowVars, envVars, Status
  <2>13. ASSUME NEW p \in Procs, FailProcessing(p) PROVE TypeOK'
    BY <2>13, GoOnType DEF FailProcessing, TypeOK, rowVars, envVars
  <2>14. ASSUME NEW p \in Procs, MarkFailed(p) PROVE TypeOK'
    BY <2>14, Busy, StopType DEF MarkFailed, TypeOK, rowVars, envVars, Status
  <2>15. ASSUME NEW p \in Procs, Abort(p) PROVE TypeOK'
    BY <2>15, StopType DEF Abort, TypeOK, rowVars
  <2>16. ASSUME NEW d \in Docs, Redeliver(d) PROVE TypeOK'
    BY <2>16 DEF Redeliver, TypeOK, rowVars
  <2>17. CASE UNCHANGED vars
    BY <2>17 DEF TypeOK, vars
  <2> QED
    BY <2>1, <2>2, <2>3, <2>4, <2>5, <2>6, <2>7, <2>8, <2>9, <2>10, <2>11, <2>12,
       <2>13, <2>14, <2>15, <2>16, <2>17
       DEF Next, UploadStep, DeleteStep, ProcessStep
<1> QED
  BY <1>1, <1>2, PTL DEF Spec

------------------------------------------------------------------------------
(***************************************************************************)
(* The quota.  An upload that has passed CheckCount and not committed its  *)
(* row holds a place: rows and places together stay below the bound, for   *)
(* a place is only taken while there are fewer than DocLimit rows.         *)
(***************************************************************************)

InFlight == {c \in Clients : proc[c].pc \in NotInserted}

PlacesInv ==
    Cardinality(Rows) + Cardinality(InFlight) < DocLimit + Cardinality(Clients)

LEMMA Finite ==
    /\ IsFiniteSet(Rows) /\ Cardinality(Rows) \in Nat
    /\ IsFiniteSet(InFlight) /\ Cardinality(InFlight) \in Nat
    /\ Cardinality(InFlight) <= Cardinality(Clients) /\ Cardinality(Clients) \in Nat
<1>1. Rows \subseteq Docs /\ InFlight \subseteq Clients
  BY DEF Rows, InFlight
<1> QED
  BY <1>1, FS_Subset, FS_CardinalityType

LEMMA AddOne ==
    ASSUME NEW S, NEW T, NEW x, IsFiniteSet(S), T \subseteq S \cup {x}
    PROVE  /\ IsFiniteSet(T) /\ Cardinality(T) \in Nat
           /\ Cardinality(T) <= Cardinality(S) + 1
<1>1. IsFiniteSet(S \cup {x}) /\ Cardinality(S) \in Nat
  BY FS_AddElement, FS_CardinalityType
<1>2. \/ Cardinality(S \cup {x}) = Cardinality(S)
      \/ Cardinality(S \cup {x}) = Cardinality(S) + 1
  BY FS_AddElement
<1>3. IsFiniteSet(T) /\ Cardinality(T) <= Cardinality(S \cup {x}) /\ Cardinality(T) \in Nat
  BY <1>1, FS_Subset, FS_CardinalityType
<1> QED
  BY <1>1, <1>2, <1>3

\* A step that adds no row and starts no upload.
LEMMA NoNewPlace ==
    ASSUME PlacesInv, Rows' \subseteq Rows, InFlight' \subseteq InFlight
    PROVE  PlacesInv'
<1>1. Cardinality(Rows') <= Cardinality(Rows) /\ Cardinality(Rows') \in Nat
  BY Finite, FS_Subset, FS_CardinalityType
<1>2. Cardinality(InFlight') <= Cardinality(InFlight) /\ Cardinality(InFlight') \in Nat
  BY Finite, FS_Subset, FS_CardinalityType
<1>3. (Cardinality(Rows) + Cardinality(InFlight) < DocLimit + Cardinality(Clients))'
  BY <1>1, <1>2, Finite DEF PlacesInv
<1> QED
  BY <1>3 DEF PlacesInv

\* A client that is not uploading after its step has not begun an upload.
LEMMA LeavesInFlight ==
    ASSUME TypeOK, NEW p \in Procs, NEW r, proc' = [proc EXCEPT ![p] = r],
           r.pc \notin NotInserted \/ proc[p].pc \in NotInserted
    PROVE  InFlight' \subseteq InFlight
BY DEF InFlight, TypeOK, Procs

LEMMA PlacesStep == TypeOK /\ PlacesInv /\ [Next]_vars => PlacesInv'
<1> SUFFICES ASSUME TypeOK, PlacesInv, [Next]_vars PROVE PlacesInv'
  OBVIOUS
<1> USE DEF At, Procs
<1>a. "none" \notin NotInserted /\ "idle" \notin NotInserted /\ "inserted" \notin NotInserted
  BY DEF NotInserted, UploadPc
<1>1. ASSUME NEW c \in Clients, NEW d \in Docs, CheckCount(c, d) PROVE PlacesInv'
  <2>1. Rows' = Rows /\ Cardinality(Rows) < DocLimit
    BY <1>1 DEF CheckCount, Rows, rowVars, CountFits
  <2>2. (Cardinality(InFlight) <= Cardinality(Clients) /\ Cardinality(InFlight) \in Nat)'
    <3>1. InFlight' \subseteq Clients
      BY DEF InFlight
    <3> QED
      BY <3>1, FS_Subset, FS_CardinalityType
  <2>3. Cardinality(Rows) + Cardinality(InFlight') < DocLimit + Cardinality(Clients)
    BY <2>1, <2>2, Finite
  <2> QED
    BY <2>1, <2>3 DEF PlacesInv
<1>2. ASSUME NEW c \in Clients, InsertRow(c) PROVE PlacesInv'
  <2> DEFINE d == proc[c].doc
  <2>1. Rows' \subseteq Rows \cup {d}
    BY <1>2 DEF InsertRow, Rows, TypeOK
  <2>2. InFlight' = InFlight \ {c} /\ c \in InFlight
    BY <1>2, <1>a DEF InsertRow, InFlight, GoOn, Start, TypeOK, NotInserted, UploadPc
  <2>3. Cardinality(InFlight') = Cardinality(InFlight) - 1
    BY <2>2, Finite, FS_RemoveElement
  <2>4. Cardinality(Rows') <= Cardinality(Rows) + 1 /\ Cardinality(Rows') \in Nat
    BY <2>1, Finite, AddOne
  <2>5. Cardinality(Rows') + Cardinality(InFlight') < DocLimit + Cardinality(Clients)
    BY <2>3, <2>4, Finite DEF PlacesInv
  <2> QED
    BY <2>5 DEF PlacesInv
<1>3. ASSUME NEW c \in Clients, NEW d \in Docs, StartDelete(c, d) PROVE PlacesInv'
  <2>1. Rows' = Rows BY <1>3 DEF StartDelete, Rows, rowVars
  <2>2. InFlight' \subseteq InFlight
    BY <1>3, LeavesInFlight DEF StartDelete, Start, NotInserted, UploadPc
  <2> QED BY <2>1, <2>2, NoNewPlace
<1>4. ASSUME NEW c \in Clients, CheckBytes(c) \/ PutBlob(c) \/ HandOver(c) PROVE PlacesInv'
  <2>1. Rows' = Rows BY <1>4 DEF CheckBytes, PutBlob, HandOver, Rows, rowVars
  <2>2. InFlight' \subseteq InFlight
    BY <1>4, LeavesInFlight
       DEF CheckBytes, PutBlob, HandOver, GoOn, Stop, Start, NotInserted, UploadPc, Idle
  <2> QED BY <2>1, <2>2, NoNewPlace
<1>5. ASSUME NEW c \in Clients, DeleteStep(c) PROVE PlacesInv'
  <2>1. Rows' \subseteq Rows
    BY <1>5 DEF DeleteStep, DeleteBlob, DeleteRow, Rows, rowVars, TypeOK
  <2>2. InFlight' \subseteq InFlight
    BY <1>5, LeavesInFlight
       DEF DeleteStep, DeleteBlob, DeleteRow, GoOn, Stop, Start, NotInserted, UploadPc, Idle
  <2> QED BY <2>1, <2>2, NoNewPlace
<1>6. ASSUME NEW w \in Workers, NEW d \in Docs, TakeTask(w, d) PROVE PlacesInv'
  <2>1. Rows' = Rows BY <1>6 DEF TakeTask, Rows, rowVars
  <2>2. InFlight' \subseteq InFlight
    <3>1. CASE UNCHANGED proc
      BY <3>1 DEF InFlight
    <3>2. CASE Start(w, "loaded", d, status[d])
      BY <3>2, LeavesInFlight DEF Start, NotInserted, UploadPc
    <3> QED BY <1>6, <3>1, <3>2 DEF TakeTask, Load
  <2> QED BY <2>1, <2>2, NoNewPlace
<1>7. ASSUME NEW p \in Procs, ProcessStep(p) PROVE PlacesInv'
  <2>1. Rows' \subseteq Rows
    BY <1>7 DEF ProcessStep, MarkProcessing, ReadBlob, SaveChunks, FailProcessing,
                MarkFailed, Rows, rowVars, TypeOK
  <2>2. InFlight' \subseteq InFlight
    BY <1>7, LeavesInFlight
       DEF ProcessStep, MarkProcessing, ReadBlob, SaveChunks, FailProcessing,
           MarkFailed, GoOn, Stop, Start, NotInserted, UploadPc, Idle
  <2> QED BY <2>1, <2>2, NoNewPlace
<1>8. ASSUME NEW p \in Procs, Abort(p) PROVE PlacesInv'
  <2>1. Rows' = Rows BY <1>8 DEF Abort, Rows, rowVars
  <2>2. InFlight' \subseteq InFlight
    BY <1>8, <1>a, LeavesInFlight DEF Abort, Stop, Idle
  <2> QED BY <2>1, <2>2, NoNewPlace
<1>9. ASSUME NEW d \in Docs, Redeliver(d) PROVE PlacesInv'
  <2>1. Rows' = Rows /\ InFlight' = InFlight
    BY <1>9 DEF Redeliver, Rows, InFlight, rowVars
  <2> QED BY <2>1, NoNewPlace
<1>10. CASE UNCHANGED vars
  <2>1. Rows' = Rows /\ InFlight' = InFlight
    BY <1>10 DEF vars, Rows, InFlight
  <2> QED BY <2>1, NoNewPlace
<1> QED
  BY <1>1, <1>2, <1>3, <1>4, <1>5, <1>6, <1>7, <1>8, <1>9, <1>10 DEF Next, UploadStep

\* Whatever the interleaving of quota checks, inserts, deletions and crashes, an
\* organization never has more documents than its plan allows plus the number of
\* other uploads that can be in flight at the same time.
THEOREM QuotaOvershoot == Spec => []CountOvershootBounded
<1>1. Init => PlacesInv
  <2> SUFFICES ASSUME Init PROVE PlacesInv
    OBVIOUS
  <2>1. Rows = {} /\ InFlight = {}
    BY DEF Init, Rows, InFlight, Idle, NotInserted, UploadPc, Procs
  <2>2. Cardinality(Clients) # 0 /\ Cardinality(Clients) \in Nat
    BY FS_EmptySet, FS_CardinalityType
  <2>3. Cardinality({}) = 0
    BY FS_EmptySet
  <2>4. 0 + 0 < DocLimit + Cardinality(Clients)
    BY <2>2
  <2> QED
    BY <2>1, <2>3, <2>4 DEF PlacesInv
<1>2. PlacesInv => CountOvershootBounded
  BY Finite DEF PlacesInv, CountOvershootBounded
<1> QED
  BY <1>1, <1>2, TypeCorrect, PlacesStep, PTL DEF Spec

------------------------------------------------------------------------------
(***************************************************************************)
(* An id belongs to one upload.                                            *)
(***************************************************************************)

LEMMA UploadStepInv == TypeOK /\ UploadInv /\ [Next]_vars => UploadInv'
<1> SUFFICES ASSUME TypeOK, UploadInv, [Next]_vars PROVE UploadInv'
  OBVIOUS
<1> USE DEF At, Rows, NotInserted, UploadPc, rowVars
<1>0. \A p \in Procs : proc[p].pc # "idle" => proc[p].doc \in Docs
  BY Busy
<1>1. ASSUME NEW c \in Clients, NEW d \in Docs, CheckCount(c, d) PROVE UploadInv'
  <2>1. \A p \in Procs : proc[p].doc # d
    <3>1. ASSUME NEW p \in Procs, proc[p].pc = "idle" PROVE proc[p].doc # d
      BY <3>1 DEF TypeOK, Idle, DeletePc, ProcessPc
    <3>2. ASSUME NEW p \in Procs, proc[p].pc # "idle" PROVE proc[p].doc # d
      BY <1>1, <3>2 DEF CheckCount, UploadInv
    <3> QED BY <3>1, <3>2
  <2> QED
    BY <1>1, <2>1 DEF CheckCount, Start, UploadInv, TypeOK, Procs, Idle
<1>2. ASSUME NEW c \in Clients, NEW d \in Docs, StartDelete(c, d) PROVE UploadInv'
  BY <1>2 DEF StartDelete, Start, UploadInv, TypeOK, Procs
<1>3. ASSUME NEW c \in Clients, CheckBytes(c) PROVE UploadInv'
  BY <1>3, <1>0 DEF CheckBytes, GoOn, Stop, Start, UploadInv, TypeOK, Procs, Idle
<1>4. ASSUME NEW c \in Clients, PutBlob(c) PROVE UploadInv'
  BY <1>4, <1>0 DEF PutBlob, GoOn, Start, UploadInv, TypeOK, Procs
<1>5. ASSUME NEW c \in Clients, InsertRow(c) PROVE UploadInv'
  BY <1>5, <1>0 DEF InsertRow, GoOn, Start, UploadInv, TypeOK, Procs
<1>6. ASSUME NEW c \in Clients, HandOver(c) PROVE UploadInv'
  BY <1>6, <1>0 DEF HandOver, Stop, Start, UploadInv, TypeOK, Procs, Idle
<1>7. ASSUME NEW c \in Clients, DeleteBlob(c) PROVE UploadInv'
  BY <1>7, <1>0 DEF DeleteBlob, GoOn, Start, UploadInv, TypeOK, Procs
<1>8. ASSUME NEW c \in Clients, DeleteRow(c) PROVE UploadInv'
  BY <1>8, <1>0 DEF DeleteRow, Stop, UploadInv, TypeOK, Procs, Idle
<1>9. ASSUME NEW w \in Workers, NEW d \in Docs, TakeTask(w, d) PROVE UploadInv'
  BY <1>9 DEF TakeTask, Load, Start, UploadInv, TypeOK, Procs
<1>10. ASSUME NEW p \in Procs, MarkProcessing(p) PROVE UploadInv'
  BY <1>10, <1>0 DEF MarkProcessing, GoOn, Stop, Start, UploadInv, TypeOK, Idle
<1>11. ASSUME NEW p \in Procs, ReadBlob(p) \/ FailProcessing(p) PROVE UploadInv'
  BY <1>11, <1>0 DEF ReadBlob, FailProcessing, GoOn, Start, UploadInv, TypeOK
<1>12. ASSUME NEW p \in Procs, SaveChunks(p) PROVE UploadInv'
  BY <1>12, <1>0, SMTT(20) DEF SaveChunks, GoOn, Stop, Start, UploadInv, TypeOK, Idle
<1>13. ASSUME NEW p \in Procs, MarkFailed(p) PROVE UploadInv'
  BY <1>13, <1>0 DEF MarkFailed, Stop, UploadInv, TypeOK, Idle
<1>14. ASSUME NEW p \in Procs, Abort(p) PROVE UploadInv'
  BY <1>14, <1>0 DEF Abort, Stop, UploadInv, TypeOK, Idle
<1>15. ASSUME NEW d \in Docs, Redeliver(d) PROVE UploadInv'
  BY <1>15 DEF Redeliver, UploadInv, TypeOK
<1>16. CASE UNCHANGED vars
  BY <1>16 DEF vars, UploadInv
<1> QED
  BY <1>1, <1>2, <1>3, <1>4, <1>5, <1>6, <1>7, <1>8, <1>9, <1>10, <1>11, <1>12,
     <1>13, <1>14, <1>15, <1>16 DEF Next, UploadStep, DeleteStep, ProcessStep

\* No deletion, task or second upload ever meets an id whose row is not committed.
THEOREM IdsAreFresh == Spec => []UploadInv
<1>1. Init => UploadInv
  BY DEF Init, UploadInv, Idle, At, Rows, NotInserted, UploadPc
<1> QED
  BY <1>1, TypeCorrect, UploadStepInv, PTL DEF Spec

------------------------------------------------------------------------------
(***************************************************************************)
(* Files and rows.  No step but an abort makes a document damaged.         *)
(***************************************************************************)

LEMMA DamageOnlyByAbort ==
    ASSUME TypeOK, UploadInv, [Next]_vars, ~\E p \in Procs : Abort(p)
    PROVE  Damaged' \subseteq Damaged /\ aborts' = aborts
<1> USE DEF At, Rows, NotInserted, UploadPc, rowVars, envVars, Damaged, StrayBlob, LostBlob
<1>0. \A p \in Procs : proc[p].pc # "idle" => proc[p].doc \in Docs
  BY Busy
<1> DEFINE Fine == Damaged' \subseteq Damaged /\ aborts' = aborts
<1>1. ASSUME NEW c \in Clients, NEW d \in Docs, CheckCount(c, d) PROVE Fine
  BY <1>1 DEF CheckCount, Start, TypeOK, Procs
<1>2. ASSUME NEW c \in Clients, NEW d \in Docs, StartDelete(c, d) PROVE Fine
  BY <1>2 DEF StartDelete, Start, TypeOK, Procs
<1>3. ASSUME NEW c \in Clients, CheckBytes(c) PROVE Fine
  BY <1>3, <1>0 DEF CheckBytes, GoOn, Stop, Start, TypeOK, Procs, Idle
<1>4. ASSUME NEW c \in Clients, PutBlob(c) PROVE Fine
  BY <1>4, <1>0 DEF PutBlob, GoOn, Start, TypeOK, Procs
<1>5. ASSUME NEW c \in Clients, InsertRow(c) PROVE Fine
  BY <1>5, <1>0 DEF InsertRow, GoOn, Start, UploadInv, TypeOK, Procs
<1>6. ASSUME NEW c \in Clients, HandOver(c) PROVE Fine
  BY <1>6, <1>0 DEF HandOver, Stop, Start, TypeOK, Procs, Idle
<1>7. ASSUME NEW c \in Clients, DeleteBlob(c) PROVE Fine
  BY <1>7, <1>0 DEF DeleteBlob, GoOn, Start, TypeOK, Procs
<1>8. ASSUME NEW c \in Clients, DeleteRow(c) PROVE Fine
  <2>1. proc[c].doc \in Docs /\ c \in Procs
    BY <1>8, <1>0 DEF DeleteRow, Procs
  <2>2. proc[c].doc \notin Damaged'
    BY <1>8, <2>1 DEF DeleteRow, Stop, TypeOK, Idle, UploadInv
  <2> QED
    BY <1>8, <2>1, <2>2 DEF DeleteRow, Stop, TypeOK, Idle
<1>9. ASSUME NEW w \in Workers, NEW d \in Docs, TakeTask(w, d) PROVE Fine
  BY <1>9 DEF TakeTask, Load, Start, TypeOK, Procs
<1>10. ASSUME NEW p \in Procs, MarkProcessing(p) PROVE Fine
  BY <1>10, <1>0 DEF MarkProcessing, GoOn, Stop, Start, TypeOK, Idle
<1>11. ASSUME NEW p \in Procs, ReadBlob(p) \/ FailProcessing(p) PROVE Fine
  BY <1>11, <1>0 DEF ReadBlob, FailProcessing, GoOn, Start, TypeOK
<1>12. ASSUME NEW p \in Procs, SaveChunks(p) PROVE Fine
  BY <1>12, <1>0 DEF SaveChunks, GoOn, Stop, Start, TypeOK, Idle
<1>13. ASSUME NEW p \in Procs, MarkFailed(p) PROVE Fine
  BY <1>13, <1>0 DEF MarkFailed, Stop, TypeOK, Idle
<1>14. ASSUME NEW d \in Docs, Redeliver(d) PROVE Fine
  BY <1>14 DEF Redeliver
<1>15. CASE UNCHANGED vars
  BY <1>15 DEF vars
<1> QED
  BY <1>1, <1>2, <1>3, <1>4, <1>5, <1>6, <1>7, <1>8, <1>9, <1>10, <1>11, <1>12,
     <1>13, <1>14, <1>15 DEF Next, UploadStep, DeleteStep, ProcessStep

LEMMA DamageFinite == IsFiniteSet(Damaged) /\ Cardinality(Damaged) \in Nat
<1>1. Damaged \subseteq Docs
  BY DEF Damaged
<1> QED
  BY <1>1, FS_Subset, FS_CardinalityType

LEMMA DamageStep ==
    TypeOK /\ UploadInv /\ DamageBounded /\ [Next]_vars => DamageBounded'
<1> SUFFICES ASSUME TypeOK, UploadInv, DamageBounded, [Next]_vars PROVE DamageBounded'
  OBVIOUS
<1>1. ASSUME NEW p \in Procs, Abort(p) PROVE DamageBounded'
  <2>1. Damaged' \subseteq Damaged \cup {proc[p].doc}
    BY <1>1 DEF Abort, Stop, Damaged, StrayBlob, LostBlob, At, Rows, TypeOK, Idle, rowVars
  <2>2. Cardinality(Damaged') <= Cardinality(Damaged) + 1 /\ Cardinality(Damaged') \in Nat
    BY <2>1, AddOne, DamageFinite
  <2>3. aborts' = aborts + 1 /\ aborts \in Nat
    BY <1>1 DEF Abort, TypeOK
  <2> QED
    BY <2>2, <2>3, DamageFinite DEF DamageBounded
<1>2. ASSUME ~\E p \in Procs : Abort(p) PROVE DamageBounded'
  <2>1. Damaged' \subseteq Damaged /\ aborts' = aborts
    BY <1>2, DamageOnlyByAbort
  <2>2. Cardinality(Damaged') <= Cardinality(Damaged) /\ Cardinality(Damaged') \in Nat
    BY <2>1, FS_Subset, FS_CardinalityType, DamageFinite
  <2>3. aborts \in Nat
    BY DEF TypeOK
  <2> QED
    BY <2>1, <2>2, <2>3, DamageFinite DEF DamageBounded
<1> QED
  BY <1>1, <1>2

\* At most one document per dead process has a file and no row, or a row and no
\* file, that nobody is about to repair; with no crash there is none.
THEOREM NoFileLeaksOrGetsLost == Spec => []DamageBounded
<1>1. Init => DamageBounded
  <2> SUFFICES ASSUME Init PROVE DamageBounded
    OBVIOUS
  <2>1. Damaged = {}
    BY DEF Init, Damaged, StrayBlob, LostBlob, Rows
  <2>2. Cardinality({}) = 0
    BY FS_EmptySet
  <2> QED
    BY <2>1, <2>2 DEF Init, DamageBounded
<1> QED
  BY <1>1, TypeCorrect, IdsAreFresh, DamageStep, PTL DEF Spec

------------------------------------------------------------------------------
(***************************************************************************)
(* Once each.  A document is held by one upload, one message or one run of *)
(* process_document, when the broker delivers no message twice.            *)
(***************************************************************************)

LEMMA OneHolderStep ==
    ASSUME MaxRedeliveries = 0
    PROVE  TypeOK /\ UploadInv /\ OneHolder /\ [Next]_vars => OneHolder'
<1> SUFFICES ASSUME TypeOK, UploadInv, OneHolder, [Next]_vars PROVE OneHolder'
  OBVIOUS
<1> USE DEF At, NotInserted, UploadPc, ProcessPc, Carries, rowVars
<1>0. \A p \in Procs : proc[p].pc # "idle" => proc[p].doc \in Docs
  BY Busy
<1>1. ASSUME NEW c \in Clients, NEW d \in Docs, CheckCount(c, d) PROVE OneHolder'
  <2>1. queue[d] = 0 /\ \A q \in Procs : Carries(q) => proc[q].doc # d
    <3>1. queue[d] \in Nat /\ ~(queue[d] > 0)
      BY <1>1 DEF CheckCount, UploadInv, TypeOK
    <3>2. \A q \in Procs : Carries(q) => proc[q].doc \in used
      BY DEF UploadInv
    <3> QED BY <1>1, <3>1, <3>2 DEF CheckCount
  <2> QED
    BY <1>1, <2>1 DEF CheckCount, Start, OneHolder, TypeOK, Procs
<1>2. ASSUME NEW c \in Clients, NEW d \in Docs, StartDelete(c, d) PROVE OneHolder'
  BY <1>2 DEF StartDelete, Start, OneHolder, TypeOK, Procs
<1>3. ASSUME NEW c \in Clients, CheckBytes(c) PROVE OneHolder'
  BY <1>3, <1>0 DEF CheckBytes, GoOn, Stop, Start, OneHolder, TypeOK, Procs, Idle
<1>4. ASSUME NEW c \in Clients, PutBlob(c) PROVE OneHolder'
  BY <1>4, <1>0 DEF PutBlob, GoOn, Start, OneHolder, TypeOK, Procs
<1>5. ASSUME NEW c \in Clients, InsertRow(c) PROVE OneHolder'
  BY <1>5, <1>0 DEF InsertRow, GoOn, Start, OneHolder, UploadInv, TypeOK, Procs
<1>6. ASSUME NEW c \in Clients, HandOver(c) PROVE OneHolder'
  BY <1>6, <1>0 DEF HandOver, Stop, Start, OneHolder, TypeOK, Procs, Idle
<1>7. ASSUME NEW c \in Clients, DeleteBlob(c) PROVE OneHolder'
  BY <1>7, <1>0 DEF DeleteBlob, GoOn, Start, OneHolder, TypeOK, Procs
<1>8. ASSUME NEW c \in Clients, DeleteRow(c) PROVE OneHolder'
  BY <1>8, <1>0 DEF DeleteRow, Stop, OneHolder, TypeOK, Procs, Idle
<1>9. ASSUME NEW w \in Workers, NEW d \in Docs, TakeTask(w, d) PROVE OneHolder'
  BY <1>9 DEF TakeTask, Load, Start, OneHolder, TypeOK, Procs
<1>10. ASSUME NEW p \in Procs, MarkProcessing(p) PROVE OneHolder'
  BY <1>10, <1>0 DEF MarkProcessing, GoOn, Stop, Start, OneHolder, TypeOK, Idle
<1>11. ASSUME NEW p \in Procs, ReadBlob(p) \/ FailProcessing(p) PROVE OneHolder'
  BY <1>11, <1>0 DEF ReadBlob, FailProcessing, GoOn, Start, OneHolder, TypeOK
<1>12. ASSUME NEW p \in Procs, SaveChunks(p) PROVE OneHolder'
  BY <1>12, <1>0 DEF SaveChunks, GoOn, Stop, Start, OneHolder, TypeOK, Idle
<1>13. ASSUME NEW p \in Procs, MarkFailed(p) PROVE OneHolder'
  BY <1>13, <1>0 DEF MarkFailed, Stop, OneHolder, TypeOK, Idle
<1>14. ASSUME NEW p \in Procs, Abort(p) PROVE OneHolder'
  BY <1>14, <1>0 DEF Abort, Stop, OneHolder, TypeOK, Idle
<1>15. ASSUME NEW d \in Docs, Redeliver(d) PROVE OneHolder'
  BY <1>15 DEF Redeliver, TypeOK
<1>16. CASE UNCHANGED vars
  BY <1>16 DEF vars, OneHolder
<1> QED
  BY <1>1, <1>2, <1>3, <1>4, <1>5, <1>6, <1>7, <1>8, <1>9, <1>10, <1>11, <1>12,
     <1>13, <1>14, <1>15, <1>16 DEF Next, UploadStep, DeleteStep, ProcessStep

\* Chunks exist exactly for READY documents, and all of them, whatever is deleted
\* or dies while process_document runs.
THEOREM ChunksOnlyWhenReady ==
    ASSUME MaxRedeliveries = 0
    PROVE  Spec => []OneHolder
<1>1. Init => OneHolder
  BY DEF Init, OneHolder, Idle, At, Carries, UploadPc, ProcessPc
<1> QED
  BY <1>1, TypeCorrect, IdsAreFresh, OneHolderStep, PTL DEF Spec

------------------------------------------------------------------------------
(***************************************************************************)
(* The pipeline implements DocumentLife.                                   *)
(***************************************************************************)

LifeOf(d) ==
    IF status[d] \in {"uploaded", "processing"} THEN "pending"
    ELSE IF status[d] \in {"ready", "failed"} THEN status[d]
    ELSE IF d \in used /\ ~Uploading(d) THEN "gone" ELSE "absent"

LEMMA LifeIs ==
    /\ TypeOK => lifeOf = [d \in Docs |-> LifeOf(d)]
    /\ TypeOK' => lifeOf' = [d \in Docs |-> LifeOf(d)']
<1>1. ASSUME TypeOK PROVE lifeOf = [d \in Docs |-> LifeOf(d)]
  BY <1>1 DEF lifeOf, LifeOf, TypeOK, Status
<1>2. ASSUME TypeOK' PROVE lifeOf' = [d \in Docs |-> LifeOf(d)']
  BY <1>2 DEF lifeOf, LifeOf, TypeOK, Status
<1> QED
  BY <1>1, <1>2

\* A step that leaves the life of every document but d alone.
Elsewhere(d) == \A e \in Docs \ {d} : LifeOf(e)' = LifeOf(e)

LEMMA Moves ==
    ASSUME TypeOK, TypeOK', NEW d \in Docs, Elsewhere(d), NEW from, NEW to,
           LifeOf(d) \in from, LifeOf(d)' = to
    PROVE  Life!Become(d, from, to)
<1>1. lifeOf = [e \in Docs |-> LifeOf(e)] /\ lifeOf' = [e \in Docs |-> LifeOf(e)']
  BY LifeIs
<1>2. lifeOf' = [lifeOf EXCEPT ![d] = to]
  BY <1>1 DEF Elsewhere
<1> QED
  BY <1>1, <1>2 DEF Life!Become

LEMMA Stays ==
    ASSUME TypeOK, TypeOK', chunks' = chunks, \A d \in Docs : LifeOf(d)' = LifeOf(d)
    PROVE  UNCHANGED Life!lifeVars
<1>1. lifeOf = [e \in Docs |-> LifeOf(e)] /\ lifeOf' = [e \in Docs |-> LifeOf(e)']
  BY LifeIs
<1> QED
  BY <1>1 DEF Life!lifeVars

\* An id that an upload still holds belongs to that upload alone.
LEMMA Alone ==
    ASSUME TypeOK, UploadInv, NEW p \in Procs, proc[p].pc \in NotInserted
    PROVE  /\ proc[p].doc \in Docs /\ LifeOf(proc[p].doc) = "absent"
           /\ status[proc[p].doc] = "none" /\ proc[p].doc \in used
           /\ \A q \in Procs \ {p} : proc[q].doc # proc[p].doc
<1>1. proc[p].pc # "idle"
  BY DEF NotInserted, UploadPc
<1> QED
  BY <1>1, Busy DEF UploadInv, LifeOf, Uploading, At

\* Steps that touch no row and neither start nor end the hold of an upload.
LEMMA Unseen ==
    ASSUME TypeOK, TypeOK', UNCHANGED <<rowVars, used>>,
           \A d \in Docs : Uploading(d)' <=> Uploading(d)
    PROVE  UNCHANGED Life!lifeVars
BY Stays DEF LifeOf, rowVars

\* A process that leaves an upload before its row is committed gives up the id.
LEMMA GivesUp ==
    ASSUME TypeOK, TypeOK', UploadInv, NEW p \in Procs, Stop(p), UNCHANGED <<rowVars, used>>
    PROVE  [Life!Next]_(Life!lifeVars)
<1>1. CASE proc[p].pc \in NotInserted
  <2>d. PICK d \in Docs : d = proc[p].doc
    BY <1>1, Alone
  <2>1. d \in Docs /\ LifeOf(d) = "absent" /\ status[d] = "none" /\ d \in used
    BY <2>d, <1>1, Alone
  <2>2. ~Uploading(d)' /\ \A e \in Docs \ {d} : Uploading(e)' <=> Uploading(e)
    BY <2>d, <1>1, Alone DEF Uploading, Stop, TypeOK, Idle, NotInserted, UploadPc
  <2>3. LifeOf(d)' = "gone" /\ Elsewhere(d)
    BY <2>d, <2>1, <2>2 DEF LifeOf, Elsewhere, rowVars
  <2>4. Life!Become(d, {"absent"}, "gone")
    BY <2>d, <2>1, <2>3, Moves
  <2>5. Life!Refuse(d)
    BY <2>d, <2>4 DEF Life!Refuse, rowVars
  <2> QED
    BY <2>d, <2>1, <2>5 DEF Life!Next
<1>2. CASE proc[p].pc \notin NotInserted
  <2>1. \A e \in Docs : Uploading(e)' <=> Uploading(e)
    BY <1>2 DEF Uploading, Stop, TypeOK, Idle, NotInserted, UploadPc
  <2> QED
    BY <2>1, Unseen
<1> QED
  BY <1>1, <1>2

LEMMA LifeStep ==
    ASSUME MaxRedeliveries = 0
    PROVE  TypeOK /\ TypeOK' /\ UploadInv /\ OneHolder /\ [Next]_vars
             => [Life!Next]_(Life!lifeVars)
<1> SUFFICES ASSUME TypeOK, TypeOK', UploadInv, OneHolder, [Next]_vars
             PROVE  [Life!Next]_(Life!lifeVars)
  OBVIOUS
<1> USE DEF At, NotInserted, UploadPc
<1>0. \A p \in Procs : proc[p].pc # "idle" => proc[p].doc \in Docs
  BY Busy
<1>1. ASSUME NEW c \in Clients, NEW d \in Docs, CheckCount(c, d)
      PROVE  [Life!Next]_(Life!lifeVars)
  <2>1. status[d] = "none" /\ Uploading(d)'
    BY <1>1 DEF CheckCount, Start, UploadInv, Uploading, Rows, TypeOK, Procs
  <2>2. \A e \in Docs \ {d} : Uploading(e)' <=> Uploading(e)
    BY <1>1 DEF CheckCount, Start, Uploading, TypeOK, Procs
  <2>3. \A e \in Docs : LifeOf(e)' = LifeOf(e)
    BY <1>1, <2>1, <2>2 DEF CheckCount, LifeOf, rowVars
  <2> QED
    BY <1>1, <2>3, Stays DEF CheckCount, rowVars
<1>2. ASSUME NEW c \in Clients, NEW d \in Docs, StartDelete(c, d)
      PROVE  [Life!Next]_(Life!lifeVars)
  <2>1. \A e \in Docs : Uploading(e)' <=> Uploading(e)
    BY <1>2 DEF StartDelete, Start, Uploading, TypeOK, Procs
  <2> QED
    BY <1>2, <2>1, Unseen DEF StartDelete
<1>3. ASSUME NEW c \in Clients, CheckBytes(c) PROVE [Life!Next]_(Life!lifeVars)
  <2>1. CASE Stop(c)
    BY <1>3, <2>1, GivesUp DEF CheckBytes, Procs
  <2>2. CASE GoOn(c, "checked")
    <3>1. \A e \in Docs : Uploading(e)' <=> Uploading(e)
      BY <1>3, <2>2 DEF CheckBytes, GoOn, Start, Uploading, TypeOK, Procs
    <3> QED
      BY <1>3, <3>1, Unseen DEF CheckBytes
  <2> QED
    BY <1>3, <2>1, <2>2 DEF CheckBytes
<1>4. ASSUME NEW c \in Clients, PutBlob(c) PROVE [Life!Next]_(Life!lifeVars)
  <2>1. \A e \in Docs : Uploading(e)' <=> Uploading(e)
    BY <1>4 DEF PutBlob, GoOn, Start, Uploading, TypeOK, Procs
  <2> QED
    BY <1>4, <2>1, Unseen DEF PutBlob
<1>5. ASSUME NEW c \in Clients, InsertRow(c) PROVE [Life!Next]_(Life!lifeVars)
  <2>d. PICK d \in Docs : d = proc[c].doc
    BY <1>5, <1>0 DEF InsertRow, Procs
  <2>1. c \in Procs /\ d \in Docs /\ LifeOf(d) = "absent"
    BY <2>d, <1>5, Alone DEF InsertRow, Procs
  <2>2. \A e \in Docs \ {d} : Uploading(e)' <=> Uploading(e)
    BY <2>d, <1>5, <2>1 DEF InsertRow, GoOn, Start, Uploading, TypeOK
  <2>3. LifeOf(d)' = "pending" /\ Elsewhere(d)
    BY <2>d, <1>5, <2>1, <2>2 DEF InsertRow, LifeOf, Elsewhere, TypeOK
  <2>4. Life!Become(d, {"absent"}, "pending")
    BY <2>d, <2>1, <2>3, Moves
  <2>5. Life!Accept(d)
    BY <2>d, <1>5, <2>4 DEF Life!Accept, InsertRow
  <2> QED
    BY <2>d, <2>1, <2>5 DEF Life!Next
<1>6. ASSUME NEW c \in Clients, HandOver(c) PROVE [Life!Next]_(Life!lifeVars)
  <2>1. \A e \in Docs : Uploading(e)' <=> Uploading(e)
    BY <1>6 DEF HandOver, Stop, Start, Uploading, TypeOK, Procs, Idle
  <2> QED
    BY <1>6, <2>1, Unseen DEF HandOver
<1>7. ASSUME NEW c \in Clients, DeleteBlob(c) PROVE [Life!Next]_(Life!lifeVars)
  <2>1. \A e \in Docs : Uploading(e)' <=> Uploading(e)
    BY <1>7 DEF DeleteBlob, GoOn, Start, Uploading, TypeOK, Procs
  <2> QED
    BY <1>7, <2>1, Unseen DEF DeleteBlob
<1>8. ASSUME NEW c \in Clients, DeleteRow(c) PROVE [Life!Next]_(Life!lifeVars)
  <2>d. PICK d \in Docs : d = proc[c].doc
    BY <1>8, <1>0 DEF DeleteRow, Procs
  <2>1. c \in Procs /\ d \in Docs /\ d \in used
    BY <2>d, <1>8, <1>0 DEF DeleteRow, Procs, UploadInv
  <2>2. \A e \in Docs : Uploading(e)' <=> Uploading(e)
    BY <2>d, <1>8, <2>1 DEF DeleteRow, Stop, Uploading, TypeOK, Idle
  <2>3. ~Uploading(d)
    BY <2>d, <1>8, <2>1 DEF DeleteRow, Uploading, UploadInv
  <2>4. LifeOf(d)' = "gone" /\ Elsewhere(d)
    BY <2>d, <1>8, <2>1, <2>2, <2>3 DEF DeleteRow, LifeOf, Elsewhere, TypeOK
  <2>5. CASE status[d] = "none"
    <3>1. LifeOf(d) = "gone" /\ chunks[d] = 0
      BY <2>d, <2>1, <2>3, <2>5 DEF LifeOf, OneHolder
    <3>2. \A e \in Docs : LifeOf(e)' = LifeOf(e)
      BY <2>d, <2>4, <3>1 DEF Elsewhere
    <3>3. chunks' = chunks
      BY <2>d, <1>8, <2>1, <3>1 DEF DeleteRow, TypeOK
    <3> QED
      BY <2>d, <3>2, <3>3, Stays
  <2>6. CASE status[d] # "none"
    <3>1. LifeOf(d) \in {"pending", "ready", "failed"}
      BY <2>d, <2>1, <2>6 DEF LifeOf, TypeOK, Status
    <3>2. Life!Become(d, {"pending", "ready", "failed"}, "gone")
      BY <2>d, <2>1, <2>4, <3>1, Moves
    <3>3. Life!Remove(d)
      BY <2>d, <1>8, <3>2 DEF Life!Remove, DeleteRow
    <3> QED
      BY <2>d, <2>1, <3>3 DEF Life!Next
  <2> QED
    BY <2>d, <2>5, <2>6
<1>9. ASSUME NEW w \in Workers, NEW d \in Docs, TakeTask(w, d)
      PROVE  [Life!Next]_(Life!lifeVars)
  <2>1. \A e \in Docs : Uploading(e)' <=> Uploading(e)
    BY <1>9 DEF TakeTask, Load, Start, Uploading, TypeOK, Procs
  <2> QED
    BY <1>9, <2>1, Unseen DEF TakeTask
<1>10. ASSUME NEW p \in Procs, MarkProcessing(p) PROVE [Life!Next]_(Life!lifeVars)
  <2>d. PICK d \in Docs : d = proc[p].doc
    BY <1>10, <1>0 DEF MarkProcessing
  <2>1. d \in Docs /\ status[d] \in {"none", "uploaded"}
    BY <2>d, <1>10, <1>0 DEF MarkProcessing, OneHolder, Carries, ProcessPc
  <2>2. \A e \in Docs : Uploading(e)' <=> Uploading(e)
    BY <2>d, <1>10 DEF MarkProcessing, GoOn, Stop, Start, Uploading, TypeOK, Idle
  <2>3. \A e \in Docs : LifeOf(e)' = LifeOf(e)
    BY <2>d, <1>10, <2>1, <2>2 DEF MarkProcessing, LifeOf, TypeOK
  <2> QED
    BY <2>d, <1>10, <2>3, Stays DEF MarkProcessing
<1>11. ASSUME NEW p \in Procs, ReadBlob(p) \/ FailProcessing(p)
       PROVE  [Life!Next]_(Life!lifeVars)
  <2>1. \A e \in Docs : Uploading(e)' <=> Uploading(e)
    BY <1>11 DEF ReadBlob, FailProcessing, GoOn, Start, Uploading, TypeOK
  <2> QED
    BY <1>11, <2>1, Unseen DEF ReadBlob, FailProcessing
<1>12. ASSUME NEW p \in Procs, SaveChunks(p) PROVE [Life!Next]_(Life!lifeVars)
  <2>d. PICK d \in Docs : d = proc[p].doc
    BY <1>12, <1>0 DEF SaveChunks
  <2>1. d \in Docs /\ status[d] \in {"none", "processing"} /\ chunks[d] = 0
    BY <2>d, <1>12, <1>0 DEF SaveChunks, OneHolder, Carries, ProcessPc
  <2>2. \A e \in Docs : Uploading(e)' <=> Uploading(e)
    BY <2>d, <1>12 DEF SaveChunks, GoOn, Stop, Start, Uploading, TypeOK, Idle
  <2>3. CASE status[d] = "none"
    BY <2>d, <1>12, <2>2, <2>3, Unseen DEF SaveChunks
  <2>4. CASE status[d] = "processing"
    <3>1. LifeOf(d) = "pending" /\ LifeOf(d)' = "ready" /\ Elsewhere(d)
      BY <2>d, <1>12, <2>1, <2>2, <2>4 DEF SaveChunks, LifeOf, Elsewhere, TypeOK
    <3>2. Life!Become(d, {"pending"}, "ready")
      BY <2>d, <2>1, <3>1, Moves
    <3>3. chunks' = [chunks EXCEPT ![d] = ChunksOf[d]]
      BY <2>d, <1>12, <2>1, <2>4 DEF SaveChunks, TypeOK
    <3> QED
      BY <2>d, <2>1, <3>2, <3>3 DEF Life!Next, Life!Index
  <2> QED
    BY <2>d, <2>1, <2>3, <2>4
<1>13. ASSUME NEW p \in Procs, MarkFailed(p) PROVE [Life!Next]_(Life!lifeVars)
  <2>d. PICK d \in Docs : d = proc[p].doc
    BY <1>13, <1>0 DEF MarkFailed
  <2>1. d \in Docs /\ status[d] \in {"none", "processing"}
    BY <2>d, <1>13, <1>0 DEF MarkFailed, OneHolder, Carries, ProcessPc
  <2>2. \A e \in Docs : Uploading(e)' <=> Uploading(e)
    BY <2>d, <1>13 DEF MarkFailed, Stop, Uploading, TypeOK, Idle
  <2>3. CASE status[d] = "none"
    BY <2>d, <1>13, <2>2, <2>3, Unseen DEF MarkFailed, rowVars
  <2>4. CASE status[d] = "processing"
    <3>1. LifeOf(d) = "pending" /\ LifeOf(d)' = "failed" /\ Elsewhere(d)
      BY <2>d, <1>13, <2>1, <2>2, <2>4 DEF MarkFailed, LifeOf, Elsewhere, TypeOK
    <3>2. Life!Become(d, {"pending"}, "failed")
      BY <2>d, <2>1, <3>1, Moves
    <3> QED
      BY <2>d, <1>13, <2>1, <3>2 DEF Life!Next, Life!Reject, MarkFailed
  <2> QED
    BY <2>d, <2>1, <2>3, <2>4
<1>14. ASSUME NEW p \in Procs, Abort(p) PROVE [Life!Next]_(Life!lifeVars)
  BY <1>14, GivesUp DEF Abort
<1>15. ASSUME NEW d \in Docs, Redeliver(d) PROVE [Life!Next]_(Life!lifeVars)
  BY <1>15 DEF Redeliver, TypeOK
<1>16. CASE UNCHANGED vars
  <2>1. \A e \in Docs : Uploading(e)' <=> Uploading(e)
    BY <1>16 DEF Uploading, vars
  <2> QED
    BY <1>16, <2>1, Unseen DEF vars, rowVars
<1> QED
  BY <1>1, <1>2, <1>3, <1>4, <1>5, <1>6, <1>7, <1>8, <1>9, <1>10, <1>11, <1>12,
     <1>13, <1>14, <1>15, <1>16 DEF Next, UploadStep, DeleteStep, ProcessStep

\* Each document id is accepted, settled and removed at most once, its chunks
\* become searchable in the step that makes it READY and go in the step that
\* removes it: upload_document, process_document and delete_document together
\* implement DocumentLife when the broker delivers each message once.
THEOREM ImplementsDocumentLife ==
    ASSUME MaxRedeliveries = 0
    PROVE  Spec => KeepsLife
<1>1. Init => Life!Init
  BY DEF Init, Life!Init, lifeOf
<1> QED
  BY <1>1, TypeCorrect, IdsAreFresh, ChunksOnlyWhenReady, LifeStep, PTL
     DEF Spec, KeepsLife, Life!Spec
==============================================================================
