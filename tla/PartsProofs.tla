---------------------------- MODULE PartsProofs ----------------------------
(***************************************************************************)
(* Theorems about the smaller parts that keep something true over many     *)
(* steps: the audit chain, the rebuild of an index, the rate limit, the    *)
(* dashboard, and the prompt of an AI job with its answer.                 *)
(***************************************************************************)
EXTENDS AuditChain, Reindex, RateLimit, Dashboard, AiContent, FiniteSetTheorems,
        WellFoundedInduction, TLAPS

-----------------------------------------------------------------------------
(* The audit chain, for any number of writers and entries. *)

USE EntriesAssumption DEF Entries, GENESIS, PassedOver

\* No two calls log the same entry.
TypeInv ==
    /\ TypeOK
    /\ \A g, h \in Handlers :
         req[g].pc # "idle" /\ req[h].pc # "idle" /\ g # h => req[g].entry # req[h].entry

\* Every step notes whether requests overlap.
LEMMA Observed == Next => Observe
BY DEF Next, Log

LEMMA IdleType == Idle \in Requests /\ Idle.pc = "idle"
BY DEF Idle, Requests

LEMMA StampedType ==
    ASSUME NEW q \in Requests, NEW e \in 0..MaxEntries
    PROVE  [q EXCEPT !.pc = "stamped", !.entry = e] \in Requests
BY DEF Requests

LEMMA TypeStep == TypeInv /\ [Next]_vars => TypeInv'
<1> SUFFICES ASSUME TypeInv, [Next]_vars PROVE TypeInv'
  OBVIOUS
<1>o. overlapped' \in BOOLEAN
  BY Observed DEF Observe, TypeInv, TypeOK, Next, vars
<1> DEFINE Log0 == /\ clock \in 0..MaxEntries
                   /\ signed \in SUBSET Entries /\ unsigned \in SUBSET Entries
                   /\ prev \in [Entries -> 0..MaxEntries]
                   /\ altered \in SUBSET Entries /\ removed \in SUBSET Entries
                   /\ removed \cap (signed \cup altered) = {}
                   /\ unsigned \cap (signed \cup altered \cup removed) = {}
                   /\ \A e \in signed \cup unsigned \cup PassedOver : e <= clock
           Open(h) == req[h].pc # "idle" =>
                        /\ req[h].entry \in 1..clock
                        /\ req[h].entry \notin signed \cup unsigned \cup PassedOver
                        /\ req[h].prev \in signed \cup PassedOver \cup {GENESIS}
                        /\ \A g \in Handlers \ {h} :
                             req[g].pc # "idle" => req[g].entry # req[h].entry
<1>t. Log0 /\ req \in [Handlers -> Requests] /\ \A h \in Handlers : Open(h)
  BY DEF TypeInv, TypeOK
<1>q. \A h \in Handlers : req[h] \in Requests /\ req[h].entry \in Nat
  BY <1>t DEF Requests
<1>u. ASSUME Log0', req' \in [Handlers -> Requests], \A h \in Handlers : Open(h)' PROVE TypeInv'
  BY <1>o, <1>u DEF TypeInv, TypeOK
<1> USE IdleType DEF At
<1>1. ASSUME NEW h \in Handlers, Stamp(h) PROVE TypeInv'
  <2>1. clock + 1 \in Entries
    BY <1>t, <1>1 DEF Stamp
  <2>2. [Idle EXCEPT !.pc = "stamped", !.entry = clock + 1] \in Requests
    <3>1. clock + 1 \in 0..MaxEntries
      BY <2>1
    <3> QED
      BY ONLY <3>1, IdleType, StampedType, Zenon
  <2> QED
    BY <1>t, <1>u, <1>1, <2>1, <2>2 DEF Stamp, Idle
<1>2. ASSUME NEW h \in Handlers, ReadLatest(h) PROVE TypeInv'
  <2>1. PICK e \in 0..MaxEntries :
          /\ IsLatest(e, signed)
          /\ req' = [req EXCEPT ![h] = [req[h] EXCEPT !.pc = "chained", !.prev = e]]
    BY <1>2 DEF ReadLatest
  <2>2. [req[h] EXCEPT !.pc = "chained", !.prev = e] \in Requests
    BY <1>q DEF Requests
  <2>3. e \in signed \cup {0}
    BY <2>1 DEF IsLatest
  <2>4. /\ req'[h].entry = req[h].entry /\ req'[h].prev = e
        /\ \A g \in Handlers \ {h} : req'[g] = req[g]
    BY <1>t, <1>q, <2>1 DEF Requests
  <2>5. UNCHANGED <<clock, signed, unsigned, prev, altered, removed>> /\ req[h].pc = "stamped"
    BY <1>2 DEF ReadLatest
  <2>6. req' \in [Handlers -> Requests] /\ Log0'
    BY <1>t, <2>1, <2>2, <2>5
  <2>7. ASSUME NEW g \in Handlers PROVE Open(g)'
    <3>1. CASE g = h
      <4>1. Open(h)
        BY <1>t
      <4> QED
        BY <2>3, <2>4, <2>5, <3>1, <4>1
    <3>2. CASE g # h
      <4>1. Open(g) /\ req'[g] = req[g]
        BY <1>t, <2>4, <3>2
      <4>2. \A i \in Handlers : req'[i].entry = req[i].entry
        BY <2>4
      <4>3. \A i \in Handlers \ {g} : req'[i].pc # "idle" => req[i].pc # "idle"
        BY <2>4, <2>5
      <4> QED
        BY <2>5, <4>1, <4>2, <4>3
    <3> QED
      BY <3>1, <3>2
  <2> QED
    BY <1>u, <2>6, <2>7
<1>3. ASSUME NEW h \in Handlers, Commit(h) PROVE TypeInv'
  <2>1. req[h].entry \in Entries /\ req[h].prev \in 0..MaxEntries /\ Open(h) /\ At(h, "chained")
    BY <1>t, <1>q, <1>3 DEF Commit, Requests
  <2>2. Log0' /\ req' \in [Handlers -> Requests]
    <3>1. req' \in [Handlers -> Requests]
      BY <1>t, <1>3 DEF Commit
    <3>2. prev' \in [Entries -> 0..MaxEntries]
      BY <1>t, <1>3, <2>1 DEF Commit
    <3>3. /\ signed' = signed \cup {req[h].entry}
          /\ UNCHANGED <<clock, unsigned, altered, removed>>
      BY <1>3 DEF Commit
    <3>4. /\ req[h].entry \in 1..clock
          /\ req[h].entry \notin signed \cup unsigned \cup PassedOver
      BY <2>1
    <3>5. signed' \in SUBSET Entries /\ altered' \in SUBSET Entries /\ PassedOver' = PassedOver
      BY <1>t, <2>1, <3>3, <3>4
    <3>6. \A e \in signed' \cup unsigned' \cup PassedOver' : e <= clock'
      BY <1>t, <3>3, <3>4, <3>5
    <3>7. /\ clock' \in 0..MaxEntries /\ unsigned' \in SUBSET Entries
          /\ removed' \in SUBSET Entries
      BY <1>t, <3>3
    <3>8. /\ removed' \cap (signed' \cup altered') = {}
          /\ unsigned' \cap (signed' \cup altered' \cup removed') = {}
      BY <1>t, <3>3, <3>4
    <3> QED
      BY <3>1, <3>2, <3>5, <3>6, <3>7, <3>8
  <2>3. req'[h] = Idle /\ \A g \in Handlers \ {h} : req'[g] = req[g]
    BY <1>t, <1>3 DEF Commit
  <2>4. ASSUME NEW g \in Handlers PROVE Open(g)'
    BY <1>t, <1>3, <2>1, <2>3 DEF Commit
  <2> QED
    BY <1>u, <2>2, <2>4
<1>4. ASSUME NEW h \in Handlers, CommitUnsigned(h) PROVE TypeInv'
  <2>1. req[h].entry \in Entries /\ Open(h) /\ At(h, "stamped")
    BY <1>t, <1>q, <1>4 DEF CommitUnsigned, Requests
  <2>2. Log0' /\ req' \in [Handlers -> Requests]
    <3>1. req' \in [Handlers -> Requests]
      BY <1>t, <1>4 DEF CommitUnsigned
    <3>2. /\ unsigned' = unsigned \cup {req[h].entry}
          /\ UNCHANGED <<clock, signed, prev, altered, removed>>
      BY <1>4 DEF CommitUnsigned
    <3>3. /\ req[h].entry \in 1..clock
          /\ req[h].entry \notin signed \cup unsigned \cup PassedOver
      BY <2>1
    <3>4. /\ clock' \in 0..MaxEntries /\ signed' \in SUBSET Entries
          /\ prev' \in [Entries -> 0..MaxEntries]
          /\ altered' \in SUBSET Entries /\ removed' \in SUBSET Entries
      BY <1>t, <3>2
    <3>5. unsigned' \in SUBSET Entries
      BY <1>t, <2>1, <3>2
    <3>6. /\ removed' \cap (signed' \cup altered') = {}
          /\ unsigned' \cap (signed' \cup altered' \cup removed') = {}
      BY <1>t, <3>2, <3>3
    <3>7. \A e \in signed' \cup unsigned' \cup PassedOver' : e <= clock'
      BY <1>t, <3>2, <3>3
    <3> QED
      BY <3>1, <3>4, <3>5, <3>6, <3>7
  <2>3. req'[h] = Idle /\ \A g \in Handlers \ {h} : req'[g] = req[g]
    BY <1>t, <1>4 DEF CommitUnsigned
  <2>4. ASSUME NEW g \in Handlers PROVE Open(g)'
    BY <1>t, <1>4, <2>1, <2>3 DEF CommitUnsigned
  <2> QED
    BY <1>u, <2>2, <2>4
<1>5. ASSUME NEW h \in Handlers, Abort(h) PROVE TypeInv'
  BY <1>t, <1>u, <1>5 DEF Abort
<1>6. ASSUME NEW e \in Entries, Alter(e) PROVE TypeInv'
  BY <1>t, <1>u, <1>6 DEF Alter
<1>7. ASSUME NEW e \in Entries, Remove(e) PROVE TypeInv'
  BY <1>t, <1>u, <1>7 DEF Remove
<1>8. ASSUME NEW e \in Entries, Clear(e) PROVE TypeInv'
  BY <1>t, <1>u, <1>8, SMTT(20) DEF Clear
<1>9. CASE UNCHANGED vars
  BY <1>t, <1>u, <1>9 DEF vars, logVars
<1> QED
  BY <1>1, <1>2, <1>3, <1>4, <1>5, <1>6, <1>7, <1>8, <1>9 DEF Next, Log

\* Types hold, and no two calls log the same entry.
THEOREM TypeInvariant == Spec => []TypeInv
<1>1. Init => TypeInv
  <2> SUFFICES ASSUME Init PROVE TypeInv
    OBVIOUS
  <2>1. overlapped \in BOOLEAN
    BY DEF Init
  <2>2. /\ req \in [Handlers -> Requests] /\ \A h \in Handlers : req[h].pc = "idle"
        /\ clock = 0 /\ signed = {} /\ unsigned = {} /\ altered = {} /\ removed = {}
        /\ prev \in [Entries -> 0..MaxEntries]
    BY IdleType DEF Init
  <2> QED
    BY <2>1, <2>2 DEF TypeInv, TypeOK
<1> QED
  BY <1>1, TypeStep, PTL DEF Spec

\* Entries have one fate each, and each chains to an entry that was committed.
THEOREM TypeCorrect == Spec => []TypeOK
<1>1. TypeInv => TypeOK
  BY DEF TypeInv
<1> QED
  BY <1>1, TypeInvariant, PTL

\* Nobody changes an entry that keeps a signature, or deletes the one it was chained
\* to or sets its signature to NULL, without a break at that entry, however entries
\* were logged and whatever else has been changed.
THEOREM TamperingShows == Spec => []DamageShows
<1>1. TypeInv => DamageShows
  <2> SUFFICES ASSUME TypeInv, NEW e \in signed, prev[e] \in PassedOver PROVE Breaks(e)
    BY DEF DamageShows, Damage, Broken, Breaks, TypeInv, TypeOK
  <2>1. prev[e] \notin signed /\ prev[e] # GENESIS
    BY DEF TypeInv, TypeOK
  <2> QED
    BY <2>1 DEF Breaks, IsLatest
<1> QED
  BY <1>1, TypeInvariant, PTL

------------------------------------------------------------------------------
(***************************************************************************)
(* Entries that are logged one at a time.                                  *)
(***************************************************************************)

\* Between an entry and the one it was chained to there is none, and there comes
\* none; and nothing was logged since the one open call has asked for the latest.
SerialInv ==
    /\ Serial
    /\ \A e \in signed :
         /\ prev[e] < e /\ prev[e] \in signed \cup PassedOver \cup {GENESIS}
         /\ \A f \in signed : f < e => f <= prev[e]
    /\ \A h \in Handlers :
         /\ ~At(h, "idle") => \A f \in signed \cup PassedOver : f < req[h].entry
         /\ At(h, "chained") => \A f \in signed : f <= req[h].prev

LEMMA SerialStep ==
    ASSUME TypeInv, ~overlapped => SerialInv, [Next]_vars, ~overlapped'
    PROVE  SerialInv'
<1>i. SerialInv
  BY Observed DEF Observe, TypeInv, TypeOK, Next, vars
<1>s. Serial'
  <2>1. CASE Next
    BY <2>1, Observed DEF Observe
  <2>2. CASE UNCHANGED vars
    BY <1>i, <2>2 DEF SerialInv, Serial, At, vars, logVars
  <2> QED
    BY <2>1, <2>2
<1>t. /\ clock \in Nat /\ signed \in SUBSET Entries /\ removed \in SUBSET Entries
      /\ prev \in [Entries -> 0..MaxEntries] /\ req \in [Handlers -> Requests]
      /\ altered \in SUBSET Entries
      /\ removed \cap signed = {} /\ \A e \in signed \cup PassedOver : e <= clock
      /\ \A h \in Handlers : req[h].pc # "idle" =>
           /\ req[h].entry \in Entries
           /\ req[h].entry \notin signed \cup PassedOver
           /\ req[h].prev \in signed \cup PassedOver \cup {GENESIS}
  BY DEF TypeInv, TypeOK
<1>q. \A h \in Handlers : req[h] \in Requests
  BY <1>t
<1> USE <1>i, <1>s, <1>t DEF SerialInv, At
<1>1. ASSUME NEW h \in Handlers, Stamp(h) PROVE SerialInv'
  BY <1>1 DEF Stamp, Idle
<1>2. ASSUME NEW h \in Handlers, ReadLatest(h) PROVE SerialInv'
  <2>1. PICK e \in 0..MaxEntries :
          /\ IsLatest(e, signed)
          /\ req' = [req EXCEPT ![h] = [req[h] EXCEPT !.pc = "chained", !.prev = e]]
    BY <1>2 DEF ReadLatest
  <2>2. \A f \in signed : f <= e
    BY <2>1 DEF IsLatest
  <2>3. /\ [req[h] EXCEPT !.pc = "chained", !.prev = e].entry = req[h].entry
        /\ [req[h] EXCEPT !.pc = "chained", !.prev = e].prev = e
    BY <1>q DEF Requests
  <2> QED
    BY <1>2, <2>1, <2>2, <2>3, ZenonT(30) DEF ReadLatest
<1>3. ASSUME NEW h \in Handlers, Commit(h) PROVE SerialInv'
  <2>1. /\ req[h].entry \in Entries /\ req[h].prev \in signed \cup PassedOver \cup {GENESIS}
        /\ \A f \in signed \cup PassedOver : f < req[h].entry
        /\ \A f \in signed : f <= req[h].prev
    BY <1>3 DEF Commit
  <2>2. \A g \in Handlers : req'[g].pc = "idle"
    BY <1>3, IdleType DEF Commit, Serial
  <2>3. req[h].prev < req[h].entry
    <3>1. CASE req[h].prev = GENESIS
      BY <2>1, <3>1
    <3>2. CASE req[h].prev \in signed \cup PassedOver
      BY <2>1, <3>2
    <3> QED
      BY <2>1, <3>1, <3>2
  <2>4. /\ signed' = signed \cup {req[h].entry} /\ PassedOver' = PassedOver
        /\ prev' = [prev EXCEPT ![req[h].entry] = req[h].prev]
    BY <1>3 DEF Commit
  <2> QED
    BY <2>1, <2>2, <2>3, <2>4
<1>4. ASSUME NEW h \in Handlers, CommitUnsigned(h) PROVE SerialInv'
  BY <1>4, IdleType DEF CommitUnsigned
<1>5. ASSUME NEW h \in Handlers, Abort(h) PROVE SerialInv'
  BY <1>5, IdleType DEF Abort
<1>6. ASSUME NEW e \in Entries, Alter(e) PROVE SerialInv'
  BY <1>6 DEF Alter
<1>7. ASSUME NEW e \in Entries, Remove(e) PROVE SerialInv'
  BY <1>7 DEF Remove
<1>8. ASSUME NEW e \in Entries, Clear(e) PROVE SerialInv'
  BY <1>8 DEF Clear
<1>9. CASE UNCHANGED vars
  BY <1>9 DEF vars, logVars
<1> QED
  BY <1>1, <1>2, <1>3, <1>4, <1>5, <1>6, <1>7, <1>8, <1>9 DEF Next, Log

\* As long as no two entries were logged at the same time, verify_chain breaks
\* where there is damage and nowhere else.
THEOREM BreaksAreDamage == Spec => []SerialBreaksAreDamage
<1>1. Init => SerialInv
  BY IdleType DEF Init, SerialInv, Serial, At
<1>2. TypeInv /\ (~overlapped => SerialInv) /\ [Next]_vars => (~overlapped => SerialInv)'
  BY SerialStep
<1>3. TypeInv /\ (~overlapped => SerialInv) => SerialBreaksAreDamage
  <2> SUFFICES ASSUME TypeInv, SerialInv, NEW e \in signed
               PROVE  Breaks(e) <=> e \in altered \/ prev[e] \in PassedOver
    BY DEF SerialBreaksAreDamage, Broken, Damage, Breaks, TypeInv, TypeOK
  <2>1. CASE prev[e] \in signed
    BY <2>1 DEF TypeInv, TypeOK, SerialInv, Breaks, IsLatest
  <2>2. CASE prev[e] \in PassedOver
    BY <2>2 DEF TypeInv, TypeOK, SerialInv, Breaks, IsLatest
  <2>3. CASE prev[e] = GENESIS
    <3>1. signed \subseteq Nat /\ signed \cap {0} = {} /\ PassedOver \cap {0} = {}
      BY DEF TypeInv, TypeOK
    <3>2. \A f \in signed : f < e => f <= 0
      BY <2>3 DEF SerialInv
    <3>3. ~\E f \in signed : f < e
      BY <3>1, <3>2
    <3> QED
      BY <2>3, <3>1, <3>3 DEF Breaks, IsLatest
  <2> QED
    BY <2>1, <2>2, <2>3 DEF SerialInv
<1> QED
  BY <1>1, <1>2, <1>3, TypeInvariant, PTL DEF Spec

HIDE EntriesAssumption DEF Entries, GENESIS, PassedOver

-----------------------------------------------------------------------------
(* Reindexing: the pages of a rebuild, for any number of chunks and pages. *)

\* The order of the natural numbers is well founded.
LEMMA NatOrder == IsWellFoundedOn({ss \in Nat \X Nat : ss[1] < ss[2]}, Nat)
BY NatLessThanWellFounded DEF OpToRel

\* Of what is numbered, one has the least number.
LEMMA LeastOf ==
    ASSUME NEW S, S # {}, NEW f \in [S -> Nat]
    PROVE  \E m \in S : \A x \in S : f[m] <= f[x]
<1> DEFINE R == {ss \in Nat \X Nat : ss[1] < ss[2]}
           T == {f[x] : x \in S}
<1>1. IsWellFoundedOn(R, Nat) /\ T \subseteq Nat /\ T # {}
  BY NatOrder
<1>2. PICK n \in T : \A y \in T : ~ (<<y, n>> \in R)
  <2> HIDE DEF R, T
  <2> QED
    BY <1>1, WFMin
<1>3. n \in Nat /\ \A x \in S : ~(f[x] < n)
  BY <1>1, <1>2
<1>4. PICK m \in S : f[m] = n
  BY <1>2
<1> QED
  BY <1>3, <1>4

\* The position of c in S, and the first n members of S.
Place(S, c) == Cardinality({b \in S : b < c})
FirstOf(S, n) == {c \in S : Place(S, c) < n}

LEMMA PlaceType ==
    ASSUME NEW S \in SUBSET Int, IsFiniteSet(S), NEW c \in S
    PROVE  Place(S, c) \in Nat /\ Place(S, c) < Cardinality(S)
<1> DEFINE P == {b \in S : b < c}
<1>1. IsFiniteSet(P) /\ Cardinality(P) \in Nat
  BY FS_Subset, FS_CardinalityType
<1>2. Cardinality(P \cup {c}) = Cardinality(P) + 1
  <2>1. c \notin P
    OBVIOUS
  <2> HIDE DEF P
  <2> QED
    BY <1>1, <2>1, FS_AddElement
<1>3. Cardinality(P \cup {c}) <= Cardinality(S) /\ Cardinality(S) \in Nat
  <2>1. P \cup {c} \in SUBSET S
    OBVIOUS
  <2> HIDE DEF P
  <2> QED
    BY <2>1, FS_Subset, FS_CardinalityType
<1> QED
  BY <1>1, <1>2, <1>3 DEF Place

LEMMA PlaceOrder ==
    ASSUME NEW S \in SUBSET Int, IsFiniteSet(S), NEW b \in S, NEW c \in S, b < c
    PROVE  Place(S, b) < Place(S, c)
<1> DEFINE P == {x \in S : x < b}
           Q == {x \in S : x < c}
<1>i. \A x \in S : x \in Int
  OBVIOUS
<1>1. P \cup {b} \in SUBSET Q /\ b \notin P /\ P \in SUBSET S /\ Q \in SUBSET S
  <2>1. \A x \in S : x < b => x < c
    BY <1>i
  <2>2. ~(b < b)
    BY <1>i
  <2> QED
    BY <2>1, <2>2
<1> HIDE DEF P, Q
<1>2. /\ IsFiniteSet(P) /\ Cardinality(P) \in Nat /\ IsFiniteSet(Q) /\ Cardinality(Q) \in Nat
  BY <1>1, FS_Subset, FS_CardinalityType
<1>3. Cardinality(P \cup {b}) = Cardinality(P) + 1 /\ Cardinality(P \cup {b}) <= Cardinality(Q)
  BY <1>1, <1>2, FS_AddElement, FS_Subset
<1> QED
  BY <1>2, <1>3 DEF Place, P, Q

LEMMA PlaceUnique ==
    ASSUME NEW S \in SUBSET Int, IsFiniteSet(S), NEW b \in S, NEW c \in S,
           Place(S, b) = Place(S, c)
    PROVE  b = c
<1>1. Place(S, b) \in Nat /\ ~(Place(S, b) < Place(S, c)) /\ ~(Place(S, c) < Place(S, b))
  BY PlaceType
<1>2. ~(b < c) /\ ~(c < b)
  BY <1>1, PlaceOrder
<1> QED
  BY <1>2

\* At most n members are the first n ...
LEMMA FirstAtMost ==
    ASSUME NEW S \in SUBSET Int, IsFiniteSet(S), NEW n \in Nat
    PROVE  IsFiniteSet(FirstOf(S, n)) /\ Cardinality(FirstOf(S, n)) <= n
           /\ Cardinality(FirstOf(S, n)) \in Nat
<1> DEFINE F == FirstOf(S, n)
           f == [c \in F |-> Place(S, c)]
<1>1. F \in SUBSET S
  BY DEF FirstOf
<1>2. \A c \in F : Place(S, c) \in 0..(n-1)
  BY PlaceType DEF FirstOf
<1>3. f \in Injection(F, 0..(n-1))
  <2>1. f \in [F -> 0..(n-1)]
    BY <1>2
  <2>2. \A b, c \in F : f[b] = f[c] => b = c
    BY <1>1, PlaceUnique
  <2> QED
    BY <2>1, <2>2 DEF Injection, IsInjective
<1>4. IsFiniteSet(0..(n-1)) /\ Cardinality(0..(n-1)) = n
  BY FS_Interval
<1> HIDE DEF F, f
<1>5. IsFiniteSet(F) /\ Cardinality(F) \in Nat
  BY <1>1, FS_Subset, FS_CardinalityType
<1>6. Cardinality(F) <= n
  BY <1>3, <1>4, FS_Injection
<1> QED
  BY <1>5, <1>6 DEF F

\* ... and where there are more, exactly n, and one is the next.
LEMMA NextOne ==
    ASSUME NEW S \in SUBSET Int, IsFiniteSet(S), NEW n \in Nat, FirstOf(S, n) # S
    PROVE  Cardinality(FirstOf(S, n)) = n /\ \E m \in S : Place(S, m) = n
<1> DEFINE B == S \ FirstOf(S, n)
           f == [c \in B |-> Place(S, c)]
<1>1. B # {} /\ B \in SUBSET S
  BY DEF FirstOf
<1>2. f \in [B -> Nat]
  BY PlaceType
<1>3. PICK m \in B : \A x \in B : f[m] <= f[x]
  <2> HIDE DEF B, f
  <2> QED
    BY <1>1, <1>2, LeastOf
<1>4. \A x \in B : Place(S, m) <= Place(S, x)
  BY <1>3
<1>5. m \in S /\ Place(S, m) \in Nat /\ Place(S, m) >= n
  BY PlaceType DEF FirstOf
<1>6. ASSUME NEW b \in S PROVE b < m <=> b \in FirstOf(S, n)
  <2>1. b < m => b \in FirstOf(S, n)
    <3> SUFFICES ASSUME b < m, b \in B PROVE FALSE
      OBVIOUS
    <3>1. Place(S, b) < Place(S, m)
      BY <1>5, PlaceOrder
    <3> QED
      BY <1>4, <1>5, <3>1, PlaceType
  <2>2. ASSUME b \in FirstOf(S, n), ~(b < m) PROVE FALSE
    <3>1. Place(S, b) < n /\ Place(S, b) \in Nat
      BY <2>2, PlaceType DEF FirstOf
    <3>2. b # m /\ m < b
      BY <1>5, <2>2, <3>1
    <3>3. Place(S, m) < Place(S, b)
      BY <1>5, <3>2, PlaceOrder
    <3> QED
      BY <1>5, <3>1, <3>3
  <2> QED
    BY <2>1, <2>2
<1>7. {b \in S : b < m} = FirstOf(S, n)
  BY <1>6 DEF FirstOf
<1>8. Cardinality(FirstOf(S, n)) = Place(S, m)
  BY <1>7 DEF Place
<1>9. Cardinality(FirstOf(S, n)) <= n
  BY FirstAtMost
<1> QED
  BY <1>5, <1>8, <1>9

\* A member that comes moves no other forward, one that goes none by more than a place.
LEMMA PlaceKept ==
    ASSUME NEW S \in SUBSET Int, IsFiniteSet(S), NEW T \in SUBSET Int, IsFiniteSet(T), NEW x,
           S \subseteq T \cup {x}, NEW c \in Int
    PROVE  /\ Place(S, c) - 1 <= Place(T, c)
           /\ S \subseteq T => Place(S, c) <= Place(T, c)
<1> DEFINE P == {b \in S : b < c}
           Q == {b \in T : b < c}
<1>1. P \in SUBSET S /\ Q \in SUBSET T /\ P \ {x} \in SUBSET Q /\ (S \subseteq T => P \in SUBSET Q)
  OBVIOUS
<1> HIDE DEF P, Q
<1>2. IsFiniteSet(P) /\ IsFiniteSet(Q) /\ Cardinality(P) \in Nat /\ Cardinality(Q) \in Nat
  BY <1>1, FS_Subset, FS_CardinalityType
<1>3. Cardinality(P \ {x}) <= Cardinality(Q) /\ (P \in SUBSET Q => Cardinality(P) <= Cardinality(Q))
  BY <1>1, <1>2, FS_Subset
<1>4. Cardinality(P) - 1 <= Cardinality(P \ {x}) /\ Cardinality(P \ {x}) \in Nat
  <2>1. /\ IsFiniteSet(P \ {x})
        /\ Cardinality(P \ {x}) = IF x \in P THEN Cardinality(P) - 1 ELSE Cardinality(P)
    BY <1>2, FS_RemoveElement
  <2>2. Cardinality(P \ {x}) \in Nat
    BY <2>1, FS_CardinalityType
  <2> QED
    BY <1>2, <2>1, <2>2
<1>5. Place(S, c) = Cardinality(P) /\ Place(T, c) = Cardinality(Q)
  BY DEF Place, P, Q
<1>6. S \subseteq T => P \in SUBSET Q
  BY <1>1
<1> QED
  BY <1>2, <1>3, <1>4, <1>5, <1>6

LEMMA OneMore ==
    ASSUME NEW S, NEW x, IsFiniteSet(S)
    PROVE  /\ IsFiniteSet(S \cup {x}) /\ Cardinality(S) \in Nat
           /\ Cardinality(S \cup {x}) <= Cardinality(S) + 1
<1>1. Cardinality(S) \in Nat
  BY FS_CardinalityType
<1>2. /\ IsFiniteSet(S \cup {x})
      /\ Cardinality(S \cup {x}) = IF x \in S THEN Cardinality(S) ELSE Cardinality(S) + 1
  BY FS_AddElement
<1> QED
  BY <1>1, <1>2

ReindexTypeOK ==
    /\ vector \in [Rows -> {0, OldDim, NewDim}] /\ dim \in {0, NewDim}
    /\ step \in {"idle", "looping", "embedding", "done", "failed"}
    /\ total \in Nat /\ offset \in Nat /\ updated \in Nat /\ batch \subseteq Rows
    /\ moves \in Nat

\* Chunks among the first n, but for these, that the rebuild has not reached.
Missed(skip, n) == {c \in Outdated \ skip : Place(Chunks, c) < n}

\* Each chunk that came or went explains one that was missed, or a row more than were counted.
FewMissed(skip, n) ==
    /\ Cardinality(Missed(skip, n)) <= moves
    /\ Cardinality(Missed(skip, n)) + Cardinality(Chunks) - total <= moves

PagesInv ==
    /\ step = "looping" => FewMissed({}, offset)
    /\ step = "embedding" => FewMissed(batch, offset + BatchSize)
    /\ step = "done" => Cardinality(Outdated) <= moves

\* Where nothing moves the pages are the chunks one after the other.
ExactInv ==
    moves = 0 =>
        /\ step \in {"looping", "embedding", "done"} => total = Cardinality(Chunks)
        /\ step \in {"looping", "embedding"} => updated = Cardinality(FirstOf(Chunks, offset))
        /\ step = "embedding" => batch = Page(offset)
        /\ step = "done" => updated = total

ReindexInv == ReindexTypeOK /\ PagesInv /\ ExactInv

LEMMA ChunksFinite ==
    /\ Chunks \in SUBSET Int /\ IsFiniteSet(Chunks) /\ Cardinality(Chunks) \in Nat
    /\ \A S \in SUBSET Chunks : IsFiniteSet(S) /\ Cardinality(S) \in Nat
                             /\ Cardinality(S) <= Cardinality(Chunks)
<1>1. Chunks \in SUBSET Rows /\ Rows \in SUBSET Int /\ IsFiniteSet(Rows)
  BY ReindexAssumption DEF Chunks
<1>2. IsFiniteSet(Chunks)
  BY <1>1, FS_Subset
<1> QED
  BY <1>1, <1>2, FS_Subset, FS_CardinalityType

LEMMA ChunksFiniteNext ==
    Chunks' \in SUBSET Int /\ IsFiniteSet(Chunks') /\ Cardinality(Chunks') \in Nat
<1>1. Chunks' \in SUBSET Rows /\ Rows \in SUBSET Int /\ IsFiniteSet(Rows)
  BY ReindexAssumption DEF Chunks
<1>2. IsFiniteSet(Chunks')
  BY <1>1, FS_Subset
<1> QED
  BY <1>1, <1>2, FS_CardinalityType

LEMMA OutdatedFinite ==
    /\ Outdated \subseteq Chunks /\ IsFiniteSet(Outdated) /\ Cardinality(Outdated) \in Nat
    /\ \A skip, n : /\ Missed(skip, n) \subseteq Outdated /\ IsFiniteSet(Missed(skip, n))
                    /\ Cardinality(Missed(skip, n)) \in Nat
<1>1. Outdated \in SUBSET Chunks /\ \A skip, n : Missed(skip, n) \in SUBSET Chunks
  BY DEF Outdated, Missed
<1>2. \A skip, n : Missed(skip, n) \subseteq Outdated
  BY DEF Missed
<1> QED
  BY <1>1, <1>2, ChunksFinite

LEMMA OutdatedFiniteNext ==
    /\ IsFiniteSet(Outdated') /\ Cardinality(Outdated') \in Nat
    /\ \A skip, n : Cardinality(Missed(skip, n)') \in Nat
<1>1. Outdated' \in SUBSET Chunks' /\ \A skip, n : Missed(skip, n)' \in SUBSET Chunks'
  BY DEF Outdated, Missed
<1> QED
  BY <1>1, ChunksFiniteNext, FS_Subset, FS_CardinalityType

\* The pages follow each other.
LEMMA PageFollows ==
    ASSUME NEW n \in Nat
    PROVE  /\ Page(n) \subseteq Chunks
           /\ Cardinality(FirstOf(Chunks, n + BatchSize))
                = Cardinality(FirstOf(Chunks, n)) + Cardinality(Page(n))
           /\ FirstOf(Chunks, n + BatchSize) = FirstOf(Chunks, n) \cup Page(n)
<1>1. Page(n) = {c \in Chunks : n <= Place(Chunks, c) /\ Place(Chunks, c) < n + BatchSize}
  BY DEF Page, Place
<1>2. \A c \in Chunks : Place(Chunks, c) \in Nat
  BY ChunksFinite, PlaceType
<1>3. BatchSize \in Nat \ {0}
  BY ReindexAssumption
<1>4. /\ FirstOf(Chunks, n + BatchSize) = FirstOf(Chunks, n) \cup Page(n)
      /\ FirstOf(Chunks, n) \cap Page(n) = {}
  BY <1>1, <1>2, <1>3 DEF FirstOf
<1>5. /\ IsFiniteSet(FirstOf(Chunks, n)) /\ IsFiniteSet(Page(n))
      /\ Cardinality(FirstOf(Chunks, n)) \in Nat /\ Cardinality(Page(n)) \in Nat
  <2>1. FirstOf(Chunks, n) \in SUBSET Chunks /\ Page(n) \in SUBSET Chunks
    BY <1>1 DEF FirstOf
  <2> QED
    BY <2>1, ChunksFinite
<1>6. Cardinality(FirstOf(Chunks, n) \cup Page(n))
        = Cardinality(FirstOf(Chunks, n)) + Cardinality(Page(n)) - Cardinality({})
  BY <1>4, <1>5, FS_Union
<1> QED
  BY <1>1, <1>4, <1>5, <1>6, FS_EmptySet

\* A chunk comes.
LEMMA MissedInsert ==
    ASSUME ReindexTypeOK, NEW c \in Rows, NEW d \in {OldDim, NewDim}, vector[c] = 0,
           vector' = [vector EXCEPT ![c] = d]
    PROVE  LET more == IF d = OldDim THEN 1 ELSE 0 IN
           /\ Cardinality(Chunks') = Cardinality(Chunks) + 1
           /\ Cardinality(Outdated') <= Cardinality(Outdated) + more
           /\ \A skip, n : n \in Nat =>
                Cardinality(Missed(skip, n)') <= Cardinality(Missed(skip, n)) + more
<1> DEFINE extra == IF d = OldDim THEN {c} ELSE {}
           more == IF d = OldDim THEN 1 ELSE 0
<1>1. /\ Chunks' = Chunks \cup {c} /\ c \notin Chunks /\ c \in Int
      /\ \A b \in Chunks : vector'[b] = vector[b]
      /\ Outdated' \subseteq Outdated \cup extra
  BY ReindexAssumption DEF Chunks, ReindexTypeOK, Outdated
<1>2. ASSUME NEW S, NEW T, IsFiniteSet(S), T \subseteq S \cup extra
      PROVE  Cardinality(T) <= Cardinality(S) + more
    <2>1. IsFiniteSet(S \cup {c}) /\ Cardinality(S \cup {c}) <= Cardinality(S) + 1
          /\ Cardinality(S) \in Nat
      BY <1>2, OneMore
    <2>2. CASE d = OldDim
      BY <1>2, <2>1, <2>2, FS_Subset, FS_CardinalityType
    <2>3. CASE d # OldDim
      BY <1>2, <2>1, <2>3, FS_Subset, FS_CardinalityType
    <2> QED
      BY <2>2, <2>3
<1>3. \A skip, n : n \in Nat => Missed(skip, n)' \subseteq Missed(skip, n) \cup extra
  <2> SUFFICES ASSUME NEW skip, NEW n \in Nat, NEW b \in Missed(skip, n)', b \notin extra
      PROVE  b \in Missed(skip, n)
    OBVIOUS
  <2>1. b \in Outdated' /\ b \notin skip /\ Place(Chunks', b) < n
    BY DEF Missed
  <2>2. b \in Outdated /\ b \in Chunks /\ b \in Int /\ b \in Chunks'
    BY <1>1, <2>1, ChunksFinite, OutdatedFinite
  <2>3. Place(Chunks, b) <= Place(Chunks', b)
    BY <1>1, <2>2, ChunksFinite, ChunksFiniteNext, PlaceKept
  <2>4. Place(Chunks, b) \in Nat /\ Place(Chunks', b) \in Nat
    BY <2>2, ChunksFinite, ChunksFiniteNext, PlaceType
  <2> QED
    BY <2>1, <2>2, <2>3, <2>4 DEF Missed
<1>4. Cardinality(Chunks') = Cardinality(Chunks) + 1
  BY <1>1, ChunksFinite, FS_AddElement
<1> HIDE DEF extra, more
<1>5. /\ Cardinality(Outdated') <= Cardinality(Outdated) + more
      /\ \A skip, n : n \in Nat => Cardinality(Missed(skip, n)') <= Cardinality(Missed(skip, n)) + more
  BY <1>1, <1>2, <1>3, OutdatedFinite
<1> QED
  BY <1>4, <1>5 DEF more

\* A chunk goes: of those that move up, one becomes one of the first n.
LEMMA MissedDelete ==
    ASSUME ReindexTypeOK, NEW c \in Rows, vector[c] # 0, vector' = [vector EXCEPT ![c] = 0]
    PROVE  /\ Cardinality(Chunks') = Cardinality(Chunks) - 1
           /\ Cardinality(Outdated') <= Cardinality(Outdated)
           /\ \A skip, n : n \in Nat =>
                Cardinality(Missed(skip, n)') <= Cardinality(Missed(skip, n)) + 1
<1>1. /\ Chunks' = Chunks \ {c} /\ c \in Chunks /\ c \in Int
      /\ \A b \in Chunks' : vector'[b] = vector[b]
      /\ Outdated' \in SUBSET Outdated
  BY ReindexAssumption DEF Chunks, ReindexTypeOK, Outdated
<1>2. ASSUME NEW skip, NEW n \in Nat
      PROVE  Cardinality(Missed(skip, n)') <= Cardinality(Missed(skip, n)) + 1
  <2>1. ASSUME NEW b \in Missed(skip, n)'
        PROVE  /\ b \in Chunks /\ Place(Chunks, b) \in Nat
               /\ b \in Missed(skip, n) \/ Place(Chunks, b) = n
    <3>1. b \in Outdated' /\ b \notin skip /\ Place(Chunks', b) < n
      BY DEF Missed
    <3>2. b \in Outdated /\ b \in Chunks /\ b \in Int /\ b \in Chunks'
      BY <1>1, <3>1, ChunksFinite, OutdatedFinite DEF Outdated
    <3>3. Place(Chunks, b) - 1 <= Place(Chunks', b)
      BY <1>1, <3>2, ChunksFinite, ChunksFiniteNext, PlaceKept
    <3>4. Place(Chunks, b) \in Nat /\ Place(Chunks', b) \in Nat
      BY <3>2, ChunksFinite, ChunksFiniteNext, PlaceType
    <3> QED
      BY <3>1, <3>2, <3>3, <3>4 DEF Missed
  <2>2. \E x : Missed(skip, n)' \subseteq Missed(skip, n) \cup {x}
    <3>1. CASE Missed(skip, n)' \subseteq Missed(skip, n)
      BY <3>1
    <3>2. ASSUME NEW x \in Missed(skip, n)', x \notin Missed(skip, n)
          PROVE  Missed(skip, n)' \subseteq Missed(skip, n) \cup {x}
      <4> SUFFICES ASSUME NEW b \in Missed(skip, n)', b \notin Missed(skip, n) PROVE b = x
        OBVIOUS
      <4>1. b \in Chunks /\ x \in Chunks /\ Place(Chunks, b) = n /\ Place(Chunks, x) = n
        BY <2>1, <3>2
      <4> QED
        BY <4>1, ChunksFinite, PlaceUnique
    <3> QED
      BY <3>1, <3>2
  <2>3. PICK x : Missed(skip, n)' \in SUBSET (Missed(skip, n) \cup {x})
    BY <2>2
  <2>4. /\ IsFiniteSet(Missed(skip, n) \cup {x})
        /\ Cardinality(Missed(skip, n) \cup {x}) <= Cardinality(Missed(skip, n)) + 1
        /\ Cardinality(Missed(skip, n)) \in Nat
    <3>1. IsFiniteSet(Missed(skip, n)) /\ Cardinality(Missed(skip, n)) \in Nat
      BY OutdatedFinite
    <3> QED
      BY <3>1, OneMore
  <2>5. Cardinality(Missed(skip, n)') <= Cardinality(Missed(skip, n) \cup {x})
    BY <2>3, <2>4, FS_Subset
  <2>6. Cardinality(Missed(skip, n)') \in Nat /\ Cardinality(Missed(skip, n) \cup {x}) \in Nat
    BY <2>3, <2>4, FS_Subset, FS_CardinalityType
  <2> QED
    BY <2>4, <2>5, <2>6
<1>3. Cardinality(Chunks') = Cardinality(Chunks) - 1
  BY <1>1, ChunksFinite, FS_RemoveElement
<1>4. Cardinality(Outdated') <= Cardinality(Outdated)
  BY <1>1, OutdatedFinite, FS_Subset
<1> QED
  BY <1>2, <1>3, <1>4

\* A chunk that comes or goes explains what is missed for it.
LEMMA PagesKept ==
    ASSUME ReindexTypeOK, PagesInv, UNCHANGED <<step, total, offset, batch>>,
           \A skip, n : n \in Nat /\ FewMissed(skip, n) =>
               /\ Cardinality(Missed(skip, n)') <= moves'
               /\ Cardinality(Missed(skip, n)') + Cardinality(Chunks') - total' <= moves',
           step = "done" => Cardinality(Outdated') <= moves'
    PROVE  PagesInv'
<1>1. PICK skip, n : skip = batch /\ n = offset + BatchSize
  OBVIOUS
<1>2. PICK from : from = offset
  OBVIOUS
<1>3. n \in Nat /\ from \in Nat
  BY <1>1, <1>2, ReindexAssumption DEF ReindexTypeOK
<1>4. Missed(batch, offset + BatchSize)' = Missed(skip, n)' /\ Missed({}, offset)' = Missed({}, from)'
  BY <1>1, <1>2 DEF Missed
<1>5. step = "embedding" => FewMissed(batch, offset + BatchSize)'
  BY <1>1, <1>3, <1>4 DEF PagesInv, FewMissed
<1>6. step = "looping" => FewMissed({}, offset)'
  BY <1>2, <1>3, <1>4 DEF PagesInv, FewMissed
<1> QED
  BY <1>5, <1>6 DEF PagesInv

LEMMA InsertStep ==
    ASSUME ReindexInv, NEW c \in Rows, InsertChunk(c)
    PROVE  ReindexInv'
<1>0. ReindexTypeOK /\ PagesInv /\ ExactInv
  BY DEF ReindexInv
<1>1. PICK d \in {OldDim, NewDim} :
        /\ vector' = [vector EXCEPT ![c] = d]
        /\ moves' = moves + IF d = OldDim THEN 2 ELSE 1
  BY DEF InsertChunk
<1>2. /\ vector[c] = 0 /\ dim' = dim /\ step' = step /\ total' = total /\ offset' = offset
      /\ updated' = updated /\ batch' = batch
  BY DEF InsertChunk, rebuild
<1> DEFINE more == IF d = OldDim THEN 1 ELSE 0
<1>3. /\ Cardinality(Chunks') = Cardinality(Chunks) + 1
      /\ Cardinality(Outdated') <= Cardinality(Outdated) + more
      /\ \A skip, n : n \in Nat => Cardinality(Missed(skip, n)') <= Cardinality(Missed(skip, n)) + more
  BY <1>0, <1>1, <1>2, MissedInsert
<1>4. moves' = moves + 1 + more /\ more \in {0, 1} /\ moves \in Nat
  BY <1>0, <1>1 DEF ReindexTypeOK
<1> HIDE DEF more
<1>5. ReindexTypeOK'
  BY <1>0, <1>1, <1>2, <1>4 DEF ReindexTypeOK
<1>6. /\ Cardinality(Chunks) \in Nat /\ Cardinality(Outdated) \in Nat /\ Cardinality(Outdated') \in Nat
      /\ total \in Nat /\ offset \in Nat /\ BatchSize \in Nat
      /\ \A skip, n : Cardinality(Missed(skip, n)) \in Nat /\ Cardinality(Missed(skip, n)') \in Nat
  BY <1>0, ReindexAssumption, ChunksFinite, OutdatedFinite, OutdatedFiniteNext DEF ReindexTypeOK
<1>7. ASSUME NEW skip, NEW n \in Nat, FewMissed(skip, n)
      PROVE  /\ Cardinality(Missed(skip, n)') <= moves'
             /\ Cardinality(Missed(skip, n)') + Cardinality(Chunks') - total' <= moves'
  BY <1>2, <1>3, <1>4, <1>6, <1>7 DEF FewMissed
<1>8. step = "done" => Cardinality(Outdated') <= moves'
  BY <1>0, <1>3, <1>4, <1>6 DEF PagesInv
<1>9. PagesInv'
  BY <1>0, <1>2, <1>7, <1>8, PagesKept
<1>10. ExactInv'
  BY <1>4 DEF ExactInv
<1> QED
  BY <1>5, <1>9, <1>10 DEF ReindexInv

LEMMA DeleteStep ==
    ASSUME ReindexInv, NEW c \in Rows, DeleteChunk(c)
    PROVE  ReindexInv'
<1>0. ReindexTypeOK /\ PagesInv /\ ExactInv
  BY DEF ReindexInv
<1>2. /\ vector[c] # 0 /\ dim' = dim /\ step' = step /\ total' = total /\ offset' = offset
      /\ updated' = updated /\ batch' = batch /\ moves' = moves + 1
      /\ vector' = [vector EXCEPT ![c] = 0]
  BY DEF DeleteChunk, rebuild
<1>3. /\ Cardinality(Chunks') = Cardinality(Chunks) - 1
      /\ Cardinality(Outdated') <= Cardinality(Outdated)
      /\ \A skip, n : n \in Nat => Cardinality(Missed(skip, n)') <= Cardinality(Missed(skip, n)) + 1
  BY <1>0, <1>2, MissedDelete
<1>5. ReindexTypeOK' /\ moves' # 0
  BY <1>0, <1>2 DEF ReindexTypeOK
<1>6. /\ Cardinality(Chunks) \in Nat /\ Cardinality(Outdated) \in Nat /\ Cardinality(Outdated') \in Nat
      /\ total \in Nat /\ moves \in Nat
      /\ \A skip, n : Cardinality(Missed(skip, n)) \in Nat /\ Cardinality(Missed(skip, n)') \in Nat
  BY <1>0, ChunksFinite, OutdatedFinite, OutdatedFiniteNext DEF ReindexTypeOK
<1>7. ASSUME NEW skip, NEW n \in Nat, FewMissed(skip, n)
      PROVE  /\ Cardinality(Missed(skip, n)') <= moves'
             /\ Cardinality(Missed(skip, n)') + Cardinality(Chunks') - total' <= moves'
  BY <1>2, <1>3, <1>6, <1>7 DEF FewMissed
<1>8. step = "done" => Cardinality(Outdated') <= moves'
  BY <1>0, <1>2, <1>3, <1>6 DEF PagesInv
<1>9. PagesInv'
  BY <1>0, <1>2, <1>7, <1>8, PagesKept
<1>10. ExactInv'
  BY <1>5 DEF ExactInv
<1> QED
  BY <1>5, <1>9, <1>10 DEF ReindexInv

LEMMA BeginStep ==
    ASSUME ReindexInv, BeginRebuild
    PROVE  ReindexInv'
<1>1. /\ vector' = vector /\ dim' = dim /\ step' = "looping" /\ total' = Cardinality(Chunks)
      /\ offset' = 0 /\ updated' = 0 /\ batch' = {} /\ moves' = 0
  BY DEF BeginRebuild
<1>2. Chunks' = Chunks /\ Cardinality(Chunks) \in Nat
  BY <1>1, ChunksFinite DEF Chunks
<1>3. ReindexTypeOK'
  BY <1>1, <1>2 DEF ReindexInv, ReindexTypeOK
<1>4. Missed({}, offset)' = {} /\ FirstOf(Chunks', 0) = {}
  <2>1. \A c \in Chunks' : ~(Place(Chunks', c) < 0)
    BY ChunksFiniteNext, PlaceType
  <2> QED
    BY <1>1, <2>1 DEF Missed, FirstOf, Outdated
<1>5. Cardinality({}) = 0
  BY FS_EmptySet
<1>6. PagesInv'
  <2>1. Cardinality(Missed({}, offset)') = 0 /\ Cardinality(Chunks') - total' = 0
    BY <1>1, <1>2, <1>4, <1>5
  <2>2. FewMissed({}, offset)'
    BY <1>1, <1>2, <2>1 DEF FewMissed
  <2> QED
    BY <1>1, <2>2 DEF PagesInv
<1>7. ExactInv'
  BY <1>1, <1>2, <1>4, <1>5 DEF ExactInv
<1> QED
  BY <1>3, <1>6, <1>7 DEF ReindexInv

LEMMA SelectStep ==
    ASSUME ReindexInv, SelectPage
    PROVE  ReindexInv'
<1>0. ReindexTypeOK /\ PagesInv /\ ExactInv
  BY DEF ReindexInv
<1>1. /\ vector' = vector /\ dim' = dim /\ step = "looping" /\ step' = "embedding" /\ total' = total
      /\ offset' = offset /\ updated' = updated /\ batch' = Page(offset) /\ moves' = moves
  BY DEF SelectPage
<1>2. Chunks' = Chunks /\ Outdated' = Outdated /\ Page(offset)' = Page(offset)
  BY <1>1 DEF Chunks, Outdated, Page
<1>3. /\ offset \in Nat /\ Page(offset) \subseteq Chunks
      /\ FirstOf(Chunks, offset + BatchSize) = FirstOf(Chunks, offset) \cup Page(offset)
  BY <1>0, PageFollows DEF ReindexTypeOK
<1>4. ReindexTypeOK'
  BY <1>0, <1>1, <1>3 DEF ReindexTypeOK, Chunks
<1>5. Missed(batch, offset + BatchSize)' \in SUBSET Missed({}, offset)
  <2> SUFFICES ASSUME NEW c \in Missed(batch, offset + BatchSize)' PROVE c \in Missed({}, offset)
    OBVIOUS
  <2>1. c \in Outdated /\ c \notin Page(offset) /\ Place(Chunks, c) < offset + BatchSize
    BY <1>1, <1>2 DEF Missed
  <2>2. c \in FirstOf(Chunks, offset)
    BY <1>3, <2>1, OutdatedFinite DEF FirstOf
  <2> QED
    BY <2>1, <2>2 DEF Missed, FirstOf
<1>6. Cardinality(Missed(batch, offset + BatchSize)') <= Cardinality(Missed({}, offset))
  BY <1>5, OutdatedFinite, FS_Subset
<1>7. /\ Cardinality(Missed({}, offset)) \in Nat /\ Cardinality(Missed(batch, offset + BatchSize)') \in Nat
      /\ Cardinality(Chunks) \in Nat /\ total \in Nat /\ moves \in Nat
      /\ Cardinality(Missed({}, offset)) <= moves
      /\ Cardinality(Missed({}, offset)) + Cardinality(Chunks) - total <= moves
  <2>1. \A S : S \in SUBSET Missed({}, offset) => Cardinality(S) \in Nat
    BY OutdatedFinite, FS_Subset, FS_CardinalityType
  <2> QED
    BY <1>0, <1>1, <1>5, <2>1, OutdatedFinite, ChunksFinite DEF PagesInv, FewMissed, ReindexTypeOK
<1>8. PagesInv'
  BY <1>1, <1>2, <1>6, <1>7 DEF PagesInv, FewMissed
<1>9. ExactInv'
  BY <1>0, <1>1, <1>2 DEF ExactInv
<1> QED
  BY <1>4, <1>8, <1>9 DEF ReindexInv

LEMMA WriteStep ==
    ASSUME ReindexInv, WritePage
    PROVE  ReindexInv'
<1>0. ReindexTypeOK /\ PagesInv /\ ExactInv
  BY DEF ReindexInv
<1>1. /\ vector' = [c \in Rows |-> IF c \in batch \cap Chunks THEN NewDim ELSE vector[c]]
      /\ dim' = NewDim /\ step = "embedding" /\ step' = "looping" /\ total' = total
      /\ offset' = offset + BatchSize /\ updated' = updated + Cardinality(batch) /\ batch' = batch
      /\ moves' = moves
  BY DEF WritePage
<1>2. Chunks' = Chunks /\ Outdated' = Outdated \ batch
  BY <1>0, <1>1, ReindexAssumption DEF Chunks, Outdated, ReindexTypeOK
<1>3. /\ offset \in Nat /\ BatchSize \in Nat /\ total \in Nat /\ moves \in Nat /\ updated \in Nat
      /\ Cardinality(batch) \in Nat
  <2>1. IsFiniteSet(batch)
    BY <1>0, ReindexAssumption, FS_Subset DEF ReindexTypeOK
  <2> QED
    BY <1>0, <2>1, ReindexAssumption, FS_CardinalityType DEF ReindexTypeOK
<1>4. ReindexTypeOK'
  BY <1>0, <1>1, <1>3 DEF ReindexTypeOK
<1>5. Missed({}, offset)' = Missed(batch, offset + BatchSize)
  BY <1>1, <1>2 DEF Missed
<1>6. PagesInv'
  BY <1>0, <1>1, <1>2, <1>5 DEF PagesInv, FewMissed
<1>7. ASSUME moves = 0 PROVE updated' = Cardinality(FirstOf(Chunks, offset'))
  BY <1>0, <1>1, <1>3, <1>7, PageFollows DEF ExactInv
<1>8. ExactInv'
  BY <1>0, <1>1, <1>2, <1>7 DEF ExactInv
<1> QED
  BY <1>4, <1>6, <1>8 DEF ReindexInv

\* Beyond the offset are only as many chunks as there are more than were counted.
LEMMA EndStep ==
    ASSUME ReindexInv, EndRebuild
    PROVE  ReindexInv'
<1>0. ReindexTypeOK /\ PagesInv /\ ExactInv
  BY DEF ReindexInv
<1>1. /\ vector' = vector /\ dim' = dim /\ step = "looping" /\ step' = "done" /\ total' = total
      /\ offset' = offset /\ updated' = updated /\ batch' = batch /\ moves' = moves
      /\ offset >= total \/ Page(offset) = {}
  BY DEF EndRebuild
<1>2. Chunks' = Chunks /\ Outdated' = Outdated
  BY <1>1 DEF Chunks, Outdated
<1> DEFINE F == FirstOf(Chunks, offset)
           M == Missed({}, offset)
<1>3. /\ offset \in Nat /\ total \in Nat /\ moves \in Nat /\ Cardinality(Chunks) \in Nat
      /\ IsFiniteSet(Chunks) /\ Chunks \in SUBSET Int /\ F \in SUBSET Chunks
      /\ IsFiniteSet(F) /\ Cardinality(F) \in Nat /\ Cardinality(F) <= Cardinality(Chunks)
      /\ M \in SUBSET Outdated /\ IsFiniteSet(M) /\ Cardinality(M) \in Nat
      /\ IsFiniteSet(Outdated) /\ Cardinality(Outdated) \in Nat
  <2>1. F \in SUBSET Chunks
    BY DEF FirstOf
  <2> QED
    BY <1>0, <2>1, ChunksFinite, OutdatedFinite DEF ReindexTypeOK
<1>4. Outdated \subseteq M \cup (Chunks \ F)
  BY OutdatedFinite DEF Missed, FirstOf
<1>5. Cardinality(M) <= moves /\ Cardinality(M) + Cardinality(Chunks) - total <= moves
  BY <1>0, <1>1 DEF PagesInv, FewMissed
<1>6. ASSUME F # Chunks
      PROVE  Cardinality(F) = offset /\ \E m \in Chunks : Place(Chunks, m) = offset
  BY <1>3, <1>6, NextOne
<1>7. F # Chunks => offset >= total
  <2> SUFFICES ASSUME F # Chunks, Page(offset) = {} PROVE FALSE
    BY <1>1
  <2>1. PICK m \in Chunks : Place(Chunks, m) = offset
    BY <1>6
  <2>2. m \in Page(offset)
    BY <1>3, <2>1, ReindexAssumption DEF Page, Place
  <2> QED
    BY <2>2
<1>8. Cardinality(Outdated) <= moves
  <2>1. CASE F = Chunks
    <3>1. Outdated \in SUBSET M
      BY <1>4, <2>1
    <3>2. Cardinality(Outdated) <= Cardinality(M)
      BY <1>3, <3>1, FS_Subset
    <3> QED
      BY <1>3, <1>5, <3>2
  <2>2. CASE F # Chunks
    <3> DEFINE B == Chunks \ F
    <3>1. IsFiniteSet(B) /\ Cardinality(B) = Cardinality(Chunks) - Cardinality(F) /\ Cardinality(B) \in Nat
      <4>1. Chunks \cap F = F
        BY <1>3
      <4>2. IsFiniteSet(B) /\ Cardinality(B) = Cardinality(Chunks) - Cardinality(Chunks \cap F)
        BY <1>3, FS_Difference
      <4> QED
        BY <4>1, <4>2, FS_CardinalityType
    <3> HIDE DEF B, F, M
    <3>2. /\ IsFiniteSet(M \cup B) /\ Cardinality(M \cup B) \in Nat
          /\ Cardinality(M \cup B) <= Cardinality(M) + Cardinality(B)
      <4>1. /\ IsFiniteSet(M \cup B)
            /\ Cardinality(M \cup B) = Cardinality(M) + Cardinality(B) - Cardinality(M \cap B)
        BY <1>3, <3>1, FS_Union
      <4>2. Cardinality(M \cap B) \in Nat /\ Cardinality(M \cup B) \in Nat
        <5>1. M \cap B \in SUBSET M
          OBVIOUS
        <5> QED
          BY <1>3, <4>1, <5>1, FS_Subset, FS_CardinalityType
      <4> QED
        BY <1>3, <3>1, <4>1, <4>2
    <3>3. Outdated \in SUBSET (M \cup B)
      BY <1>4 DEF B
    <3>4. Cardinality(Outdated) <= Cardinality(M \cup B)
      BY <3>2, <3>3, FS_Subset
    <3> QED
      BY <1>3, <1>5, <1>6, <1>7, <2>2, <3>1, <3>2, <3>4
  <2> QED
    BY <2>1, <2>2
<1>9. ASSUME moves = 0 PROVE updated = total
  <2>1. updated = Cardinality(F) /\ total = Cardinality(Chunks)
    BY <1>0, <1>1, <1>9 DEF ExactInv
  <2>2. F # Chunks => FALSE
    <3> SUFFICES ASSUME F # Chunks PROVE FALSE
      OBVIOUS
    <3>1. Cardinality(F) = Cardinality(Chunks)
      BY <1>3, <1>6, <1>7, <2>1
    <3> QED
      BY <1>3, <3>1, FS_Subset
  <2> QED
    BY <2>1, <2>2
<1> HIDE DEF F, M
<1>10. ReindexTypeOK'
  BY <1>0, <1>1 DEF ReindexTypeOK
<1>11. PagesInv'
  BY <1>1, <1>2, <1>8 DEF PagesInv
<1>12. ExactInv'
  BY <1>0, <1>1, <1>2, <1>9 DEF ExactInv
<1> QED
  BY <1>10, <1>11, <1>12 DEF ReindexInv

LEMMA ReindexStep == ReindexInv /\ [ReindexNext]_reindexVars => ReindexInv'
<1> SUFFICES ASSUME ReindexInv, [ReindexNext]_reindexVars PROVE ReindexInv'
  OBVIOUS
<1>1. CASE FailPage
  <2>1. /\ vector' = vector /\ dim' \in {dim, NewDim} /\ step' = "failed" /\ total' = total
        /\ offset' = offset /\ updated' = updated /\ batch' = batch /\ moves' = moves
    BY <1>1 DEF FailPage
  <2> QED
    BY <2>1 DEF ReindexInv, ReindexTypeOK, PagesInv, ExactInv
<1>2. CASE Status \/ UNCHANGED reindexVars
  <2>1. /\ vector' = vector /\ dim' = dim /\ step' = step /\ total' = total
        /\ offset' = offset /\ updated' = updated /\ batch' = batch /\ moves' = moves
    BY <1>2 DEF Status, reindexVars, rebuild
  <2> QED
    BY <2>1 DEF ReindexInv, ReindexTypeOK, PagesInv, ExactInv, FewMissed, Missed, Outdated, Chunks, Page
<1> QED
  BY <1>1, <1>2, BeginStep, SelectStep, EndStep, WriteStep, InsertStep, DeleteStep DEF ReindexNext

LEMMA ReindexInitially == ReindexInit => ReindexInv
BY ReindexAssumption DEF ReindexInit, ReindexInv, ReindexTypeOK, PagesInv, ExactInv

(* When the rebuild is over it has left out no more chunks that search would have found than
   chunks were inserted or deleted while its pages moved, and with none its count is exact:
   of what still has the old dimension, whatever lies beyond the offset is yet to be read,
   and each move shifts at most one chunk past it. *)
THEOREM RebuildFinds == ReindexSpec => []RebuildMissesFew
<1>1. ReindexInv => RebuildMissesFew
  BY DEF ReindexInv, PagesInv, ExactInv, RebuildMissesFew
<1> QED
  BY <1>1, ReindexInitially, ReindexStep, PTL DEF ReindexSpec

-----------------------------------------------------------------------------
(* The rate limit: for any number of processes, limit, window and restarts. *)

Hits == [count : Nat, expires : Nat]
PassedInKey(k) == {r \in passed : Key(r.at) = k}

\* The stores that the processes ask, and the requests that their counts of a window stand for.
Live == IF backend = "redis" THEN {Shared} ELSE Servers
Slots(k) == {x \in Live \X (1..Limit) : x[2] <= counters[x[1]][k].count}

\* The requests whose count may have been lost.
Forgotten == IF backend = "redis" THEN 0 ELSE Limit * restarts

RateTypeOK ==
    /\ backend \in {"memory", "redis"} /\ now \in 0..MaxTime /\ restarts \in Nat
    /\ counters \in [Stores -> [Keys -> Hits]]
    /\ passed \in SUBSET [at : 0..MaxTime, no : Nat] /\ IsFiniteSet(passed)
    /\ \A r \in passed : r.no <= Cardinality(passed)

\* A key does not expire before its window has passed.
ExpiryInv ==
    \A s \in Stores : \A k \in Keys :
        counters[s][k] = NoCount \/ counters[s][k].expires >= Window * k + Window

\* Who was let through in a window is counted, or his count was lost.
SlotsInv == \A k \in Keys : Cardinality(PassedInKey(k)) <= Cardinality(Slots(k)) + Forgotten

RefusedInv ==
    /\ refused.seen > Limit /\ 0 < refused.retry /\ refused.retry <= Window
    /\ refused # NotRefused => Key(refused.at + refused.retry) = Key(refused.at) + 1

RateInv == RateTypeOK /\ ExpiryInv /\ SlotsInv /\ RefusedInv

LEMMA RateConstants ==
    /\ Limit \in Nat /\ Window \in Nat /\ Window > 0 /\ MaxTime \in Nat
    /\ IsFiniteSet(Servers) /\ Shared \notin Servers
BY RateAssumption

\* A time is in the window that its key names, and in no other.
LEMMA KeyOf ==
    ASSUME NEW t \in Int
    PROVE  /\ Key(t) \in Int /\ Window * Key(t) <= t /\ t < Window * Key(t) + Window
           /\ t % Window \in 0..(Window - 1) /\ t = Window * Key(t) + (t % Window)
<1>1. Window \in Nat \ {0}
  BY RateAssumption
<1> QED
  BY <1>1, Z3 DEF Key

LEMMA KeyIs ==
    ASSUME NEW t \in Int, NEW k \in Int, Window * k <= t, t < Window * k + Window
    PROVE  Key(t) = k
<1>1. Window \in Nat \ {0}
  BY RateAssumption
<1> QED
  BY <1>1, Z3 DEF Key

LEMMA KeyOrder ==
    ASSUME NEW t \in Int, NEW u \in Int, t <= u
    PROVE  Key(t) <= Key(u)
<1>1. Window \in Nat \ {0}
  BY RateAssumption
<1> QED
  BY <1>1, Z3 DEF Key

LEMMA KeyInKeys ==
    ASSUME NEW t \in 0..MaxTime
    PROVE  Key(t) \in Keys
<1>1. Window \in Nat \ {0} /\ MaxTime \in Nat
  BY RateAssumption
<1>2. Key(t) \in Int /\ 0 <= Key(t) /\ Key(t) <= Key(MaxTime)
  BY <1>1, KeyOf, KeyOrder, Z3 DEF Key
<1> QED
  BY <1>1, <1>2, KeyOf DEF Keys, Key

LEMMA KeysAreInts == Keys \subseteq Int
BY KeyOf, RateConstants DEF Keys, Key

\* A request is counted on the key of its own window.
LEMMA HitCounts ==
    ASSUME RateTypeOK, ExpiryInv, NEW s \in Stores
    PROVE  LET c == counters[s][Key(now)] IN
           /\ Key(now) \in Keys /\ c \in Hits /\ Hit(c) \in Hits
           /\ Hit(c).count = c.count + 1 /\ Hit(c).expires >= Window * Key(now) + Window
<1> DEFINE c == counters[s][Key(now)]
<1>1. Key(now) \in Keys /\ now \in Nat /\ Window \in Nat /\ Window > 0
  BY KeyInKeys, RateConstants DEF RateTypeOK
<1>2. c \in Hits
  BY <1>1 DEF RateTypeOK
<1>3. c = NoCount \/ c.expires >= Window * Key(now) + Window
  BY <1>1 DEF ExpiryInv
<1>4. Key(now) \in Int /\ Window * Key(now) \in Int /\ Window * Key(now) <= now
      /\ now < Window * Key(now) + Window
  <2>1. Key(now) \in Int /\ Window * Key(now) <= now /\ now < Window * Key(now) + Window
    BY <1>1, KeyOf
  <2> QED
    BY <2>1, <1>1
<1> HIDE DEF c
<1>5. CASE c = NoCount
  BY <1>1, <1>4, <1>5 DEF NoCount, Hit, Hits, c
<1>6. CASE c.expires >= Window * Key(now) + Window
  <2>1. ~(now >= c.expires)
    BY <1>1, <1>2, <1>4, <1>6 DEF Hits
  <2>2. Hit(c) = [c EXCEPT !.count = @ + 1]
    BY <2>1 DEF Hit
  <2> QED
    BY <1>1, <1>2, <1>6, <2>2 DEF Hits, c
<1> QED
  BY <1>3, <1>5, <1>6

LEMMA StoreLive ==
    ASSUME RateTypeOK, NEW p \in Servers
    PROVE  Store(p) \in Live /\ Store(p) \in Stores /\ Live \subseteq Stores
BY DEF Store, Live, Stores, RateTypeOK

LEMMA LiveFinite ==
    /\ IsFiniteSet(Live) /\ Cardinality(Live) \in Nat
    /\ Cardinality(Live) = IF backend = "redis" THEN 1 ELSE Cardinality(Servers)
    /\ Cardinality(Servers) \in Nat
<1>1. IsFiniteSet(Servers) /\ Cardinality(Servers) \in Nat
  BY RateConstants, FS_CardinalityType
<1>2. IsFiniteSet({Shared}) /\ Cardinality({Shared}) = 1
  BY FS_Singleton
<1> QED
  BY <1>1, <1>2 DEF Live

LEMMA PlacesFinite ==
    ASSUME NEW S, IsFiniteSet(S)
    PROVE  /\ IsFiniteSet(S \X (1..Limit))
           /\ Cardinality(S \X (1..Limit)) = Cardinality(S) * Limit
<1>1. IsFiniteSet(1..Limit) /\ Cardinality(1..Limit) = Limit
  <2>1. 1 \in Int /\ Limit \in Nat
    BY RateConstants
  <2> QED
    BY <2>1, FS_Interval
<1> QED
  BY <1>1, FS_Product

LEMMA SlotsFinite ==
    ASSUME NEW k
    PROVE  /\ IsFiniteSet(Slots(k)) /\ Cardinality(Slots(k)) \in Nat
           /\ Cardinality(Slots(k)) <= Cardinality(Live) * Limit
<1>1. IsFiniteSet(Live \X (1..Limit)) /\ Cardinality(Live \X (1..Limit)) = Cardinality(Live) * Limit
  BY LiveFinite, PlacesFinite
<1>2. Slots(k) \in SUBSET (Live \X (1..Limit))
  BY DEF Slots
<1> QED
  BY <1>1, <1>2, FS_Subset, FS_CardinalityType

LEMMA ForgottenType == RateTypeOK => Forgotten \in Nat
BY RateConstants DEF Forgotten, RateTypeOK

LEMMA PassedFinite ==
    ASSUME RateTypeOK, NEW S \in SUBSET passed
    PROVE  IsFiniteSet(S) /\ Cardinality(S) \in Nat
BY FS_Subset, FS_CardinalityType DEF RateTypeOK

\* The counters after a hit.
HitAt(s, k) == counters' = [counters EXCEPT ![s] = [counters[s] EXCEPT ![k] = Hit(counters[s][k])]]

LEMMA HitRow ==
    ASSUME RateTypeOK, ExpiryInv, NEW s \in Stores, HitAt(s, Key(now))
    PROVE  /\ counters' \in [Stores -> [Keys -> Hits]]
           /\ \A x \in Stores : \A k \in Keys :
                counters'[x][k] = IF x = s /\ k = Key(now) THEN Hit(counters[s][Key(now)])
                                                           ELSE counters[x][k]
<1> DEFINE h == Hit(counters[s][Key(now)])
<1>1. h \in Hits /\ Key(now) \in Keys
  BY HitCounts
<1>2. counters' = [counters EXCEPT ![s] = [counters[s] EXCEPT ![Key(now)] = h]]
  BY DEF HitAt
<1>3. counters \in [Stores -> [Keys -> Hits]]
  BY DEF RateTypeOK
<1> HIDE DEF h
<1> QED
  <2>1. [counters[s] EXCEPT ![Key(now)] = h] \in [Keys -> Hits]
    BY <1>1, <1>3
  <2>2. counters' \in [Stores -> [Keys -> Hits]]
    BY <1>2, <1>3, <2>1
  <2>3. ASSUME NEW x \in Stores, NEW k \in Keys
        PROVE  counters'[x][k] = IF x = s /\ k = Key(now) THEN h ELSE counters[x][k]
    BY <1>1, <1>2, <1>3
  <2> QED
    BY <2>2, <2>3 DEF h

LEMMA HitExpires ==
    ASSUME RateTypeOK, ExpiryInv, NEW s \in Stores, HitAt(s, Key(now))
    PROVE  ExpiryInv'
<1> SUFFICES ASSUME NEW x \in Stores, NEW k \in Keys
             PROVE  counters'[x][k] = NoCount \/ counters'[x][k].expires >= Window * k + Window
  BY DEF ExpiryInv, Stores, Keys, NoCount
<1> QED
  BY HitRow, HitCounts DEF ExpiryInv

\* A hit takes no slot away, and one that is let through takes a new one.
LEMMA HitSlots ==
    ASSUME RateTypeOK, ExpiryInv, NEW s \in Live, s \in Stores, HitAt(s, Key(now)),
           backend' = backend, NEW k \in Keys
    PROVE  /\ Slots(k) \in SUBSET Slots(k)'
           /\ k = Key(now) /\ Hit(counters[s][k]).count <= Limit =>
                \E x \in Live \X (1..Limit) : x \notin Slots(k) /\ Slots(k) \cup {x} \in SUBSET Slots(k)'
<1> DEFINE n == counters[s][Key(now)].count + 1
<1>1. Live' = Live /\ Live \subseteq Stores
  BY DEF Live, Stores
<1>2. \A x \in Live : /\ counters[x][k].count \in Nat /\ counters'[x][k].count \in Nat
                      /\ counters[x][k].count <= counters'[x][k].count
                      /\ (x = s /\ k = Key(now) => counters'[x][k].count = n)
  <2> SUFFICES ASSUME NEW x \in Live
               PROVE  /\ counters[x][k].count \in Nat /\ counters'[x][k].count \in Nat
                      /\ counters[x][k].count <= counters'[x][k].count
                      /\ (x = s /\ k = Key(now) => counters'[x][k].count = n)
    OBVIOUS
  <2>1. x \in Stores /\ counters[x][k] \in Hits
    BY <1>1 DEF RateTypeOK
  <2>2. counters'[x][k] = IF x = s /\ k = Key(now) THEN Hit(counters[s][Key(now)]) ELSE counters[x][k]
    BY <2>1, HitRow
  <2>3. Hit(counters[s][Key(now)]).count = n
    BY HitCounts
  <2> QED
    BY <2>1, <2>2, <2>3 DEF Hits
<1>l. Limit \in Nat
  BY RateConstants
<1>3. Slots(k)' = {x \in Live \X (1..Limit) : x[2] <= counters'[x[1]][k].count}
  BY <1>1 DEF Slots
<1>4. Slots(k) \in SUBSET Slots(k)'
  <2> SUFFICES ASSUME NEW x \in Live, NEW i \in 1..Limit, i <= counters[x][k].count
               PROVE  i <= counters'[x][k].count
    BY <1>3 DEF Slots
  <2> QED
    BY <1>2, <1>l
<1>5. ASSUME k = Key(now), Hit(counters[s][k]).count <= Limit
      PROVE  \E x \in Live \X (1..Limit) : x \notin Slots(k) /\ Slots(k) \cup {x} \in SUBSET Slots(k)'
  <2>1. n \in 1..Limit /\ counters'[s][k].count = n /\ ~(n <= counters[s][k].count)
    <3>1. Hit(counters[s][Key(now)]).count = n
      BY HitCounts
    <3> QED
      BY <1>2, <1>5, <1>l, <3>1
  <2> HIDE DEF n
  <2>2. <<s, n>> \in Live \X (1..Limit) /\ <<s, n>> \notin Slots(k) /\ <<s, n>> \in Slots(k)'
    BY <1>3, <2>1, <1>l DEF Slots
  <2> QED
    BY <1>4, <2>2
<1> QED
  BY <1>4, <1>5

LEMMA HitIs ==
    ASSUME RateTypeOK, NEW s \in Stores,
           counters' = [counters EXCEPT ![s][Key(now)] = Hit(@)]
    PROVE  HitAt(s, Key(now))
BY DEF HitAt, RateTypeOK

LEMMA PassStep ==
    ASSUME RateInv, NEW p \in Servers, Pass(p)
    PROVE  RateInv'
<1> DEFINE k0 == Key(now)
           r0 == [at |-> now, no |-> Cardinality(passed) + 1]
           s == Store(p)
<1>1. /\ RateTypeOK /\ ExpiryInv /\ SlotsInv /\ RefusedInv
      /\ passed' = passed \cup {r0} /\ backend' = backend /\ now' = now
      /\ refused' = refused /\ restarts' = restarts
      /\ Hit(counters[s][k0]).count <= Limit
  <2>1. Hit(counters[s][k0]) \in Hits
    BY StoreLive, HitCounts DEF RateInv
  <2> QED
    BY <2>1, RateConstants DEF RateInv, Pass, Allowed, OverLimit, Hits
<1>2. s \in Live /\ s \in Stores /\ HitAt(s, k0)
  <2>1. s \in Live /\ s \in Stores
    BY <1>1, StoreLive
  <2>2. counters' = [counters EXCEPT ![s][Key(now)] = Hit(@)]
    BY DEF Pass
  <2> QED
    BY <1>1, <2>1, <2>2, HitIs
<1>3. k0 \in Keys /\ now \in 0..MaxTime
  BY <1>1, KeyInKeys DEF RateTypeOK
<1> HIDE DEF s
<1>4. IsFiniteSet(passed) /\ Cardinality(passed) \in Nat /\ r0 \notin passed
  <2>1. IsFiniteSet(passed) /\ Cardinality(passed) \in Nat /\ \A r \in passed : r.no <= Cardinality(passed)
    BY <1>1, FS_CardinalityType DEF RateTypeOK
  <2> QED
    BY <2>1
<1>5. RateTypeOK'
  <2>1. IsFiniteSet(passed') /\ Cardinality(passed') = Cardinality(passed) + 1
    <3> HIDE DEF r0
    <3> QED
      BY <1>1, <1>4, FS_AddElement
  <2>2. counters' \in [Stores -> [Keys -> Hits]]
    BY <1>1, <1>2, HitRow
  <2>3. passed' \in SUBSET [at : 0..MaxTime, no : Nat]
    BY <1>1, <1>3, <1>4 DEF RateTypeOK
  <2>4. \A r \in passed' : r.no <= Cardinality(passed')
    BY <1>1, <1>4, <2>1 DEF RateTypeOK
  <2> QED
    BY <1>1, <2>1, <2>2, <2>3, <2>4 DEF RateTypeOK, Stores
<1>6. ExpiryInv'
  BY <1>1, <1>2, HitExpires
<1>7. SlotsInv'
  <2> SUFFICES ASSUME NEW k \in Keys
               PROVE  Cardinality(PassedInKey(k)') <= Cardinality(Slots(k)') + Forgotten'
    BY DEF SlotsInv, Keys
  <2>1. Cardinality(PassedInKey(k)) <= Cardinality(Slots(k)) + Forgotten /\ Forgotten' = Forgotten
        /\ Forgotten \in Nat
    BY <1>1, ForgottenType DEF SlotsInv, Forgotten
  <2>2. /\ IsFiniteSet(Slots(k)) /\ Cardinality(Slots(k)) \in Nat
        /\ IsFiniteSet(Slots(k)') /\ Cardinality(Slots(k)') \in Nat
    <3>1. IsFiniteSet(Slots(k)) /\ Cardinality(Slots(k)) \in Nat
      BY SlotsFinite
    <3>2. IsFiniteSet(Slots(k)') /\ Cardinality(Slots(k)') \in Nat
      <4>1. Live' = Live
        BY <1>1 DEF Live
      <4>2. Slots(k)' \in SUBSET (Live \X (1..Limit))
        BY <4>1 DEF Slots
      <4>3. IsFiniteSet(Live \X (1..Limit))
        BY LiveFinite, PlacesFinite
      <4> QED
        BY <4>2, <4>3, FS_Subset, FS_CardinalityType
    <3> QED
      BY <3>1, <3>2
  <2>3. IsFiniteSet(PassedInKey(k)) /\ Cardinality(PassedInKey(k)) \in Nat
    BY <1>1, PassedFinite DEF PassedInKey
  <2>4. CASE k = k0
    <3>1. PassedInKey(k)' = PassedInKey(k) \cup {r0} /\ r0 \notin PassedInKey(k)
      BY <1>1, <1>4, <2>4 DEF PassedInKey, Key
    <3>2. Cardinality(PassedInKey(k)') = Cardinality(PassedInKey(k)) + 1
      <4> HIDE DEF r0
      <4> QED
        BY <2>3, <3>1, FS_AddElement
    <3>3. PICK x \in Live \X (1..Limit) : x \notin Slots(k) /\ Slots(k) \cup {x} \in SUBSET Slots(k)'
      BY <1>1, <1>2, <2>4, HitSlots
    <3>4. Cardinality(Slots(k) \cup {x}) = Cardinality(Slots(k)) + 1
      BY <2>2, <3>3, FS_AddElement
    <3>5. Cardinality(Slots(k) \cup {x}) <= Cardinality(Slots(k)')
      BY <2>2, <3>3, FS_Subset
    <3> QED
      BY <2>1, <2>2, <2>3, <3>2, <3>4, <3>5
  <2>5. CASE k # k0
    <3>1. PassedInKey(k)' = PassedInKey(k)
      BY <1>1, <2>5 DEF PassedInKey, Key
    <3>2. Cardinality(Slots(k)) <= Cardinality(Slots(k)')
      <4>1. Slots(k) \in SUBSET Slots(k)'
        BY <1>1, <1>2, HitSlots
      <4> QED
        BY <4>1, <2>2, FS_Subset
    <3> QED
      BY <2>1, <2>2, <2>3, <3>1, <3>2
  <2> QED
    BY <2>4, <2>5
<1>8. RefusedInv'
  BY <1>1 DEF RefusedInv, NotRefused, Key
<1> QED
  BY <1>5, <1>6, <1>7, <1>8 DEF RateInv

LEMMA SlotsKept ==
    ASSUME RateInv, RateTypeOK', passed' = passed, restarts' = restarts, backend' = backend,
           \A k \in Keys : Slots(k) \in SUBSET Slots(k)'
    PROVE  SlotsInv'
<1> SUFFICES ASSUME NEW k \in Keys
             PROVE  Cardinality(PassedInKey(k)') <= Cardinality(Slots(k)') + Forgotten'
  BY DEF SlotsInv, Keys
<1>1. /\ Cardinality(PassedInKey(k)) <= Cardinality(Slots(k)) + Forgotten /\ Forgotten' = Forgotten
      /\ Forgotten \in Nat /\ PassedInKey(k)' = PassedInKey(k)
  BY ForgottenType DEF RateInv, SlotsInv, Forgotten, PassedInKey, Key
<1>2. IsFiniteSet(Slots(k)') /\ Cardinality(Slots(k)') \in Nat
  <2>1. Live' = Live
    BY DEF Live
  <2>2. Slots(k)' \in SUBSET (Live \X (1..Limit))
    BY <2>1 DEF Slots
  <2>3. IsFiniteSet(Live \X (1..Limit))
    BY LiveFinite, PlacesFinite
  <2> QED
    BY <2>2, <2>3, FS_Subset, FS_CardinalityType
<1>3. Cardinality(Slots(k)) \in Nat /\ Cardinality(Slots(k)) <= Cardinality(Slots(k)')
  BY <1>2, SlotsFinite, FS_Subset
<1>4. Cardinality(PassedInKey(k)) \in Nat
  BY PassedFinite DEF PassedInKey, RateInv
<1> QED
  BY <1>1, <1>2, <1>3, <1>4

LEMMA RefuseStep ==
    ASSUME RateInv, NEW p \in Servers, Refuse429(p)
    PROVE  RateInv'
<1> DEFINE k0 == Key(now)
           s == Store(p)
           h == Hit(counters[s][k0])
<1>1. /\ RateTypeOK /\ ExpiryInv /\ SlotsInv /\ RefusedInv
      /\ passed' = passed /\ backend' = backend /\ now' = now /\ restarts' = restarts
      /\ refused' = [at |-> now, seen |-> h.count, retry |-> Window - (now % Window)]
      /\ h.count > Limit
  BY DEF RateInv, Refuse429, Allowed, OverLimit
<1>2. s \in Live /\ s \in Stores /\ HitAt(s, k0)
  <2>1. s \in Live /\ s \in Stores
    BY <1>1, StoreLive
  <2>2. counters' = [counters EXCEPT ![s][Key(now)] = Hit(@)]
    <3>1. counters' = [counters EXCEPT ![s][Key(now)] = Hit(counters[s][Key(now)])]
      BY DEF Refuse429
    <3> QED
      BY <3>1
  <2> QED
    BY <1>1, <2>1, <2>2, HitIs
<1> HIDE DEF s, h
<1>3. RateTypeOK'
  <2>1. counters' \in [Stores -> [Keys -> Hits]]
    BY <1>1, <1>2, HitRow
  <2> QED
    BY <1>1, <2>1 DEF RateTypeOK, Stores
<1>4. ExpiryInv'
  BY <1>1, <1>2, HitExpires
<1>5. SlotsInv'
  <2>1. \A k \in Keys : Slots(k) \in SUBSET Slots(k)'
    BY <1>1, <1>2, HitSlots
  <2> QED
    BY <1>1, <1>3, <2>1, SlotsKept
<1>6. RefusedInv'
  <2> DEFINE t == now + (Window - (now % Window))
  <2>1. /\ now \in Int /\ Window \in Nat /\ Window > 0 /\ Key(now) \in Int
        /\ now % Window \in 0..(Window - 1) /\ now = Window * Key(now) + (now % Window)
    <3>1. now \in Int
      BY <1>1 DEF RateTypeOK
    <3> QED
      BY <3>1, RateConstants, KeyOf
  <2>2. t = Window * Key(now) + Window /\ t \in Int
    <3>1. PICK m \in 0..(Window - 1) : m = now % Window
      BY <2>1
    <3>2. PICK b \in Int : b = Window * Key(now)
      BY <2>1
    <3>3. now = b + m /\ t = now + (Window - m)
      BY <2>1, <3>1, <3>2
    <3> QED
      BY <2>1, <3>2, <3>3
  <2>3. Window * (Key(now) + 1) = Window * Key(now) + Window /\ Window * Key(now) \in Int
    BY <2>1
  <2> HIDE DEF t
  <2>4. Key(t) = Key(now) + 1
    <3>1. Key(now) + 1 \in Int /\ Window * (Key(now) + 1) <= t /\ t < Window * (Key(now) + 1) + Window
      BY <2>1, <2>2, <2>3
    <3> QED
      BY <2>2, <3>1, KeyIs
  <2>5. /\ refused'.seen > Limit /\ 0 < refused'.retry /\ refused'.retry <= Window
    BY <1>1, <2>1
  <2>6. Key(refused'.at + refused'.retry) = Key(refused'.at) + 1
    BY <1>1, <2>4 DEF t
  <2> QED
    BY <2>5, <2>6 DEF RefusedInv, NotRefused, Key
<1> QED
  BY <1>3, <1>4, <1>5, <1>6 DEF RateInv

LEMMA TickStep ==
    ASSUME RateInv, Tick
    PROVE  RateInv'
<1>1. /\ RateTypeOK /\ ExpiryInv /\ SlotsInv /\ RefusedInv /\ now' \in 0..MaxTime
      /\ counters' = counters /\ passed' = passed /\ backend' = backend
      /\ refused' = refused /\ restarts' = restarts
  BY RateConstants DEF RateInv, Tick, RateTypeOK
<1>2. RateTypeOK'
  BY <1>1 DEF RateTypeOK, Stores
<1>3. ExpiryInv'
  BY <1>1 DEF ExpiryInv, Stores, Keys, NoCount
<1>4. SlotsInv'
  BY <1>1 DEF SlotsInv, Slots, Live, PassedInKey, Forgotten, Key, Keys
<1>5. RefusedInv'
  BY <1>1 DEF RefusedInv, NotRefused, Key
<1> QED
  BY <1>2, <1>3, <1>4, <1>5 DEF RateInv

LEMMA RestartStep ==
    ASSUME RateInv, NEW p \in Servers, RestartServer(p)
    PROVE  RateInv'
<1>1. /\ RateTypeOK /\ ExpiryInv /\ SlotsInv /\ RefusedInv /\ now' = now
      /\ passed' = passed /\ backend' = backend /\ refused' = refused
      /\ restarts' = restarts + 1 /\ restarts \in Nat
      /\ counters' = [counters EXCEPT ![p] = [k \in Keys |-> NoCount]]
      /\ counters \in [Stores -> [Keys -> Hits]] /\ p \in Stores
  BY DEF RateInv, RestartServer, RateTypeOK, Stores
<1>c. NoCount \in Hits
  BY DEF NoCount, Hits
<1>2. RateTypeOK'
  <2>1. counters' \in [Stores -> [Keys -> Hits]]
    BY <1>1, <1>c
  <2> QED
    BY <1>1, <2>1 DEF RateTypeOK, Stores
<1>3. ExpiryInv'
  <2> SUFFICES ASSUME NEW x \in Stores, NEW k \in Keys
               PROVE  counters'[x][k] = NoCount \/ counters'[x][k].expires >= Window * k + Window
    BY DEF ExpiryInv, Stores, Keys, NoCount
  <2> QED
    BY <1>1 DEF ExpiryInv
<1>4. ASSUME backend = "redis" PROVE SlotsInv'
  <2>1. \A k \in Keys : Slots(k)' = Slots(k) /\ PassedInKey(k)' = PassedInKey(k)
    <3>1. Live = {Shared} /\ Live' = {Shared} /\ counters'[Shared] = counters[Shared]
      BY <1>1, <1>4, RateConstants DEF Live, Stores
    <3>2. \A k \in Keys : \A x \in Live \X (1..Limit) : counters'[x[1]][k] = counters[x[1]][k]
      BY <3>1
    <3> QED
      BY <1>1, <3>1, <3>2 DEF Slots, PassedInKey, Key
  <2>2. Forgotten' = Forgotten
    BY <1>1, <1>4 DEF Forgotten
  <2> QED
    BY <1>1, <2>1, <2>2 DEF SlotsInv, Keys
<1>5. ASSUME backend # "redis" PROVE SlotsInv'
  <2> SUFFICES ASSUME NEW k \in Keys
               PROVE  Cardinality(PassedInKey(k)') <= Cardinality(Slots(k)') + Forgotten'
    BY DEF SlotsInv, Keys
  <2> DEFINE Lost == {p} \X (1..Limit)
             Old == Slots(k)
  <2>1. PICK New : New = Slots(k)'
    OBVIOUS
  <2>2. IsFiniteSet(New) /\ Cardinality(New) \in Nat
    <3>1. Live' = Live
      BY <1>1 DEF Live
    <3>2. Slots(k)' \in SUBSET (Live \X (1..Limit))
      BY <3>1 DEF Slots
    <3>3. IsFiniteSet(Live \X (1..Limit))
      BY LiveFinite, PlacesFinite
    <3> QED
      BY <2>1, <3>2, <3>3, FS_Subset, FS_CardinalityType
  <2>3. IsFiniteSet(Lost) /\ Cardinality(Lost) = Limit /\ Limit \in Nat
    <3>1. IsFiniteSet({p}) /\ Cardinality({p}) = 1 /\ Limit \in Nat
      BY FS_Singleton, RateConstants
    <3>2. IsFiniteSet(Lost) /\ Cardinality(Lost) = 1 * Limit
      BY <3>1, PlacesFinite
    <3> QED
      BY <3>1, <3>2
  <2>4. Old \in SUBSET (New \cup Lost)
    <3>1. Live' = Live /\ Live = Servers
      BY <1>1, <1>5 DEF Live
    <3>2. \A x \in Servers : x # p => counters'[x][k] = counters[x][k]
      BY <1>1 DEF Stores
    <3>3. New = {x \in Servers \X (1..Limit) : x[2] <= counters'[x[1]][k].count}
      BY <2>1, <3>1 DEF Slots
    <3>4. Old = {x \in Servers \X (1..Limit) : x[2] <= counters[x[1]][k].count}
      BY <3>1 DEF Slots
    <3> HIDE DEF Old
    <3> QED
      BY <3>2, <3>3, <3>4
  <2>5. Cardinality(Old) \in Nat /\ IsFiniteSet(Old)
    BY SlotsFinite
  <2>6. Forgotten' = Forgotten + Limit /\ Forgotten \in Nat
    <3>1. Limit * (restarts + 1) = Limit * restarts + Limit
      BY <1>1, <2>3
    <3> QED
      BY <1>1, <1>5, <3>1, ForgottenType DEF Forgotten
  <2>7. Cardinality(PassedInKey(k)) <= Cardinality(Old) + Forgotten /\ PassedInKey(k)' = PassedInKey(k)
    BY <1>1 DEF SlotsInv, PassedInKey, Key
  <2>8. Cardinality(PassedInKey(k)) \in Nat
    BY <1>1, PassedFinite DEF PassedInKey
  <2> HIDE DEF Old, Lost
  <2>9. Cardinality(Old) <= Cardinality(New) + Cardinality(Lost)
    <3>1. IsFiniteSet(New \cup Lost) /\ Cardinality(New \cup Lost) =
             Cardinality(New) + Cardinality(Lost) - Cardinality(New \cap Lost)
      BY <2>2, <2>3, FS_Union
    <3>2. New \cap Lost \in SUBSET New
      OBVIOUS
    <3>3. Cardinality(New \cap Lost) \in Nat
      BY <2>2, <3>2, FS_Subset, FS_CardinalityType
    <3>4. Cardinality(Old) <= Cardinality(New \cup Lost)
      BY <2>4, <3>1, FS_Subset
    <3> QED
      BY <2>2, <2>3, <2>5, <3>1, <3>3, <3>4
  <2> QED
    BY <2>1, <2>2, <2>3, <2>5, <2>6, <2>7, <2>8, <2>9
<1>6. RefusedInv'
  BY <1>1 DEF RefusedInv, NotRefused, Key
<1> QED
  BY <1>2, <1>3, <1>4, <1>5, <1>6 DEF RateInv

LEMMA RateInitInv == RateInit => RateInv
<1> SUFFICES ASSUME RateInit PROVE RateInv
  OBVIOUS
<1>1. RateTypeOK
  <2>1. NoCount \in Hits /\ IsFiniteSet({})
    BY FS_EmptySet DEF NoCount, Hits
  <2> QED
    BY <2>1, RateAssumption DEF RateInit, RateTypeOK
<1>2. ExpiryInv
  BY DEF RateInit, ExpiryInv
<1>3. SlotsInv
  <2> SUFFICES ASSUME NEW k \in Keys
               PROVE  Cardinality(PassedInKey(k)) <= Cardinality(Slots(k)) + Forgotten
    BY DEF SlotsInv
  <2>1. PassedInKey(k) = {} /\ Cardinality({}) = 0
    BY FS_EmptySet DEF RateInit, PassedInKey
  <2>2. Cardinality(Slots(k)) \in Nat /\ Forgotten \in Nat
    BY <1>1, SlotsFinite, ForgottenType
  <2> QED
    BY <2>1, <2>2
<1>4. RefusedInv
  BY RateConstants DEF RateInit, RefusedInv, NotRefused
<1> QED
  BY <1>1, <1>2, <1>3, <1>4 DEF RateInv

LEMMA RateStep == RateInv /\ [RateNext]_rateVars => RateInv'
<1> SUFFICES ASSUME RateInv, [RateNext]_rateVars PROVE RateInv'
  OBVIOUS
<1>1. ASSUME NEW p \in Servers, Pass(p) PROVE RateInv'
  BY <1>1, PassStep
<1>2. ASSUME NEW p \in Servers, Refuse429(p) PROVE RateInv'
  BY <1>2, RefuseStep
<1>3. CASE Tick
  BY <1>3, TickStep
<1>4. ASSUME NEW p \in Servers, RestartServer(p) PROVE RateInv'
  BY <1>4, RestartStep
<1>5. CASE UNCHANGED rateVars
  BY <1>5 DEF rateVars, RateInv, RateTypeOK, ExpiryInv, SlotsInv, RefusedInv, Slots, Live,
              PassedInKey, Forgotten, Key, Keys, Stores, NoCount, NotRefused
<1> QED
  BY <1>1, <1>2, <1>3, <1>4, <1>5 DEF RateNext

\* What one window lets through.
LEMMA WindowShare ==
    ASSUME RateInv, NEW k \in Int
    PROVE  /\ IsFiniteSet(PassedInKey(k)) /\ Cardinality(PassedInKey(k)) \in Nat
           /\ Share \in Nat /\ Cardinality(PassedInKey(k)) <= Share
<1>1. RateTypeOK /\ SlotsInv /\ restarts \in Nat /\ Limit \in Nat
  BY RateConstants DEF RateInv, RateTypeOK
<1>2. IsFiniteSet(PassedInKey(k)) /\ Cardinality(PassedInKey(k)) \in Nat
  BY <1>1, PassedFinite DEF PassedInKey
<1>3. Share \in Nat /\ Cardinality(Live) * Limit + Forgotten = Share
  <2>1. Cardinality(Servers) \in Nat
        /\ Cardinality(Live) = IF backend = "redis" THEN 1 ELSE Cardinality(Servers)
    BY LiveFinite
  <2>2. CASE backend = "redis"
    BY <1>1, <2>1, <2>2 DEF Forgotten, Share
  <2>3. CASE backend # "redis"
    <3>1. Cardinality(Servers) * Limit + Limit * restarts = Limit * (Cardinality(Servers) + restarts)
          /\ Limit * (Cardinality(Servers) + restarts) \in Nat
      BY <1>1, <2>1
    <3> QED
      BY <2>1, <2>3, <3>1 DEF Forgotten, Share
  <2> QED
    BY <2>2, <2>3
<1>4. CASE k \in Keys
  <2>1. Cardinality(PassedInKey(k)) <= Cardinality(Slots(k)) + Forgotten
    BY <1>1, <1>4 DEF SlotsInv
  <2>2. /\ Cardinality(Slots(k)) \in Nat /\ Cardinality(Slots(k)) <= Cardinality(Live) * Limit
        /\ Cardinality(Live) * Limit \in Nat /\ Forgotten \in Nat
    BY <1>1, SlotsFinite, ForgottenType, LiveFinite
  <2> QED
    BY <1>2, <1>3, <2>1, <2>2
<1>5. CASE k \notin Keys
  <2>1. PassedInKey(k) = {}
    BY <1>1, <1>5, KeyInKeys DEF PassedInKey, RateTypeOK
  <2> QED
    BY <1>2, <1>3, <2>1, FS_EmptySet
<1> QED
  BY <1>2, <1>3, <1>4, <1>5

(* Per window of the clock a client gets through no more often than its limit, or once that for
   each process and restart where every process counts alone, and at most twice as often in
   any stretch of the same length; a 429 is given only beyond the limit and its Retry-After
   leads into the next window: every request let through holds a slot of a live counter that
   no other holds, or one that a restart forgot. *)
THEOREM WindowsKeep == RateSpec => []WindowsHold
<1>1. RateInit => RateInv
  BY RateInitInv
<1>2. RateInv /\ [RateNext]_rateVars => RateInv'
  BY RateStep
<1>3. RateInv => WindowsHold
  <2> SUFFICES ASSUME RateInv PROVE WindowsHold
    OBVIOUS
  <2>t. Window \in Nat /\ Window > 0 /\ MaxTime \in Nat
        /\ \A r \in passed : r.at \in 0..MaxTime
    BY RateConstants DEF RateInv, RateTypeOK
  <2>1. ASSUME NEW k \in Keys
        PROVE  PassedIn(Window * k, Window * k + Window - 1) <= Share
    <3>1. k \in Int /\ Window * k \in Int
      BY <2>t, KeysAreInts
    <3>2. {r \in passed : r.at \in Window * k..Window * k + Window - 1} \in SUBSET PassedInKey(k)
      <4> SUFFICES ASSUME NEW r \in passed, r.at \in Window * k..Window * k + Window - 1
                   PROVE  Key(r.at) = k
        BY DEF PassedInKey
      <4>1. r.at \in Int /\ Window * k <= r.at /\ r.at < Window * k + Window
        BY <2>t, <3>1
      <4> QED
        BY <3>1, <4>1, KeyIs
    <3>3. /\ IsFiniteSet(PassedInKey(k)) /\ Cardinality(PassedInKey(k)) \in Nat
          /\ Share \in Nat /\ Cardinality(PassedInKey(k)) <= Share
      BY <3>1, WindowShare
    <3>4. /\ PassedIn(Window * k, Window * k + Window - 1) \in Nat
          /\ PassedIn(Window * k, Window * k + Window - 1) <= Cardinality(PassedInKey(k))
      BY <3>2, <3>3, FS_Subset, FS_CardinalityType DEF PassedIn
    <3> QED
      BY <3>3, <3>4
  <2>2. ASSUME NEW t \in 0..MaxTime
        PROVE  PassedIn(t, t + Window - 1) <= 2 * Share
    <3> DEFINE k == Key(t)
               In == {r \in passed : r.at \in t..t + Window - 1}
               A == PassedInKey(k)
               B == PassedInKey(k + 1)
    <3>1. t \in Int /\ k \in Int /\ Window * k \in Int /\ Window * k <= t /\ t < Window * k + Window
          /\ Window * (k + 1) = Window * k + Window
      <4>1. t \in Int /\ k \in Int /\ Window * k <= t /\ t < Window * k + Window
        BY <2>t, KeyOf
      <4> QED
        BY <2>t, <4>1
    <3>2. In \in SUBSET (A \cup B)
      <4> SUFFICES ASSUME NEW r \in passed, r.at \in t..t + Window - 1
                   PROVE  Key(r.at) \in {k, k + 1}
        BY DEF PassedInKey
      <4>1. r.at \in Int /\ t <= r.at /\ r.at < t + Window
        BY <2>t, <3>1
      <4>2. CASE r.at < Window * k + Window
        BY <3>1, <4>1, <4>2, KeyIs
      <4>3. CASE ~(r.at < Window * k + Window)
        <5> HIDE DEF k
        <5>1. k + 1 \in Int /\ Window * (k + 1) <= r.at /\ r.at < Window * (k + 1) + Window
          BY <2>t, <3>1, <4>1, <4>3
        <5> QED
          BY <4>1, <5>1, KeyIs
      <4> QED
        BY <4>2, <4>3
    <3> HIDE DEF k
    <3>3. /\ IsFiniteSet(A) /\ Cardinality(A) \in Nat /\ Cardinality(A) <= Share
          /\ IsFiniteSet(B) /\ Cardinality(B) \in Nat /\ Cardinality(B) <= Share /\ Share \in Nat
      BY <3>1, WindowShare
    <3> HIDE DEF A, B
    <3>4. IsFiniteSet(A \cup B)
          /\ Cardinality(A \cup B) = Cardinality(A) + Cardinality(B) - Cardinality(A \cap B)
      BY <3>3, FS_Union
    <3>5. Cardinality(A \cap B) \in Nat
      <4>1. A \cap B \in SUBSET A
        OBVIOUS
      <4> QED
        BY <3>3, <4>1, FS_Subset, FS_CardinalityType
    <3>6. Cardinality(In) \in Nat /\ Cardinality(In) <= Cardinality(A \cup B)
      <4> HIDE DEF In
      <4> QED
        BY <3>2, <3>4, FS_Subset, FS_CardinalityType
    <3>7. PassedIn(t, t + Window - 1) = Cardinality(In)
      BY DEF PassedIn
    <3> QED
      BY <3>3, <3>4, <3>5, <3>6, <3>7
  <2>3. RefusedInv
    BY DEF RateInv
  <2> QED
    BY <2>1, <2>2, <2>3 DEF WindowsHold, RefusedInv
<1> QED
  BY <1>1, <1>2, <1>3, PTL DEF RateSpec

-----------------------------------------------------------------------------
(* The dashboard: for any number of documents, days shown and length of a day. *)

PaperRows == {Absent} \cup [created : Int, status : States]
Queries == {"totals", "since", "buckets", "trend", "distribution", "shown"}

DashboardTypeOK ==
    /\ tick \in Int /\ moved \in Nat /\ query \in Queries
    /\ paper \in [Papers -> PaperRows] /\ seen \in [Papers -> PaperRows]
    /\ stats = [documents |-> stats.documents, since |-> stats.since, days |-> stats.days,
                trend |-> stats.trend, distribution |-> stats.distribution]
    /\ stats.documents \in Nat /\ stats.since \in Int

\* Whatever midnight passed between the two looks at the clock: the days end with one that
\* had begun when the query's period was taken.
PeriodInv ==
    /\ query = "buckets" => stats.since <= tick - (Days - 1) * DayLength
    /\ query \in {"trend", "distribution", "shown"} =>
         \E a \in Int : /\ stats.days = a - (Days - 1)..a
                        /\ stats.since + (Days - 1) * DayLength < DayLength * a + DayLength

OnDay(day) == {d \in Present(seen) : seen[d].created >= stats.since /\ Day(seen[d].created) = day}

TrendInv ==
    query \in {"distribution", "shown"} =>
        \A day \in stats.days : stats.trend[day] = Cardinality(OnDay(day))

MovesInv ==
    /\ query # "totals" => Cardinality(Present(paper)) - stats.documents \in -moved..moved
    /\ query = "shown" => Counted - stats.documents \in -moved..moved

DashboardInv == DashboardTypeOK /\ PeriodInv /\ TrendInv /\ MovesInv

\* A time is on the day that began before it and ends after it.
LEMMA DayOf ==
    ASSUME NEW t \in Int
    PROVE  Day(t) \in Int /\ DayLength * Day(t) <= t /\ t < DayLength * Day(t) + DayLength
BY DashboardAssumption DEF Day

LEMMA PapersFinite ==
    \A S \in SUBSET Papers : IsFiniteSet(S) /\ Cardinality(S) \in Nat
BY DashboardAssumption, FS_Subset, FS_CardinalityType

LEMMA RowFields ==
    /\ Absent.status = "none"
    /\ \A row \in PaperRows : row = Absent \/ (row.created \in Int /\ row.status \in States)
    /\ \A row \in PaperRows : row.status = "uploaded" =>
         [row EXCEPT !.status = "ready"] \in PaperRows /\ [row EXCEPT !.status = "ready"] # Absent
BY DEF PaperRows, Absent, States

\* Every document there is has one of the states that are counted.
LEMMA StatesCounted ==
    ASSUME paper \in [Papers -> PaperRows]
    PROVE  Cardinality(Present(paper))
             = Cardinality({d \in Papers : paper[d].status = "uploaded"})
             + Cardinality({d \in Papers : paper[d].status = "ready"})
<1> DEFINE U == {d \in Papers : paper[d].status = "uploaded"}
           R == {d \in Papers : paper[d].status = "ready"}
<1>1. Present(paper) = U \cup R /\ U \cap R = {}
  BY RowFields DEF Present, States
<1>2. IsFiniteSet(U) /\ IsFiniteSet(R) /\ Cardinality(U) \in Nat /\ Cardinality(R) \in Nat
  BY PapersFinite
<1> HIDE DEF U, R
<1>3. Cardinality(U \cup R) = Cardinality(U) + Cardinality(R) - Cardinality({})
  BY <1>1, <1>2, FS_Union
<1>4. Cardinality(U \cup R) = Cardinality(U) + Cardinality(R)
  BY <1>2, <1>3, FS_EmptySet
<1> QED
  BY <1>1, <1>4 DEF U, R

LEMMA WiderRange ==
    ASSUME NEW m \in Nat, NEW n \in Nat, m <= n
    PROVE  \A y \in -m..m : y \in -n..n
OBVIOUS

\* A document comes, changes or goes.
LEMMA DocumentsMove ==
    ASSUME DashboardInv, paper' \in [Papers -> PaperRows], UNCHANGED <<tick, stats, query, seen>>,
           \/ moved' = moved /\ Present(paper') = Present(paper)
           \/ /\ moved' = moved + 1
              /\ \E d \in Papers : \/ Present(paper') = Present(paper) \cup {d}
                                   \/ Present(paper') = Present(paper) \ {d}
    PROVE  DashboardInv'
<1>0. DashboardTypeOK /\ PeriodInv /\ TrendInv /\ MovesInv
  BY DEF DashboardInv
<1>1. DashboardTypeOK'
  BY <1>0 DEF DashboardTypeOK
<1>2. PeriodInv'
  BY <1>0 DEF PeriodInv
<1>3. TrendInv'
  BY <1>0 DEF TrendInv, OnDay, Present
<1>4. Present(paper) \in SUBSET Papers /\ Present(paper') \in SUBSET Papers
  BY DEF Present
<1>5. /\ IsFiniteSet(Present(paper)) /\ Cardinality(Present(paper)) \in Nat
      /\ Cardinality(Present(paper')) \in Nat
  BY <1>4, PapersFinite
<1>6. /\ moved \in Nat /\ moved' \in Nat /\ moved' >= moved
      /\ Cardinality(Present(paper')) - Cardinality(Present(paper)) <= moved' - moved
      /\ Cardinality(Present(paper)) - Cardinality(Present(paper')) <= moved' - moved
  <2>1. CASE moved' = moved /\ Present(paper') = Present(paper)
    BY <1>0, <1>5, <2>1 DEF DashboardTypeOK
  <2>2. ASSUME moved' = moved + 1, NEW d \in Papers, Present(paper') = Present(paper) \cup {d}
        PROVE  <1>6!:
    <3>1. Cardinality(Present(paper) \cup {d})
            = IF d \in Present(paper) THEN Cardinality(Present(paper)) ELSE Cardinality(Present(paper)) + 1
      BY <1>5, FS_AddElement
    <3> QED
      BY <1>0, <1>5, <2>2, <3>1 DEF DashboardTypeOK
  <2>3. ASSUME moved' = moved + 1, NEW d \in Papers, Present(paper') = Present(paper) \ {d}
        PROVE  <1>6!:
    <3>1. Cardinality(Present(paper) \ {d})
            = IF d \in Present(paper) THEN Cardinality(Present(paper)) - 1 ELSE Cardinality(Present(paper))
      BY <1>5, FS_RemoveElement
    <3> QED
      BY <1>0, <1>5, <2>3, <3>1 DEF DashboardTypeOK
  <2> QED
    BY <2>1, <2>2, <2>3
<1>7. MovesInv'
  <2>1. \A y \in -moved..moved : y \in -moved'..moved'
    BY <1>6, WiderRange
  <2>2. ASSUME query # "totals" PROVE Cardinality(Present(paper')) - stats.documents \in -moved'..moved'
    <3>1. Cardinality(Present(paper)) - stats.documents \in -moved..moved /\ stats.documents \in Nat
      BY <1>0, <2>2 DEF MovesInv, DashboardTypeOK
    <3> QED
      BY <1>5, <1>6, <3>1
  <2>3. Counted' = Counted
    BY DEF Counted
  <2> QED
    BY <1>0, <2>1, <2>2, <2>3 DEF MovesInv
<1> QED
  BY <1>1, <1>2, <1>3, <1>7 DEF DashboardInv

\* The record is filled field by field.
LEMMA StatsFields ==
    ASSUME DashboardTypeOK, NEW x
    PROVE  LET all == [documents |-> stats.documents, since |-> stats.since, days |-> stats.days,
                       trend |-> stats.trend, distribution |-> stats.distribution]
           IN /\ [stats EXCEPT !.since = x] = [all EXCEPT !.since = x]
              /\ [stats EXCEPT !.days = x] = [all EXCEPT !.days = x]
              /\ [stats EXCEPT !.trend = x] = [all EXCEPT !.trend = x]
              /\ [stats EXCEPT !.distribution = x] = [all EXCEPT !.distribution = x]
BY DEF DashboardTypeOK

LEMMA ReadTotalsStep ==
    ASSUME DashboardInv, ReadTotals
    PROVE  DashboardInv'
<1>0. DashboardTypeOK
  BY DEF DashboardInv
<1>1. /\ query' = "since" /\ moved' = 0 /\ tick' = tick /\ paper' = paper /\ seen' = seen
      /\ stats' = [NoStats EXCEPT !.documents = Cardinality(Present(paper))]
  BY DEF ReadTotals
<1>2. Cardinality(Present(paper)) \in Nat
  BY PapersFinite DEF Present
<1>3. stats'.documents = Cardinality(Present(paper)) /\ stats'.since = 0
      /\ stats' = [documents |-> stats'.documents, since |-> stats'.since, days |-> stats'.days,
                   trend |-> stats'.trend, distribution |-> stats'.distribution]
  BY <1>1 DEF NoStats
<1>4. DashboardTypeOK'
  BY <1>0, <1>1, <1>2, <1>3 DEF DashboardTypeOK, Queries
<1>5. PeriodInv' /\ TrendInv'
  BY <1>1 DEF PeriodInv, TrendInv
<1>6. MovesInv'
  BY <1>1, <1>2, <1>3 DEF MovesInv
<1> QED
  BY <1>4, <1>5, <1>6 DEF DashboardInv

LEMMA TakeSinceStep ==
    ASSUME DashboardInv, TakeSince
    PROVE  DashboardInv'
<1>0. DashboardTypeOK /\ MovesInv
  BY DEF DashboardInv
<1>1. /\ query = "since" /\ query' = "buckets" /\ UNCHANGED <<tick, paper, moved, seen>>
      /\ stats' = [stats EXCEPT !.since = Since]
  BY DEF TakeSince
<1>2. stats' = [documents |-> stats.documents, since |-> Since, days |-> stats.days,
                trend |-> stats.trend, distribution |-> stats.distribution]
  BY <1>0, <1>1, StatsFields, ZenonT(30)
<1>3. Since \in Int
  BY <1>0, DashboardAssumption DEF Since, DashboardTypeOK
<1>4. DashboardTypeOK'
  BY <1>0, <1>1, <1>2, <1>3 DEF DashboardTypeOK, Queries
<1>5. PeriodInv' /\ TrendInv'
  BY <1>1, <1>2, <1>3 DEF PeriodInv, TrendInv, Since
<1>6. MovesInv'
  BY <1>0, <1>1, <1>2 DEF MovesInv
<1> QED
  BY <1>4, <1>5, <1>6 DEF DashboardInv

LEMMA EmptyTrendStep ==
    ASSUME DashboardInv, EmptyTrend
    PROVE  DashboardInv'
<1>0. DashboardTypeOK /\ MovesInv /\ PeriodInv
  BY DEF DashboardInv
<1> DEFINE days == Day(tick) - (Days - 1)..Day(tick)
<1>1. /\ query = "buckets" /\ query' = "trend" /\ UNCHANGED <<tick, paper, moved, seen>>
      /\ stats' = [stats EXCEPT !.days = days]
  BY DEF EmptyTrend
<1> HIDE DEF days
<1>2. stats' = [documents |-> stats.documents, since |-> stats.since, days |-> days,
                trend |-> stats.trend, distribution |-> stats.distribution]
  BY <1>0, <1>1, StatsFields, ZenonT(30)
<1>3. DashboardTypeOK'
  BY <1>0, <1>1, <1>2 DEF DashboardTypeOK, Queries
<1>4. Day(tick) \in Int /\ stats.since + (Days - 1) * DayLength < DayLength * Day(tick) + DayLength
  <2>1. stats.since <= tick - (Days - 1) * DayLength /\ tick \in Int /\ stats.since \in Int
    BY <1>0, <1>1 DEF PeriodInv, DashboardTypeOK
  <2>2. Day(tick) \in Int /\ tick < DayLength * Day(tick) + DayLength
    BY <2>1, DayOf
  <2>3. (Days - 1) * DayLength \in Int /\ DayLength * Day(tick) + DayLength \in Int
    BY <2>2, DashboardAssumption
  <2> QED
    BY <2>1, <2>2, <2>3
<1>5. PeriodInv' /\ TrendInv'
  <2>1. \E a \in Int : /\ stats'.days = a - (Days - 1)..a
                       /\ stats'.since + (Days - 1) * DayLength < DayLength * a + DayLength
    BY <1>2, <1>4 DEF days
  <2> QED
    BY <1>1, <2>1 DEF PeriodInv, TrendInv
<1>6. MovesInv'
  BY <1>0, <1>1, <1>2 DEF MovesInv
<1> QED
  BY <1>3, <1>5, <1>6 DEF DashboardInv

LEMMA TrendStep ==
    ASSUME DashboardInv, Trend
    PROVE  DashboardInv'
<1>0. DashboardTypeOK /\ MovesInv /\ PeriodInv
  BY DEF DashboardInv
<1> DEFINE trend == [day \in stats.days |->
                    Cardinality({d \in Present(paper) : paper[d].created >= stats.since
                                                        /\ Day(paper[d].created) = day})]
<1>1. /\ query = "trend" /\ query' = "distribution" /\ UNCHANGED <<tick, paper, moved>> /\ seen' = paper
      /\ stats' = [stats EXCEPT !.trend = trend]
  BY DEF Trend
<1>2. \A day \in stats.days :
        trend[day] = Cardinality({d \in Present(paper) : paper[d].created >= stats.since
                                                        /\ Day(paper[d].created) = day})
  OBVIOUS
<1> HIDE DEF trend
<1>3. stats' = [documents |-> stats.documents, since |-> stats.since, days |-> stats.days,
                trend |-> trend, distribution |-> stats.distribution]
  BY <1>0, <1>1 DEF DashboardTypeOK
<1>4. DashboardTypeOK'
  BY <1>0, <1>1, <1>3 DEF DashboardTypeOK, Queries
<1>5. PeriodInv'
  BY <1>0, <1>1, <1>3 DEF PeriodInv
<1>6. TrendInv'
  BY <1>1, <1>2, <1>3 DEF TrendInv, OnDay, Present
<1>7. MovesInv'
  BY <1>0, <1>1, <1>3 DEF MovesInv
<1> QED
  BY <1>4, <1>5, <1>6, <1>7 DEF DashboardInv

LEMMA DistributionStep ==
    ASSUME DashboardInv, Distribution
    PROVE  DashboardInv'
<1>0. DashboardTypeOK /\ MovesInv /\ PeriodInv /\ TrendInv
  BY DEF DashboardInv
<1> DEFINE dist == [s \in States |-> Cardinality({d \in Papers : paper[d].status = s})]
<1>1. /\ query = "distribution" /\ query' = "shown" /\ UNCHANGED <<tick, paper, moved, seen>>
      /\ stats' = [stats EXCEPT !.distribution = dist]
  BY DEF Distribution
<1>2. dist["uploaded"] + dist["ready"] = Cardinality(Present(paper))
  BY <1>0, StatesCounted DEF DashboardTypeOK, States
<1> HIDE DEF dist
<1>3. stats' = [documents |-> stats.documents, since |-> stats.since, days |-> stats.days,
                trend |-> stats.trend, distribution |-> dist]
  BY <1>0, <1>1 DEF DashboardTypeOK
<1>4. DashboardTypeOK'
  BY <1>0, <1>1, <1>3 DEF DashboardTypeOK, Queries
<1>5. PeriodInv'
  BY <1>0, <1>1, <1>3 DEF PeriodInv
<1>6. TrendInv'
  BY <1>0, <1>1, <1>3 DEF TrendInv, OnDay, Present
<1>7. MovesInv'
  <2>1. Counted' = Cardinality(Present(paper')) /\ stats'.documents = stats.documents
    BY <1>1, <1>2, <1>3 DEF Counted
  <2>2. Cardinality(Present(paper')) - stats'.documents \in -moved'..moved'
    BY <1>0, <1>1, <2>1 DEF MovesInv
  <2> QED
    BY <2>1, <2>2 DEF MovesInv
<1> QED
  BY <1>4, <1>5, <1>6, <1>7 DEF DashboardInv

LEMMA DashboardStep == DashboardInv /\ [DashboardNext]_dashboardVars => DashboardInv'
<1> SUFFICES ASSUME DashboardInv, [DashboardNext]_dashboardVars PROVE DashboardInv'
  OBVIOUS
<1>0. DashboardTypeOK /\ MovesInv /\ PeriodInv /\ TrendInv
  BY DEF DashboardInv
<1>p. \A d \in Papers : paper[d] \in PaperRows
  BY <1>0 DEF DashboardTypeOK
<1>1. ASSUME NEW d \in Papers, Come(d) PROVE DashboardInv'
  <2>0. /\ \E t \in tick - (Days - 1) * DayLength..tick :
             paper' = [paper EXCEPT ![d] = [created |-> t, status |-> "uploaded"]]
        /\ moved' = moved + 1 /\ UNCHANGED <<tick, stats, query, seen>>
    BY <1>1 DEF Come
  <2>t. PICK t \in tick - (Days - 1) * DayLength..tick :
             paper' = [paper EXCEPT ![d] = [created |-> t, status |-> "uploaded"]]
    BY <2>0
  <2>1. t \in Int /\ paper' = [paper EXCEPT ![d] = [created |-> t, status |-> "uploaded"]]
    BY <2>t
  <2>2. [created |-> t, status |-> "uploaded"] \in PaperRows /\ [created |-> t, status |-> "uploaded"] # Absent
    BY DEF PaperRows, States, Absent
  <2>3. paper' \in [Papers -> PaperRows] /\ Present(paper') = Present(paper) \cup {d}
    BY <1>0, <2>1, <2>2 DEF DashboardTypeOK, Present
  <2> QED
    BY <2>0, <2>3, DocumentsMove
<1>2. ASSUME NEW d \in Papers, Change(d) PROVE DashboardInv'
  <2>1. /\ paper' = [paper EXCEPT ![d] = [paper[d] EXCEPT !.status = "ready"]]
        /\ paper[d].status = "uploaded" /\ UNCHANGED <<tick, stats, query, moved, seen>>
    BY <1>2 DEF Change
  <2>2. /\ [paper[d] EXCEPT !.status = "ready"] \in PaperRows
        /\ [paper[d] EXCEPT !.status = "ready"] # Absent /\ paper[d] # Absent
    BY <1>p, <2>1, RowFields
  <2>3. paper' \in [Papers -> PaperRows] /\ Present(paper') = Present(paper)
    BY <1>0, <2>1, <2>2 DEF DashboardTypeOK, Present
  <2> QED
    BY <2>1, <2>3, DocumentsMove
<1>3. ASSUME NEW d \in Papers, Go(d) PROVE DashboardInv'
  <2>1. /\ paper' = [paper EXCEPT ![d] = Absent]
        /\ moved' = moved + 1 /\ UNCHANGED <<tick, stats, query, seen>>
    BY <1>3 DEF Go
  <2>2. paper' \in [Papers -> PaperRows] /\ Present(paper') = Present(paper) \ {d}
    BY <1>0, <2>1 DEF DashboardTypeOK, Present, PaperRows
  <2> QED
    BY <2>1, <2>2, DocumentsMove
<1>4. CASE Ticks
  <2>1. tick' = tick + 1 /\ tick \in Int /\ UNCHANGED <<paper, stats, query, moved, seen>>
    BY <1>0, <1>4 DEF Ticks, DashboardTypeOK
  <2>2. DashboardTypeOK'
    BY <1>0, <2>1 DEF DashboardTypeOK
  <2>3. PeriodInv'
    <3>1. (Days - 1) * DayLength \in Int /\ stats.since \in Int
      BY <1>0, DashboardAssumption DEF DashboardTypeOK
    <3>2. query' = "buckets" => stats'.since <= tick' - (Days - 1) * DayLength
      BY <1>0, <2>1, <3>1 DEF PeriodInv
    <3> QED
      BY <1>0, <2>1, <3>2 DEF PeriodInv
  <2>4. TrendInv' /\ MovesInv'
    BY <1>0, <2>1 DEF TrendInv, OnDay, Present, MovesInv, Counted
  <2> QED
    BY <2>2, <2>3, <2>4 DEF DashboardInv
<1>5. CASE Reload
  <2>1. query' = "totals" /\ UNCHANGED <<tick, paper, stats, moved, seen>>
    BY <1>5 DEF Reload
  <2> QED
    BY <1>0, <2>1 DEF DashboardInv, DashboardTypeOK, Queries, PeriodInv, TrendInv, MovesInv
<1>6. CASE UNCHANGED dashboardVars
  <2>1. UNCHANGED <<tick, paper, stats, query, moved, seen>>
    BY <1>6 DEF dashboardVars
  <2> QED
    BY <1>0, <2>1 DEF DashboardInv, DashboardTypeOK, PeriodInv, TrendInv, OnDay, Present, MovesInv, Counted
<1> QED
  BY <1>1, <1>2, <1>3, <1>4, <1>5, <1>6, ReadTotalsStep, TakeSinceStep, EmptyTrendStep, TrendStep,
     DistributionStep DEF DashboardNext

LEMMA DashboardInitially == DashboardInit => DashboardInv
<1> SUFFICES ASSUME DashboardInit PROVE DashboardInv
  OBVIOUS
<1>1. /\ tick = (Days - 1) * DayLength /\ paper = [d \in Papers |-> Absent] /\ seen = paper
      /\ stats = NoStats /\ query = "totals" /\ moved = 0
  BY DEF DashboardInit
<1>2. stats.documents = 0 /\ stats.since = 0
      /\ stats = [documents |-> stats.documents, since |-> stats.since, days |-> stats.days,
                  trend |-> stats.trend, distribution |-> stats.distribution]
  BY <1>1 DEF NoStats
<1>3. DashboardTypeOK
  BY <1>1, <1>2, DashboardAssumption DEF DashboardTypeOK, PaperRows, Queries
<1>4. PeriodInv /\ TrendInv /\ MovesInv
  BY <1>1 DEF PeriodInv, TrendInv, MovesInv
<1> QED
  BY <1>3, <1>4 DEF DashboardInv

\* A document of a day that is shown after another was created within the period.
LEMMA WholeDays ==
    ASSUME DashboardInv, query \in {"distribution", "shown"}, NEW day \in stats.days,
           day - 1 \in stats.days, NEW t \in Int, Day(t) = day
    PROVE  t >= stats.since
<1>1. PICK a \in Int : /\ stats.days = a - (Days - 1)..a
                      /\ stats.since + (Days - 1) * DayLength < DayLength * a + DayLength
  BY DEF DashboardInv, PeriodInv
<1>2. stats.since \in Int /\ Days \in Nat \ {0} /\ DayLength \in Nat \ {0}
  BY DashboardAssumption DEF DashboardInv, DashboardTypeOK
<1>3. day \in Int /\ day >= a + 1 - (Days - 1)
  BY <1>1, <1>2
<1>4. DayLength * day <= t
  BY DayOf
<1>5. DayLength * (a + 1 - (Days - 1)) <= DayLength * day
  BY <1>2, <1>3
<1>6. DayLength * (a + 1 - (Days - 1)) = DayLength * a + DayLength - (Days - 1) * DayLength
  BY <1>2
<1> DEFINE x == DayLength * a
           y == (Days - 1) * DayLength
           z == DayLength * day
<1>7. x \in Int /\ y \in Int /\ z \in Int
  BY <1>2, <1>3
<1>8. stats.since + y < x + DayLength
  BY <1>1
<1>9. x + DayLength - y <= z
  BY <1>5, <1>6
<1>10. z <= t
  BY <1>4
<1> HIDE DEF x, y, z
<1> QED
  BY <1>2, <1>7, <1>8, <1>9, <1>10

(* Every day of the trend but the oldest has all documents created on it, whenever midnight
   passes between the two looks at the clock, and the numbers of one page differ by no more
   documents than came or went: the days end with one that had begun when the period did. *)
THEOREM DaysAreCounted == DashboardSpec => []TrendCountsDays
<1>1. DashboardInv => TrendCountsDays
  <2> SUFFICES ASSUME DashboardInv, query \in {"distribution", "shown"} PROVE TrendCountsDays
    BY DEF TrendCountsDays
  <2>1. ASSUME NEW day \in stats.days
        PROVE  /\ stats.trend[day] <= Cardinality(CreatedOn(day))
               /\ day - 1 \in stats.days => stats.trend[day] = Cardinality(CreatedOn(day))
    <3>1. stats.trend[day] = Cardinality(OnDay(day))
      BY DEF DashboardInv, TrendInv
    <3>2. OnDay(day) \in SUBSET CreatedOn(day) /\ CreatedOn(day) \in SUBSET Papers
      BY DEF OnDay, CreatedOn, Present
    <3>3. Cardinality(OnDay(day)) <= Cardinality(CreatedOn(day))
      BY <3>2, PapersFinite, FS_Subset
    <3>4. ASSUME day - 1 \in stats.days PROVE OnDay(day) = CreatedOn(day)
      <4>1. ASSUME NEW d \in CreatedOn(day) PROVE seen[d].created >= stats.since
        <5>1. d \in Papers /\ seen[d] # Absent /\ seen[d] \in PaperRows
          BY DEF Present, CreatedOn, DashboardInv, DashboardTypeOK
        <5>2. seen[d].created \in Int /\ Day(seen[d].created) = day
          BY <5>1, RowFields DEF CreatedOn
        <5> QED
          BY <3>4, <5>2, WholeDays
      <4> QED
        BY <4>1 DEF OnDay, CreatedOn
    <3> QED
      BY <3>1, <3>3, <3>4
  <2>2. query = "shown" => Counted - stats.documents \in -moved..moved
    BY DEF DashboardInv, MovesInv
  <2> QED
    BY <2>1, <2>2 DEF TrendCountsDays
<1> QED
  BY <1>1, DashboardInitially, DashboardStep, PTL DEF DashboardSpec

-----------------------------------------------------------------------------
(* The prompt and its answer: for any budget, any documents and any answer of the model. *)

\* What holds of 0, and of a number's successor, holds of all numbers up to m.
LEMMA UpTo ==
    ASSUME NEW m \in Nat, NEW S, 0 \in S, \A n \in 0..(m-1) : n \in S => n + 1 \in S
    PROVE  m \in S
<1> DEFINE R == {ss \in Nat \X Nat : ss[1] < ss[2]}
           Bad == {n \in 0..m : n \notin S}
<1>1. IsWellFoundedOn(R, Nat) /\ Bad \subseteq Nat
  BY NatOrder
<1>2. ASSUME Bad # {} PROVE FALSE
  <2>1. PICK n \in Bad : \A y \in Bad : ~ (<<y, n>> \in R)
    <3> HIDE DEF R, Bad
    <3> QED
      BY <1>1, <1>2, WFMin
  <2>2. n \in 0..m /\ n \notin S /\ n # 0
    OBVIOUS
  <2>3. n - 1 \in 0..(m-1) /\ n - 1 \in 0..m /\ (n - 1) + 1 = n /\ <<n - 1, n>> \in R
    BY <2>2
  <2>4. n - 1 \in S
    BY <2>1, <2>3
  <2>5. (n - 1) + 1 \in S
    BY <2>3, <2>4
  <2> QED
    BY <2>2, <2>3, <2>5
<1>3. m \in 0..m
  OBVIOUS
<1> QED
  BY <1>2, <1>3

IsUsed(f, lens, m) == f = [n \in 0..m |-> IF n = 0 THEN 0 ELSE f[n - 1] + lens[n]]

LEMMA UsedExists ==
    ASSUME NEW lens \in Seq(Nat)
    PROVE  \E f \in [0..Len(lens) -> Nat] : IsUsed(f, lens, Len(lens))
<1> DEFINE S == {m \in Nat : \E f \in [0..m -> Nat] : IsUsed(f, lens, m)}
<1>1. 0 \in S
  <2> DEFINE f == [n \in 0..0 |-> 0]
  <2>1. f \in [0..0 -> Nat] /\ f = [n \in 0..0 |-> IF n = 0 THEN 0 ELSE f[n - 1] + lens[n]]
    OBVIOUS
  <2> QED
    BY <2>1 DEF IsUsed
<1>2. ASSUME NEW k \in 0..(Len(lens) - 1), k \in S PROVE k + 1 \in S
  <2>1. PICK g \in [0..k -> Nat] : IsUsed(g, lens, k)
    BY <1>2
  <2> DEFINE m == k + 1
             f == [n \in 0..m |-> IF n = m THEN g[k] + lens[m] ELSE g[n]]
  <2>2. f \in [0..m -> Nat]
    BY <1>2
  <2>3. ASSUME NEW n \in 0..m PROVE f[n] = IF n = 0 THEN 0 ELSE f[n-1] + lens[n]
    <3>1. CASE n = m
      BY <1>2, <3>1
    <3>2. CASE n # m
      <4>1. n \in 0..k /\ (n # 0 => n - 1 \in 0..k /\ n - 1 # m)
        BY <1>2, <3>2
      <4>2. g[n] = IF n = 0 THEN 0 ELSE g[n-1] + lens[n]
        BY <2>1, <4>1 DEF IsUsed
      <4> QED
        BY <4>1, <4>2, <1>2, <3>2
    <3> QED
      BY <3>1, <3>2
  <2>4. f = [n \in 0..m |-> IF n = 0 THEN 0 ELSE f[n-1] + lens[n]]
    BY <2>3
  <2>5. IsUsed(f, lens, m)
    <3> HIDE DEF f
    <3> QED
      BY <2>4 DEF IsUsed
  <2>6. m \in Nat
    BY <1>2
  <2> HIDE DEF f
  <2> QED
    BY <2>2, <2>5, <2>6
<1>3. PICK l \in Nat : l = Len(lens)
  OBVIOUS
<1> HIDE DEF S
<1>4. l \in S
  <2>1. \A k \in 0..(l - 1) : k \in S => k + 1 \in S
    BY <1>2, <1>3
  <2> QED
    BY <1>1, <2>1, UpTo
<1> QED
  BY <1>3, <1>4 DEF S

LEMMA UsedNumbers ==
    ASSUME NEW lens \in Seq(Nat)
    PROVE  Used(lens)[0] = 0 /\ \A n \in 0..Len(lens) : Used(lens)[n] \in Nat
<1> DEFINE u == Used(lens)
           S == {n \in Nat : u[n] \in Nat}
<1>1. PICK f : IsUsed(f, lens, Len(lens))
  BY UsedExists
<1>2. u = CHOOSE g : IsUsed(g, lens, Len(lens))
  BY DEF Used, IsUsed
<1>3. IsUsed(u, lens, Len(lens)) /\ Len(lens) \in Nat
  BY <1>1, <1>2
<1> HIDE DEF u
<1>4. u[0] = 0
  BY <1>3 DEF IsUsed
<1>5. ASSUME NEW n \in 0..Len(lens) PROVE u[n] \in Nat
  <2>1. 0 \in S
    BY <1>4
  <2>2. ASSUME NEW k \in 0..(n - 1), k \in S PROVE k + 1 \in S
    <3>1. k + 1 \in 0..Len(lens) /\ k + 1 # 0 /\ (k + 1) - 1 = k /\ lens[k + 1] \in Nat /\ k \in Nat
      BY <1>3
    <3>2. u[k + 1] = u[k] + lens[k + 1]
      BY <1>3, <3>1 DEF IsUsed
    <3> QED
      BY <2>2, <3>1, <3>2
  <2>3. n \in Nat
    BY <1>3
  <2> HIDE DEF S
  <2>4. n \in S
    BY <2>1, <2>2, <2>3, UpTo
  <2> QED
    BY <2>4 DEF S
<1> QED
  BY <1>4, <1>5 DEF u

\* What is taken of a document is its beginning, as much of it as fits.
LEMMA ContextFits ==
    ASSUME NEW lens \in Seq(Nat), NEW limit \in 0..Budget,
           NEW share, share = IF limit = 0 THEN Budget ELSE limit
    PROVE  \E n \in 0..Len(lens) : /\ DocumentContext(lens, limit) = [i \in 1..n |-> i]
                                   /\ Used(lens)[n] <= share
                                   /\ n < Len(lens) => Used(lens)[n + 1] > share
<1> DEFINE budget == IF limit = 0 THEN Budget ELSE limit
           Fits(n) == Used(lens)[n] <= budget
           Most(k) == (\A j \in 1..k : Fits(j)) /\ (k < Len(lens) => ~Fits(k + 1))
           n == CHOOSE k \in 0..Len(lens) : Most(k)
<1>b. budget \in 0..Budget /\ Budget \in Nat /\ Len(lens) \in Nat
  BY ContentAssumption
<1>1. \E k \in 0..Len(lens) : Most(k)
  <2> SUFFICES ASSUME \A k \in 0..Len(lens) : ~Most(k) PROVE FALSE
    OBVIOUS
  <2> DEFINE S == {k \in 0..Len(lens) : \A j \in 1..k : Fits(j)}
  <2>1. 0 \in S
    BY <1>b
  <2>2. ASSUME NEW k \in 0..(Len(lens) - 1), k \in S PROVE k + 1 \in S
    <3>1. Fits(k + 1)
      BY <1>b, <2>2
    <3>2. k + 1 \in 0..Len(lens) /\ \A j \in 1..(k + 1) : j \in 1..k \/ j = k + 1
      BY <1>b, <2>2
    <3>3. \A j \in 1..k : Fits(j)
      BY <2>2
    <3> HIDE DEF Fits
    <3>4. \A j \in 1..(k + 1) : Fits(j)
      BY <3>1, <3>2, <3>3
    <3> QED
      BY <3>2, <3>4
  <2>3. Len(lens) \in S
    <3> HIDE DEF S
    <3> QED
      BY <1>b, <2>1, <2>2, UpTo
  <2> QED
    BY <1>b, <2>3
<1>2. n \in 0..Len(lens) /\ Most(n)
  <2> HIDE DEF Most
  <2> QED
    BY <1>1
<1>3. DocumentContext(lens, limit) = [i \in 1..n |-> i]
  BY DEF DocumentContext
<1> HIDE DEF n
<1>4. Used(lens)[n] <= share
  <2>1. CASE n = 0
    BY <2>1, <1>b, UsedNumbers
  <2>2. CASE n # 0
    <3>1. n \in 1..n
      BY <1>2, <2>2, <1>b
    <3>2. Used(lens)[n] <= budget
      BY <1>2, <3>1
    <3>3. Used(lens)[n] \in Nat
      BY <1>2, UsedNumbers
    <3> QED
      BY <3>2, <3>3, <1>b
  <2> QED
    BY <2>1, <2>2
<1>5. ASSUME n < Len(lens) PROVE Used(lens)[n + 1] > share
  <2>1. n + 1 \in 0..Len(lens) /\ ~(Used(lens)[n + 1] <= budget)
    BY <1>2, <1>5, <1>b
  <2>2. Used(lens)[n + 1] \in Nat /\ budget = share
    BY <2>1, UsedNumbers
  <2> QED
    BY <2>1, <2>2, <1>b
<1> QED
  BY <1>2, <1>3, <1>4, <1>5

\* The job, its prompt and its result belong together.
ContentInv ==
    /\ job # NoJob => /\ job.type \in Types
                      /\ \E d, other \in Documents : job.params = ParamsOf(job.type, d, other)
    /\ prompt # NoPrompt => job # NoJob /\ prompt = BuildPrompt(job)
    /\ result # None => /\ job # NoJob
                        /\ answer \in Answers[job.type] /\ result = ShapeResult(job.type, answer)

LEMMA ContentInitially == ContentInit => ContentInv
BY DEF ContentInit, ContentInv

LEMMA ContentStep == ContentInv /\ [ContentNext]_contentVars => ContentInv'
<1> SUFFICES ASSUME ContentInv, [ContentNext]_contentVars PROVE ContentInv'
  OBVIOUS
<1>1. ASSUME NEW t \in Types, NEW d \in Documents, NEW other \in Documents, Request(t, d, other)
      PROVE  ContentInv'
  <2>1. /\ job' = [type |-> t, params |-> ParamsOf(t, d, other)]
        /\ prompt' = NoPrompt /\ result' = None
    BY <1>1 DEF Request, ContentInv
  <2> QED
    BY <2>1 DEF ContentInv
<1>2. CASE Ask
  BY <1>2 DEF Ask, ContentInv
<1>3. ASSUME job # NoJob, NEW raw \in Answers[job.type], Answer(raw) PROVE ContentInv'
  BY <1>3 DEF Answer, ContentInv
<1>4. CASE Build \/ (\E fmt \in Formats : RenderTo(fmt)) \/ UNCHANGED contentVars
  <2>1. job' = job /\ prompt' = prompt /\ answer' = answer /\ result' = result
    BY <1>4 DEF Build, RenderTo, contentVars
  <2> QED
    BY <2>1 DEF ContentInv
<1> QED
  BY <1>1, <1>2, <1>3, <1>4 DEF ContentNext

\* Where JSON is asked for, there is a schema, of keys whose defaults are no null.
LEMMA SchemaKeys ==
    /\ DOMAIN JsonSchemas = {"keypoints", "quiz", "extract", "compare"}
    /\ \A t \in DOMAIN JsonSchemas : \A k \in DOMAIN JsonSchemas[t] : JsonSchemas[t][k] # Null
<1>1. DOMAIN JsonSchemas = {"keypoints", "quiz", "extract", "compare"}
  BY DEF JsonSchemas
<1>2. List(<<>>) # Null /\ Text(<<>>) # Null
  <2>1. List(<<>>).is = "list" /\ Text(<<>>).is = "text" /\ Null.is = "null"
    BY DEF List, Text, Null
  <2> QED
    BY <2>1
<1>3. \A k \in DOMAIN JsonSchemas["keypoints"] : JsonSchemas["keypoints"][k] # Null
  BY <1>2 DEF JsonSchemas
<1>4. \A k \in DOMAIN JsonSchemas["quiz"] : JsonSchemas["quiz"][k] # Null
  BY <1>2 DEF JsonSchemas
<1>5. \A k \in DOMAIN JsonSchemas["extract"] : JsonSchemas["extract"][k] # Null
  BY <1>2 DEF JsonSchemas
<1>6. \A k \in DOMAIN JsonSchemas["compare"] : JsonSchemas["compare"][k] # Null
  BY <1>2 DEF JsonSchemas
<1> QED
  BY <1>1, <1>3, <1>4, <1>5, <1>6

LEMMA ParsedHasKeys ==
    ASSUME NEW raw, NEW keys, \A k \in DOMAIN keys : keys[k] # Null
    PROVE  LET d == ParseJsonObject(raw, keys) IN
           /\ DOMAIN keys \subseteq DOMAIN d.fields
           /\ \A k \in DOMAIN d.fields : d.fields[k] # Null
           /\ ParseJson(raw).is = "dict" =>
                \A k \in DOMAIN keys \cap DOMAIN ParseJson(raw).fields :
                    ParseJson(raw).fields[k] \in {d.fields[k], Null}
           /\ ParseJson(raw).is # "dict" =>
                "raw" \in DOMAIN d.fields /\ d.fields["raw"] = Text(raw.text)
<1> DEFINE d == ParseJsonObject(raw, keys)
           parsed == ParseJson(raw)
<1>1. CASE parsed.is = "dict"
  <2>1. d.fields = [k \in DOMAIN keys |->
                  IF Get(parsed, k, keys[k]) = Null THEN keys[k] ELSE Get(parsed, k, keys[k])]
    BY <1>1 DEF ParseJsonObject, Dict
  <2>2. \A k \in DOMAIN parsed.fields : \A x : Get(parsed, k, x) = parsed.fields[k]
    BY DEF Get
  <2> HIDE DEF d, parsed
  <2>3. DOMAIN d.fields = DOMAIN keys
    BY <2>1
  <2>4. \A k \in DOMAIN d.fields : d.fields[k] # Null
    BY <2>1
  <2>5. \A k \in DOMAIN keys \cap DOMAIN parsed.fields : parsed.fields[k] \in {d.fields[k], Null}
    BY <2>1, <2>2
  <2> QED
    BY <1>1, <2>3, <2>4, <2>5 DEF d, parsed
<1>2. CASE parsed.is # "dict"
  <2>1. d.fields = [k \in DOMAIN keys \cup {"raw"} |-> IF k = "raw" THEN Text(raw.text) ELSE keys[k]]
    BY <1>2 DEF ParseJsonObject, Dict
  <2>2. Text(raw.text) # Null
    <3>1. Text(raw.text).is = "text" /\ Null.is = "null"
      BY DEF Text, Null
    <3> QED
      BY <3>1
  <2> HIDE DEF d, parsed
  <2>3. DOMAIN keys \subseteq DOMAIN d.fields /\ \A k \in DOMAIN d.fields : d.fields[k] # Null
    BY <2>1, <2>2
  <2>4. "raw" \in DOMAIN d.fields /\ d.fields["raw"] = Text(raw.text)
    BY <2>1
  <2> QED
    BY <1>2, <2>3, <2>4 DEF d, parsed
<1> QED
  BY <1>1, <1>2

(* However long the documents and whatever the model says: each context is as much of the
   beginning of its document as fits its share of the budget, and a parsed answer has every
   key of its schema, none null, and loses nothing of what it was asked for. *)
THEOREM AnswersAreUsable == ContentSpec => []AnswerIsUsable
<1>1. ContentInv => AnswerIsUsable
  <2> SUFFICES ASSUME ContentInv PROVE AnswerIsUsable
    OBVIOUS
  <2>1. ASSUME prompt # NoPrompt, NEW i \in 1..Len(prompt.context),
               NEW lens, lens = IF i = 1 THEN job.params.document ELSE job.params.other
        PROVE  /\ \A k \in 1..Len(prompt.context[i]) : prompt.context[i][k] = k
               /\ Used(lens)[Len(prompt.context[i])] <= ContextShare
               /\ Len(prompt.context[i]) < Len(lens) => Used(lens)[Len(prompt.context[i]) + 1] > ContextShare
    <3>1. /\ job.type \in Types /\ prompt = BuildPrompt(job)
          /\ \E d, other \in Documents : job.params = ParamsOf(job.type, d, other)
      BY <2>1 DEF ContentInv
    <3>2. PICK d \in Documents, other \in Documents : job.params = ParamsOf(job.type, d, other)
      BY <3>1
    <3>3. /\ d \in Seq(Nat) /\ other \in Seq(Nat) /\ Budget \in Nat /\ Budget \in 0..Budget
          /\ Budget \div 2 \in 0..Budget
          /\ ContextShare = IF job.type = "compare" /\ Budget > 1 THEN Budget \div 2 ELSE Budget
      BY ContentAssumption DEF ContextShare
    <3>4. Budget \div 2 = 0 <=> ~(Budget > 1)
      BY <3>3
    <3>5. job.params.document = d /\ (job.type = "compare" => job.params.other = other)
      BY <3>1, <3>2 DEF ParamsOf, Types
    <3>6. PICK limit \in 0..Budget : /\ lens \in Seq(Nat)
                                     /\ prompt.context[i] = DocumentContext(lens, limit)
                                     /\ ContextShare = IF limit = 0 THEN Budget ELSE limit
      <4>1. CASE job.type = "compare"
        <5>1. prompt.context = <<DocumentContext(d, Budget \div 2), DocumentContext(other, Budget \div 2)>>
          BY <3>1, <3>5, <4>1 DEF BuildPrompt
        <5>2. i \in {1, 2}
          BY <2>1, <5>1
        <5>3. lens \in Seq(Nat) /\ prompt.context[i] = DocumentContext(lens, Budget \div 2)
          BY <2>1, <3>3, <3>5, <4>1, <5>1, <5>2
        <5>4. ContextShare = IF Budget \div 2 = 0 THEN Budget ELSE Budget \div 2
          BY <3>3, <3>4, <4>1
        <5> QED
          BY <3>3, <5>3, <5>4
      <4>2. CASE job.type # "compare"
        <5>1. prompt.context = <<DocumentContext(d, Budget)>>
          BY <3>1, <3>5, <4>2 DEF BuildPrompt
        <5>2. i = 1
          BY <2>1, <5>1
        <5>3. lens \in Seq(Nat) /\ prompt.context[i] = DocumentContext(lens, Budget)
          BY <2>1, <3>3, <3>5, <5>1, <5>2
        <5> QED
          BY <3>3, <4>2, <5>3
      <4> QED
        BY <4>1, <4>2
    <3>7. PICK n \in 0..Len(lens) : /\ prompt.context[i] = [j \in 1..n |-> j]
                                    /\ Used(lens)[n] <= ContextShare
                                    /\ n < Len(lens) => Used(lens)[n + 1] > ContextShare
      BY <3>6, ContextFits
    <3>8. n \in Nat /\ Len(prompt.context[i]) = n
      BY <3>6, <3>7
    <3> QED
      BY <3>7, <3>8
  <2>2. ASSUME result # None, job.type \in DOMAIN JsonSchemas
        PROVE  /\ result = ParseJsonObject(answer, JsonSchemas[job.type])
               /\ \A k \in DOMAIN JsonSchemas[job.type] : JsonSchemas[job.type][k] # Null
    BY <2>2, SchemaKeys DEF ContentInv, ShapeResult
  <2>3. ASSUME result # None, job.type \in DOMAIN JsonSchemas
        PROVE  LET keys == DOMAIN JsonSchemas[job.type]
                   read == ParseJson(answer)
               IN /\ keys \subseteq DOMAIN result.fields
                  /\ \A k \in DOMAIN result.fields : result.fields[k] # Null
                  /\ read.is = "dict" => \A k \in keys \cap DOMAIN read.fields :
                                           read.fields[k] \in {result.fields[k], Null}
                  /\ read.is # "dict" => "raw" \in DOMAIN result.fields
                                         /\ result.fields["raw"] = Text(answer.text)
    BY <2>2, <2>3, ParsedHasKeys
  <2> QED
    BY <2>1, <2>3 DEF AnswerIsUsable
<1> QED
  BY <1>1, ContentInitially, ContentStep, PTL DEF ContentSpec

-----------------------------------------------------------------------------
(* The exported file: for any answer, of any values. *)

ItemsOf(s) == {s[k] : k \in 1..Len(s)}

LEMMA JoinedItems ==
    ASSUME NEW T, NEW a \in Seq(T), NEW b \in Seq(T)
    PROVE  a \o b \in Seq(T) /\ ItemsOf(a \o b) = ItemsOf(a) \cup ItemsOf(b)
<1> DEFINE c == a \o b
<1>1. /\ c \in Seq(T) /\ Len(a) \in Nat /\ Len(b) \in Nat /\ Len(c) = Len(a) + Len(b)
      /\ \A k \in 1..Len(a) : c[k] = a[k]
      /\ \A k \in 1..Len(b) : c[Len(a) + k] = b[k]
  OBVIOUS
<1>2. \A k \in 1..Len(c) : k \in 1..Len(a) \/ (k - Len(a) \in 1..Len(b) /\ Len(a) + (k - Len(a)) = k)
  BY <1>1
<1> HIDE DEF c
<1>3. ASSUME NEW k \in 1..Len(c) PROVE c[k] \in ItemsOf(a) \cup ItemsOf(b)
  <2>1. CASE k \in 1..Len(a)
    BY <1>1, <2>1 DEF ItemsOf
  <2>2. CASE k \notin 1..Len(a)
    <3>1. k - Len(a) \in 1..Len(b) /\ Len(a) + (k - Len(a)) = k
      BY <1>2, <2>2
    <3>2. c[k] = b[k - Len(a)]
      BY <1>1, <3>1
    <3> QED
      BY <3>1, <3>2 DEF ItemsOf
  <2> QED
    BY <2>1, <2>2
<1>4. ItemsOf(a) \subseteq ItemsOf(c)
  <2>1. \A k \in 1..Len(a) : k \in 1..Len(c)
    BY <1>1
  <2> QED
    BY <1>1, <2>1 DEF ItemsOf
<1>5. ItemsOf(b) \subseteq ItemsOf(c)
  <2>1. \A k \in 1..Len(b) : Len(a) + k \in 1..Len(c)
    BY <1>1
  <2> QED
    BY <1>1, <2>1 DEF ItemsOf
<1>6. ItemsOf(c) \subseteq ItemsOf(a) \cup ItemsOf(b)
  BY <1>3 DEF ItemsOf
<1> QED
  BY <1>1, <1>4, <1>5, <1>6 DEF c

\* What FlattenSeq builds up.
IsFlat(f, ss, m) == f = [i \in 1..m |-> IF i = 1 THEN ss[i] ELSE f[i - 1] \o ss[i]]

LEMMA FlatExists ==
    ASSUME NEW T, NEW ss \in Seq(Seq(T))
    PROVE  \E f \in [1..Len(ss) -> Seq(T)] : IsFlat(f, ss, Len(ss))
<1> DEFINE S == {m \in Nat : \E f \in [1..m -> Seq(T)] : IsFlat(f, ss, m)}
<1>1. 0 \in S
  <2> DEFINE f == [i \in 1..0 |-> <<>>]
  <2>1. f \in [1..0 -> Seq(T)] /\ f = [i \in 1..0 |-> IF i = 1 THEN ss[i] ELSE f[i - 1] \o ss[i]]
    OBVIOUS
  <2> QED
    BY <2>1 DEF IsFlat
<1>2. ASSUME NEW k \in 0..(Len(ss) - 1), k \in S PROVE k + 1 \in S
  <2>1. PICK g \in [1..k -> Seq(T)] : IsFlat(g, ss, k)
    BY <1>2
  <2> DEFINE m == k + 1
             last == IF k = 0 THEN ss[m] ELSE g[k] \o ss[m]
             f == [i \in 1..m |-> IF i = m THEN last ELSE g[i]]
  <2>i. k \in Nat /\ m \in 1..Len(ss) /\ ss[m] \in Seq(T) /\ (k # 0 => k \in 1..k)
    BY <1>2
  <2>2. last \in Seq(T)
    <3>1. CASE k = 0
      BY <2>i, <3>1
    <3>2. CASE k # 0
      <4>1. g[k] \in Seq(T)
        BY <2>1, <2>i, <3>2
      <4> QED
        BY <2>i, <3>2, <4>1
    <3> QED
      BY <3>1, <3>2
  <2>3. f \in [1..m -> Seq(T)]
    <3>1. ASSUME NEW i \in 1..m PROVE i = m \/ i \in 1..k
      BY <2>i
    <3> HIDE DEF last
    <3> QED
      BY <2>1, <2>2, <3>1
  <2>4. ASSUME NEW i \in 1..m PROVE f[i] = IF i = 1 THEN ss[i] ELSE f[i - 1] \o ss[i]
    <3>1. CASE i = m
      BY <2>i, <3>1
    <3>2. CASE i # m
      <4>1. i \in 1..k /\ (i # 1 => i - 1 \in 1..k /\ i - 1 # m)
        BY <2>i, <3>2
      <4>2. g[i] = IF i = 1 THEN ss[i] ELSE g[i - 1] \o ss[i]
        BY <2>1, <4>1 DEF IsFlat
      <4>3. f[i] = g[i] /\ (i # 1 => f[i - 1] = g[i - 1])
        <5> HIDE DEF last
        <5> QED
          BY <2>i, <3>2, <4>1
      <4> HIDE DEF f
      <4> QED
        BY <4>1, <4>2, <4>3
    <3> QED
      BY <3>1, <3>2
  <2>5. f = [i \in 1..m |-> IF i = 1 THEN ss[i] ELSE f[i - 1] \o ss[i]]
    BY <2>4
  <2>6. IsFlat(f, ss, m)
    <3> HIDE DEF f
    <3> QED
      BY <2>5 DEF IsFlat
  <2>7. m \in Nat
    BY <2>i
  <2> HIDE DEF f
  <2> QED
    BY <2>3, <2>6, <2>7
<1>3. PICK l \in Nat : l = Len(ss)
  OBVIOUS
<1> HIDE DEF S
<1>4. l \in S
  <2>1. \A k \in 0..(l - 1) : k \in S => k + 1 \in S
    BY <1>2, <1>3
  <2> QED
    BY <1>1, <2>1, UpTo
<1> QED
  BY <1>3, <1>4 DEF S

UpToItems(ss, m) == UNION {ItemsOf(ss[i]) : i \in 1..m}

\* FlattenSeq has the items of its parts, and no others.
LEMMA FlattenItems ==
    ASSUME NEW T, NEW ss \in Seq(Seq(T))
    PROVE  /\ Sq!FlattenSeq(ss) \in Seq(T)
           /\ ItemsOf(Sq!FlattenSeq(ss)) = UNION {ItemsOf(ss[i]) : i \in 1..Len(ss)}
<1>0. CASE Len(ss) = 0
  <2>1. Sq!FlattenSeq(ss) = ss
    BY <1>0 DEF Sq!FlattenSeq
  <2>2. ss = <<>> /\ ss \in Seq(T) /\ 1..Len(ss) = {}
    BY <1>0
  <2> QED
    BY <2>1, <2>2 DEF ItemsOf
<1>n. CASE Len(ss) # 0
  <2> DEFINE f == CHOOSE g : IsFlat(g, ss, Len(ss))
             S == {m \in Nat : m # 0 => f[m] \in Seq(T) /\ ItemsOf(f[m]) = UpToItems(ss, m)}
  <2>1. Sq!FlattenSeq(ss) = f[Len(ss)]
    BY <1>n DEF Sq!FlattenSeq, IsFlat
  <2>2. IsFlat(f, ss, Len(ss)) /\ Len(ss) \in Nat
    BY FlatExists
  <2> HIDE DEF f
  <2>3. 0 \in S
    OBVIOUS
  <2>4. ASSUME NEW k \in 0..(Len(ss) - 1), k \in S PROVE k + 1 \in S
    <3>1. k \in Nat /\ k + 1 \in Nat /\ k + 1 \in 1..Len(ss) /\ ss[k + 1] \in Seq(T) /\ (k + 1) - 1 = k
      BY <2>2
    <3>2. f[k + 1] = IF k + 1 = 1 THEN ss[k + 1] ELSE f[k] \o ss[k + 1]
      BY <2>2, <3>1 DEF IsFlat
    <3>3. CASE k = 0
      <4>1. f[1] = ss[1] /\ ss[1] \in Seq(T) /\ 1..1 = {1}
        BY <3>1, <3>2, <3>3
      <4>2. ItemsOf(f[1]) = UpToItems(ss, 1)
        BY <4>1 DEF UpToItems
      <4> QED
        BY <3>3, <4>1, <4>2
    <3>4. CASE k # 0
      <4>0. f[k] \in Seq(T) /\ ItemsOf(f[k]) = UpToItems(ss, k)
        BY <2>4, <3>4
      <4>1. f[k + 1] = f[k] \o ss[k + 1]
        <5>1. k + 1 # 1
          BY <3>1, <3>4
        <5> QED
          BY <3>2, <5>1
      <4>2. f[k + 1] \in Seq(T) /\ ItemsOf(f[k + 1]) = ItemsOf(f[k]) \cup ItemsOf(ss[k + 1])
        BY <3>1, <4>0, <4>1, JoinedItems
      <4>3. 1..(k + 1) = (1..k) \cup {k + 1}
        BY <3>1
      <4>4. UpToItems(ss, k + 1) = UpToItems(ss, k) \cup ItemsOf(ss[k + 1])
        BY <4>3 DEF UpToItems
      <4> QED
        BY <3>1, <4>0, <4>2, <4>4
    <3> QED
      BY <3>3, <3>4
  <2>5. PICK l \in Nat : l = Len(ss)
    BY <2>2
  <2> HIDE DEF S
  <2>6. l \in S
    <3>1. \A k \in 0..(l - 1) : k \in S => k + 1 \in S
      BY <2>4, <2>5
    <3> QED
      BY <2>3, <3>1, UpTo
  <2> QED
    BY <1>n, <2>1, <2>5, <2>6 DEF S, UpToItems
<1> QED
  BY <1>0, <1>n

LEMMA KeptItems ==
    ASSUME NEW T, NEW s \in Seq(T), NEW I
    PROVE  Kept(s, I) \in Seq(T) /\ ItemsOf(Kept(s, I)) = {s[i] : i \in I \cap (1..Len(s))}
<1> DEFINE parts == [i \in 1..Len(s) |-> IF i \in I THEN <<s[i]>> ELSE <<>>]
<1>0. Len(s) \in Nat /\ \A i \in 1..Len(s) : s[i] \in T
  OBVIOUS
<1>1. \A i \in 1..Len(s) : <<s[i]>> \in Seq(T) /\ ItemsOf(<<s[i]>>) = {s[i]}
  <2> SUFFICES ASSUME NEW x \in T PROVE <<x>> \in Seq(T) /\ ItemsOf(<<x>>) = {x}
    BY <1>0
  <2>1. Len(<<x>>) = 1 /\ <<x>>[1] = x /\ 1..1 = {1}
    OBVIOUS
  <2> QED
    BY <2>1 DEF ItemsOf
<1>2. <<>> \in Seq(T) /\ ItemsOf(<<>>) = {}
  <2>1. Len(<<>>) = 0 /\ 1..0 = {}
    OBVIOUS
  <2> QED
    BY <2>1 DEF ItemsOf
<1>3. parts \in Seq(Seq(T)) /\ Len(parts) = Len(s)
  BY <1>0, <1>1, <1>2
<1>4. \A i \in 1..Len(s) : ItemsOf(parts[i]) = IF i \in I THEN {s[i]} ELSE {}
  BY <1>1, <1>2
<1>5. Kept(s, I) = Sq!FlattenSeq(parts)
  BY DEF Kept
<1> HIDE DEF parts
<1>6. UNION {ItemsOf(parts[i]) : i \in 1..Len(parts)} = {s[i] : i \in I \cap (1..Len(s))}
  BY <1>3, <1>4
<1> QED
  BY <1>3, <1>5, <1>6, FlattenItems

\* What a file can show: what an answer says, and what the program adds.
Own == {"spelled", "escaped", "empty", "dash", "|", "Sorular", "Kayitlar", "Tip", "Soru", "Secenekler",
        "Cevap", "summary", "dates", "names", "numbers", "decisions", "only_in_a", "only_in_b",
        "changed"}
Marks == Atoms \cup Own
Strings == Seq(Marks)

LEMMA AtomsAreMarks ==
    /\ \A t \in Seq(Atoms) : t \in Strings
    /\ \A a \in Marks : <<a>> \in Strings /\ Words(<<a>>) \subseteq {a}
<1>1. \A t \in Seq(Atoms) : t \in Seq(Marks)
  BY DEF Marks
<1>2. \A a \in Marks : <<a>> \in Seq(Marks) /\ Len(<<a>>) = 1 /\ <<a>>[1] = a
  OBVIOUS
<1> QED
  BY <1>1, <1>2 DEF Strings, Words

\* A word of a text makes it one that is not blank.
LEMMA WordsShow ==
    ASSUME NEW t \in Strings, NEW w \in Words(t)
    PROVE  NonBlank(t)
BY DEF Words, NonBlank

LEMMA StrOf ==
    ASSUME NEW v, IsJson(v)
    PROVE  Str(v) \in Strings /\ (v.is = "text" => v.text \in Strings /\ Str(v) = v.text)
<1>1. <<"spelled">> \in Strings
  BY AtomsAreMarks DEF Marks, Own
<1>2. v.is = "text" => v.text \in Strings
  BY AtomsAreMarks DEF IsJson, Null, List, Dict
<1> QED
  BY <1>1, <1>2 DEF Str

LEMMA ItemsAreJson ==
    ASSUME NEW v, IsJson(v), v.is = "list"
    PROVE  v.items \in Seq(Values) /\ \A i \in 1..Len(v.items) : IsJson(v.items[i])
<1>1. v.items \in Seq(Values)
  BY DEF IsJson, Null, Text, Dict
<1> QED
  BY <1>1, ContentAssumption

LEMMA FieldsAreJson ==
    ASSUME NEW v, IsJson(v), v.is = "dict"
    PROVE  /\ IsFiniteSet(DOMAIN v.fields) /\ DOMAIN v.fields \subseteq Atoms
           /\ \A k \in DOMAIN v.fields : IsJson(v.fields[k])
<1>1. IsFiniteSet(DOMAIN v.fields) /\ \A k \in DOMAIN v.fields : k \in Atoms /\ v.fields[k] \in Values
  BY DEF IsJson, Null, Text, List
<1> QED
  BY <1>1, ContentAssumption

LEMMA NonBlanksItems ==
    ASSUME NEW ts \in Seq(Strings)
    PROVE  NonBlanks(ts) \in Seq(Strings) /\ ItemsOf(NonBlanks(ts)) = {t \in ItemsOf(ts) : NonBlank(t)}
<1> DEFINE I == {i \in 1..Len(ts) : NonBlank(ts[i])}
<1>1. NonBlanks(ts) = Kept(ts, I)
  BY DEF NonBlanks
<1>2. {ts[i] : i \in I \cap (1..Len(ts))} = {t \in ItemsOf(ts) : NonBlank(t)}
  BY DEF ItemsOf
<1> HIDE DEF I
<1> QED
  BY <1>1, <1>2, KeptItems

LEMMA AsListItems ==
    ASSUME NEW v, IsJson(v)
    PROVE  /\ AsList(v) \in Seq(Strings)
           /\ \A x \in Items(v) : x.is = "text" /\ NonBlank(x.text) => x.text \in ItemsOf(AsList(v))
           /\ \A t \in ItemsOf(AsList(v)) : NonBlank(t)
<1>1. CASE v.is = "list"
  <2> DEFINE ts == [i \in 1..Len(v.items) |-> Str(v.items[i])]
  <2>1. AsList(v) = NonBlanks(ts)
    BY <1>1 DEF AsList, Map
  <2>2. ts \in Seq(Strings) /\ Len(ts) = Len(v.items) /\ \A i \in 1..Len(v.items) : ts[i] = Str(v.items[i])
    BY <1>1, ItemsAreJson, StrOf
  <2> HIDE DEF ts
  <2>3. ASSUME NEW x \in Items(v), x.is = "text", NonBlank(x.text) PROVE x.text \in ItemsOf(ts)
    <3>1. PICK i \in 1..Len(v.items) : x = v.items[i]
      BY <1>1, <2>3 DEF Items
    <3>2. ts[i] = x.text
      BY <1>1, <2>2, <2>3, <3>1, ItemsAreJson, StrOf
    <3> QED
      BY <2>2, <3>2 DEF ItemsOf
  <2> QED
    BY <2>1, <2>2, <2>3, NonBlanksItems
<1>2. CASE v.is # "list"
  <2>1. AsList(v) = <<>> /\ Items(v) = {} /\ <<>> \in Seq(Strings) /\ 1..Len(<<>>) = {}
    BY <1>2 DEF AsList, Items
  <2> QED
    BY <2>1 DEF ItemsOf
<1> QED
  BY <1>1, <1>2

\* Where a paragraph begins that ends at i, and that it has no line between.
LEMMA Begins ==
    ASSUME NEW n \in Nat, NEW Ends, NEW i \in 1..n
    PROVE  \E k \in 1..i : (k = 1 \/ k - 1 \in Ends) /\ \A j \in k..i - 1 : j \notin Ends
<1> DEFINE B(m, k) == (k = 1 \/ k - 1 \in Ends) /\ \A j \in k..m - 1 : j \notin Ends
           S == {m \in Nat : \E k \in 1..m + 1 : B(m + 1, k)}
<1>1. 0 \in S
  OBVIOUS
<1>2. ASSUME NEW m \in 0..(i - 1) - 1, m \in S PROVE m + 1 \in S
  <2>1. PICK k \in 1..m + 1 : B(m + 1, k)
    BY <1>2
  <2>2. m + 1 \in Nat /\ m + 2 \in 1..m + 2 /\ k \in 1..m + 2 /\ (m + 1) + 1 = m + 2 /\ (m + 2) - 1 = m + 1
        /\ (m + 1) - 1 = m
    OBVIOUS
  <2>3. CASE m + 1 \in Ends
    <3>1. B(m + 2, m + 2)
      BY <2>2, <2>3
    <3> HIDE DEF B
    <3> QED
      BY <2>2, <3>1
  <2>4. CASE m + 1 \notin Ends
    <3>1. \A j \in k..(m + 2) - 1 : j \in k..(m + 1) - 1 \/ j = m + 1
      BY <2>2
    <3>2. B(m + 2, k)
      BY <2>1, <2>4, <3>1
    <3> HIDE DEF B
    <3> QED
      BY <2>2, <3>2
  <2> QED
    BY <2>3, <2>4
<1>3. i - 1 \in S
  <2> HIDE DEF S
  <2>1. i - 1 \in Nat
    OBVIOUS
  <2> QED
    BY <1>1, <1>2, <2>1, UpTo
<1> QED
  BY <1>3

LEMMA LeastAfter ==
    ASSUME NEW n \in Nat, NEW Ends \in SUBSET (1..n), n \in Ends, NEW k \in 1..n - 1
    PROVE  \E i \in Ends : i > k /\ \A j \in Ends : j > k => i <= j
<1> DEFINE Later == {i \in Ends : i > k}
           f == [i \in Later |-> i]
<1>0. n > k /\ \A i \in Later : i \in Nat
  OBVIOUS
<1>1. n \in Later /\ f \in [Later -> Nat]
  BY <1>0
<1>2. PICK i \in Later : \A j \in Later : f[i] <= f[j]
  <2> HIDE DEF Later, f
  <2> QED
    BY <1>1, LeastOf
<1> QED
  BY <1>2

\* Splitting a text into paragraphs loses no word of it.
LEMMA ParagraphsHold ==
    ASSUME NEW t \in Strings
    PROVE  /\ Paragraphs(t) \in Seq(Strings)
           /\ \A w \in Words(t) : \E u \in ItemsOf(Paragraphs(t)) : w \in Words(u)
<1> DEFINE n == Len(t) + 1
           Ends == {i \in 1..n : i = n \/ t[i] = "gap"}
           Fit(i, k) == (k = 1 \/ k - 1 \in Ends) /\ \A j \in k..i - 1 : j \notin Ends
           Begin(i) == CHOOSE k \in 1..i : Fit(i, k)
           pieces == [i \in 1..n |-> SubSeq(t, Begin(i), i - 1)]
<1>0. Len(t) \in Nat /\ n \in Nat /\ n >= 1 /\ n \in Ends /\ Ends \in SUBSET (1..n)
      /\ \A k \in 1..Len(t) : t[k] \in Marks
  BY DEF Strings
<1>1. Paragraphs(t) = NonBlanks(Kept(pieces, Ends))
  BY DEF Paragraphs
<1>2. ASSUME NEW i \in 1..n PROVE Begin(i) \in 1..i /\ Fit(i, Begin(i))
  <2>1. \E k \in 1..i : Fit(i, k)
    <3> HIDE DEF Ends, n
    <3> QED
      BY <1>0, Begins
  <2> HIDE DEF Fit
  <2> QED
    BY <2>1
<1> HIDE DEF Begin
<1>3. ASSUME NEW i \in 1..n
      PROVE  /\ SubSeq(t, Begin(i), i - 1) \in Strings
             /\ \A k \in Begin(i)..i - 1 : \E j \in 1..Len(SubSeq(t, Begin(i), i - 1)) :
                    SubSeq(t, Begin(i), i - 1)[j] = t[k]
  <2>1. PICK b \in 1..i : b = Begin(i)
    BY <1>2
  <2> DEFINE e == i - 1
             u == SubSeq(t, b, e)
  <2>i. e \in Nat /\ b \in Nat /\ b >= 1 /\ e <= Len(t) /\ b <= e + 1
    BY <1>0
  <2> HIDE DEF e
  <2>2. u \in Strings /\ Len(u) = (e - b) + 1 /\ \A j \in 1..((e - b) + 1) : u[j] = t[(b + j) - 1]
    BY <1>0, <2>i DEF Strings
  <2>3. \A k \in b..e : (k - b) + 1 \in 1..((e - b) + 1) /\ (b + ((k - b) + 1)) - 1 = k
    BY <2>i
  <2> HIDE DEF u
  <2>4. \A k \in b..e : u[(k - b) + 1] = t[k]
    BY <2>2, <2>3
  <2>5. u \in Strings /\ \A k \in b..e : \E j \in 1..Len(u) : u[j] = t[k]
    BY <2>2, <2>3, <2>4
  <2> QED
    BY <2>1, <2>5 DEF u, e
<1>4. pieces \in Seq(Strings) /\ Len(pieces) = n /\ \A i \in 1..n : pieces[i] = SubSeq(t, Begin(i), i - 1)
  <2>1. \A i \in 1..n : SubSeq(t, Begin(i), i - 1) \in Strings
    BY <1>3
  <2>2. n \in Nat
    BY <1>0
  <2> DEFINE P(i) == SubSeq(t, Begin(i), i - 1)
  <2>3. pieces = [i \in 1..n |-> P(i)] /\ \A i \in 1..n : P(i) \in Strings
    BY <2>1
  <2> HIDE DEF n, P, pieces
  <2>4. pieces \in Seq(Strings) /\ Len(pieces) = n /\ \A i \in 1..n : pieces[i] = P(i)
    BY <2>2, <2>3
  <2> QED
    BY <2>4 DEF P
<1> HIDE DEF pieces
<1>5. /\ Kept(pieces, Ends) \in Seq(Strings)
      /\ ItemsOf(Kept(pieces, Ends)) = {pieces[i] : i \in Ends \cap (1..Len(pieces))}
  <2> HIDE DEF Ends
  <2> QED
    BY <1>4, KeptItems
<1>6. ASSUME NEW w \in Words(t)
      PROVE  \E u \in ItemsOf(Kept(pieces, Ends)) : w \in Words(u)
  <2>1. PICK k \in 1..Len(t) : t[k] = w
    BY DEF Words
  <2>2. w \notin {"nl", "gap", "|", "ctl"}
    BY DEF Words
  <2>3. k \in 1..n - 1 /\ k \notin Ends
    BY <1>0, <2>1, <2>2
  <2>4. PICK i \in Ends : i > k /\ \A j \in Ends : j > k => i <= j
    <3> HIDE DEF Ends, n
    <3> QED
      BY <1>0, <2>3, LeastAfter
  <2>5. i \in 1..n
    BY <1>0, <2>4
  <2>6. PICK b \in 1..i : b = Begin(i) /\ Fit(i, b)
    BY <1>2, <2>5
  <2>7. b <= k
    <3> SUFFICES ASSUME b > k PROVE FALSE
      BY <2>3
    <3>1. b # 1 /\ b - 1 \in Ends /\ b - 1 # k /\ b - 1 >= k
      BY <2>3, <2>6
    <3>2. b - 1 > k /\ b - 1 < i
      BY <2>3, <2>6, <3>1
    <3>3. i <= b - 1
      BY <2>4, <3>1, <3>2
    <3> QED
      BY <2>5, <2>6, <3>2, <3>3
  <2>8. k \in b..i - 1
    BY <1>0, <2>3, <2>4, <2>5, <2>7
  <2> DEFINE u == SubSeq(t, Begin(i), i - 1)
  <2>9. \E j \in 1..Len(u) : u[j] = t[k]
    BY <1>3, <2>5, <2>6, <2>8
  <2> HIDE DEF u
  <2>10. w \in Words(u)
    BY <2>1, <2>2, <2>9 DEF Words
  <2>11. u \in ItemsOf(Kept(pieces, Ends))
    BY <1>4, <1>5, <2>4, <2>5 DEF u
  <2> QED
    BY <2>10, <2>11
<1>7. ASSUME NEW w \in Words(t) PROVE \E u \in ItemsOf(Paragraphs(t)) : w \in Words(u)
  <2>1. PICK u \in ItemsOf(Kept(pieces, Ends)) : w \in Words(u)
    BY <1>6
  <2>2. u \in Strings
    BY <1>5 DEF ItemsOf
  <2>3. NonBlank(u)
    BY <2>1, <2>2, WordsShow
  <2> HIDE DEF Ends
  <2> QED
    BY <1>1, <1>5, <2>1, <2>3, NonBlanksItems
<1> HIDE DEF Ends
<1> QED
  BY <1>1, <1>5, <1>7, NonBlanksItems

-----------------------------------------------------------------------------
(* The renderers. *)

Kinds == {"heading", "paragraph", "bullet", "columns", "row"}
Blocks == [kind : Kinds, texts : Seq(Strings)]

WordsIn(b) == UNION {Words(b.texts[i]) : i \in 1..Len(b.texts)}
WordsShown(bs) == UNION {WordsIn(b) : b \in ItemsOf(bs)}

Sections ==
    [heading : Strings, paragraphs : Seq(Strings), bullets : Seq(Strings),
     table : [columns : Seq(Strings), rows : Seq(Seq(Strings))]]

LEMMA JoinedBlocks ==
    ASSUME NEW a \in Seq(Blocks), NEW b \in Seq(Blocks)
    PROVE  /\ a \o b \in Seq(Blocks) /\ ItemsOf(a \o b) = ItemsOf(a) \cup ItemsOf(b)
           /\ WordsShown(a \o b) = WordsShown(a) \cup WordsShown(b)
<1>1. a \o b \in Seq(Blocks) /\ ItemsOf(a \o b) = ItemsOf(a) \cup ItemsOf(b)
  BY JoinedItems
<1> QED
  BY <1>1 DEF WordsShown

LEMMA BlockType ==
    ASSUME NEW kind \in Kinds, NEW ts \in Seq(Strings)
    PROVE  /\ Block(kind, ts) \in Blocks /\ Block(kind, ts).kind = kind
           /\ WordsIn(Block(kind, ts)) = UNION {Words(t) : t \in ItemsOf(ts)}
<1>1. Block(kind, ts) \in Blocks /\ Block(kind, ts).kind = kind /\ Block(kind, ts).texts = ts
  BY DEF Block, Blocks
<1> QED
  BY <1>1 DEF WordsIn, ItemsOf

\* A sequence of one block.
LEMMA OneBlock ==
    ASSUME NEW b \in Blocks
    PROVE  <<b>> \in Seq(Blocks) /\ ItemsOf(<<b>>) = {b} /\ WordsShown(<<b>>) = WordsIn(b)
<1>1. Len(<<b>>) = 1 /\ <<b>>[1] = b /\ 1..1 = {1} /\ <<b>> \in Seq(Blocks)
  OBVIOUS
<1>2. ItemsOf(<<b>>) = {b}
  BY <1>1 DEF ItemsOf
<1> QED
  BY <1>1, <1>2 DEF WordsShown

LEMMA NoBlock ==
    <<>> \in Seq(Blocks) /\ ItemsOf(<<>>) = {} /\ WordsShown(<<>>) = {}
<1>1. Len(<<>>) = 0 /\ 1..0 = {} /\ <<>> \in Seq(Blocks)
  OBVIOUS
<1> QED
  BY <1>1 DEF ItemsOf, WordsShown

\* The blocks of a sequence of texts, one each.
Each(kind, ts) == [i \in 1..Len(ts) |-> Block(kind, <<ts[i]>>)]

LEMMA OneText ==
    ASSUME NEW t \in Strings, NEW kind \in Kinds
    PROVE  /\ <<t>> \in Seq(Strings) /\ ItemsOf(<<t>>) = {t}
           /\ Block(kind, <<t>>) \in Blocks /\ Block(kind, <<t>>).kind = kind
           /\ WordsIn(Block(kind, <<t>>)) = Words(t)
<1>1. <<t>> \in Seq(Strings) /\ ItemsOf(<<t>>) = {t}
  <2>1. Len(<<t>>) = 1 /\ <<t>>[1] = t /\ 1..1 = {1} /\ <<t>> \in Seq(Strings)
    OBVIOUS
  <2> QED
    BY <2>1 DEF ItemsOf
<1> QED
  BY <1>1, BlockType

LEMMA EachBlock ==
    ASSUME NEW kind \in Kinds, NEW ts \in Seq(Strings)
    PROVE  /\ Each(kind, ts) \in Seq(Blocks)
           /\ \A b \in ItemsOf(Each(kind, ts)) : b.kind = kind
           /\ \A t \in ItemsOf(ts) : Words(t) \subseteq WordsShown(Each(kind, ts))
<1>0. Len(ts) \in Nat /\ \A i \in 1..Len(ts) : ts[i] \in Strings
  OBVIOUS
<1>1. \A i \in 1..Len(ts) : /\ Block(kind, <<ts[i]>>) \in Blocks /\ Block(kind, <<ts[i]>>).kind = kind
                            /\ WordsIn(Block(kind, <<ts[i]>>)) = Words(ts[i])
  BY <1>0, OneText
<1> DEFINE e == Each(kind, ts)
<1>2. e \in Seq(Blocks) /\ Len(e) = Len(ts) /\ \A i \in 1..Len(ts) : e[i] = Block(kind, <<ts[i]>>)
  BY <1>0, <1>1 DEF Each
<1> HIDE DEF e
<1>3. \A b \in ItemsOf(e) : b.kind = kind
  BY <1>1, <1>2 DEF ItemsOf
<1>4. ASSUME NEW t \in ItemsOf(ts) PROVE Words(t) \subseteq WordsShown(e)
  <2>1. PICK i \in 1..Len(ts) : t = ts[i]
    BY DEF ItemsOf
  <2>2. e[i] \in ItemsOf(e) /\ WordsIn(e[i]) = Words(t)
    BY <1>1, <1>2, <2>1 DEF ItemsOf
  <2> QED
    BY <2>2 DEF WordsShown
<1> QED
  BY <1>2, <1>3, <1>4 DEF e

\* What comes before a table, of texts as they are shown.
TopOf(head, ps, bs) == (head \o Each("paragraph", ps)) \o Each("bullet", bs)

\* head shows the heading h, if there is one.
Heads(head, h) == (head = <<>> /\ Words(h) = {}) \/ head = <<Block("heading", <<h>>)>>

LEMMA TopShows ==
    ASSUME NEW h \in Strings, NEW ps \in Seq(Strings), NEW bs \in Seq(Strings),
           NEW head, Heads(head, h)
    PROVE  /\ TopOf(head, ps, bs) \in Seq(Blocks)
           /\ \A b \in ItemsOf(TopOf(head, ps, bs)) : b.kind # "row"
           /\ \A t \in {h} \cup ItemsOf(ps) \cup ItemsOf(bs) :
                  Words(t) \subseteq WordsShown(TopOf(head, ps, bs))
<1> DEFINE pb == Each("paragraph", ps)
           bb == Each("bullet", bs)
<1>1. /\ head \in Seq(Blocks) /\ \A b \in ItemsOf(head) : b.kind = "heading"
      /\ Words(h) \subseteq WordsShown(head)
  <2>1. CASE head = <<>> /\ Words(h) = {}
    BY <2>1, NoBlock
  <2>2. CASE head = <<Block("heading", <<h>>)>>
    <3>1. /\ Block("heading", <<h>>) \in Blocks /\ Block("heading", <<h>>).kind = "heading"
          /\ WordsIn(Block("heading", <<h>>)) = Words(h)
      BY OneText DEF Kinds
    <3> QED
      BY <2>2, <3>1, OneBlock
  <2> QED
    BY <2>1, <2>2 DEF Heads
<1>2. /\ pb \in Seq(Blocks) /\ \A b \in ItemsOf(pb) : b.kind = "paragraph"
      /\ \A t \in ItemsOf(ps) : Words(t) \subseteq WordsShown(pb)
  BY EachBlock DEF Kinds
<1>3. /\ bb \in Seq(Blocks) /\ \A b \in ItemsOf(bb) : b.kind = "bullet"
      /\ \A t \in ItemsOf(bs) : Words(t) \subseteq WordsShown(bb)
  BY EachBlock DEF Kinds
<1>4. TopOf(head, ps, bs) = (head \o pb) \o bb
  BY DEF TopOf
<1> HIDE DEF pb, bb
<1>5. /\ head \o pb \in Seq(Blocks) /\ ItemsOf(head \o pb) = ItemsOf(head) \cup ItemsOf(pb)
      /\ WordsShown(head \o pb) = WordsShown(head) \cup WordsShown(pb)
  BY <1>1, <1>2, JoinedBlocks
<1>6. /\ TopOf(head, ps, bs) \in Seq(Blocks)
      /\ ItemsOf(TopOf(head, ps, bs)) = ItemsOf(head) \cup ItemsOf(pb) \cup ItemsOf(bb)
      /\ WordsShown(TopOf(head, ps, bs)) = WordsShown(head) \cup WordsShown(pb) \cup WordsShown(bb)
  BY <1>3, <1>4, <1>5, JoinedBlocks, ZenonT(30)
<1> QED
  BY <1>1, <1>2, <1>3, <1>6

\* A table, of cells as they are shown.
RowBlocks(rows) == [i \in 1..Len(rows) |-> Block("row", rows[i])]
TableBlocks(columns, rows) == <<Block("columns", columns)>> \o RowBlocks(rows)

LEMMA TableShows ==
    ASSUME NEW columns \in Seq(Strings), NEW rows \in Seq(Seq(Strings))
    PROVE  /\ TableBlocks(columns, rows) \in Seq(Blocks)
           /\ \A b \in ItemsOf(TableBlocks(columns, rows)) :
                  b.kind = "row" => b.texts \in ItemsOf(rows)
           /\ \A row \in ItemsOf(rows) : \A t \in ItemsOf(row) :
                  Words(t) \subseteq WordsShown(TableBlocks(columns, rows))
<1> DEFINE c == <<Block("columns", columns)>>
           r == RowBlocks(rows)
<1>1. c \in Seq(Blocks) /\ \A b \in ItemsOf(c) : b.kind = "columns"
  BY BlockType, OneBlock DEF Kinds
<1>0. Len(rows) \in Nat /\ \A i \in 1..Len(rows) : rows[i] \in Seq(Strings)
  OBVIOUS
<1>2. \A i \in 1..Len(rows) :
        /\ Block("row", rows[i]) \in Blocks /\ Block("row", rows[i]).texts = rows[i]
        /\ WordsIn(Block("row", rows[i])) = UNION {Words(t) : t \in ItemsOf(rows[i])}
  <2> SUFFICES ASSUME NEW row \in Seq(Strings)
               PROVE  /\ Block("row", row) \in Blocks /\ Block("row", row).texts = row
                      /\ WordsIn(Block("row", row)) = UNION {Words(t) : t \in ItemsOf(row)}
    BY <1>0
  <2>1. Block("row", row).texts = row
    BY DEF Block
  <2> QED
    BY <2>1, BlockType DEF Kinds
<1>3. r \in Seq(Blocks) /\ Len(r) = Len(rows) /\ \A i \in 1..Len(rows) : r[i] = Block("row", rows[i])
  BY <1>0, <1>2 DEF RowBlocks
<1>4. TableBlocks(columns, rows) = c \o r
  BY DEF TableBlocks
<1> HIDE DEF c, r
<1>5. \A b \in ItemsOf(r) : b.texts \in ItemsOf(rows)
  BY <1>2, <1>3 DEF ItemsOf
<1>6. ASSUME NEW row \in ItemsOf(rows), NEW t \in ItemsOf(row) PROVE Words(t) \subseteq WordsShown(r)
  <2>1. PICK i \in 1..Len(rows) : row = rows[i]
    BY DEF ItemsOf
  <2>2. r[i] \in ItemsOf(r)
    BY <1>3 DEF ItemsOf
  <2>3. WordsIn(r[i]) = UNION {Words(u) : u \in ItemsOf(row)}
    BY <1>2, <1>3, <2>1
  <2> QED
    BY <2>2, <2>3 DEF WordsShown
<1>7. /\ c \o r \in Seq(Blocks) /\ ItemsOf(c \o r) = ItemsOf(c) \cup ItemsOf(r)
      /\ WordsShown(c \o r) = WordsShown(c) \cup WordsShown(r)
  BY <1>1, <1>3, JoinedBlocks
<1> QED
  BY <1>1, <1>4, <1>5, <1>6, <1>7

\* What a format makes of a text keeps its words.
LEMMA CleanKeeps ==
    ASSUME NEW t \in Strings
    PROVE  Clean(t) \in Strings /\ Words(t) \subseteq Words(Clean(t))
<1> DEFINE I == {i \in 1..Len(t) : t[i] # "ctl"}
<1>1. Clean(t) = Kept(t, I) /\ t \in Seq(Marks)
  BY DEF Clean, Strings
<1>2. {t[i] : i \in I \cap (1..Len(t))} = {x \in ItemsOf(t) : x # "ctl"}
  BY DEF ItemsOf
<1> HIDE DEF I
<1>3. Clean(t) \in Strings /\ ItemsOf(Clean(t)) = {x \in ItemsOf(t) : x # "ctl"}
  BY <1>1, <1>2, KeptItems DEF Strings
<1> QED
  BY <1>3 DEF Words, ItemsOf

LEMMA EscapeKeeps ==
    ASSUME NEW t \in Strings
    PROVE  Escape(t) \in Strings /\ Words(t) \subseteq Words(Escape(t)) /\ ~Has(Escape(t), "|")
<1> DEFINE x == [i \in 1..Len(t) |-> IF t[i] = "|" THEN "escaped" ELSE t[i]]
<1>1. Escape(t) = x
  BY DEF Escape, Map
<1>2. Len(t) \in Nat /\ \A i \in 1..Len(t) : t[i] \in Marks
  BY DEF Strings
<1>3. \A i \in 1..Len(t) : (IF t[i] = "|" THEN "escaped" ELSE t[i]) \in Marks
  BY <1>2 DEF Marks, Own
<1>4. x \in Strings /\ Len(x) = Len(t)
  BY <1>2, <1>3 DEF Strings
<1>5. \A i \in 1..Len(t) : x[i] = IF t[i] = "|" THEN "escaped" ELSE t[i]
  OBVIOUS
<1> HIDE DEF x
<1>6. Words(t) \subseteq Words(x)
  BY <1>4, <1>5 DEF Words
<1>7. ~Has(x, "|")
  BY <1>4, <1>5 DEF Has
<1> QED
  BY <1>1, <1>4, <1>6, <1>7

\* us shows ts, text by text.
Keeps(ts, us) ==
    /\ us \in Seq(Strings) /\ Len(us) = Len(ts)
    /\ \A i \in 1..Len(ts) : Words(ts[i]) \subseteq Words(us[i])

LEMMA KeptItem ==
    ASSUME NEW ts \in Seq(Strings), NEW us, Keeps(ts, us), NEW t \in ItemsOf(ts)
    PROVE  \E u \in ItemsOf(us) : Words(t) \subseteq Words(u)
BY DEF Keeps, ItemsOf

LEMMA MapsKeep ==
    ASSUME NEW ts \in Seq(Strings)
    PROVE  /\ Keeps(ts, Map(Same, ts)) /\ Keeps(ts, Map(Clean, ts)) /\ Keeps(ts, Map(Escape, ts))
           /\ \A u \in ItemsOf(Map(Escape, ts)) : ~Has(u, "|")
<1>0. Len(ts) \in Nat /\ \A i \in 1..Len(ts) : ts[i] \in Strings
  OBVIOUS
<1>1. Keeps(ts, Map(Same, ts))
  BY <1>0 DEF Map, Same, Keeps
<1>2. Keeps(ts, Map(Clean, ts))
  <2> DEFINE us == [i \in 1..Len(ts) |-> Clean(ts[i])]
  <2>1. \A i \in 1..Len(ts) : Clean(ts[i]) \in Strings /\ Words(ts[i]) \subseteq Words(Clean(ts[i]))
    BY <1>0, CleanKeeps
  <2>2. us \in Seq(Strings) /\ Len(us) = Len(ts) /\ \A i \in 1..Len(ts) : us[i] = Clean(ts[i])
    BY <1>0, <2>1
  <2> HIDE DEF us
  <2>3. Keeps(ts, us)
    BY <2>1, <2>2 DEF Keeps
  <2> QED
    BY <2>3 DEF us, Map
<1>3. Keeps(ts, Map(Escape, ts)) /\ \A u \in ItemsOf(Map(Escape, ts)) : ~Has(u, "|")
  <2> DEFINE us == [i \in 1..Len(ts) |-> Escape(ts[i])]
  <2>1. \A i \in 1..Len(ts) : /\ Escape(ts[i]) \in Strings /\ Words(ts[i]) \subseteq Words(Escape(ts[i]))
                              /\ ~Has(Escape(ts[i]), "|")
    BY <1>0, EscapeKeeps
  <2>2. us \in Seq(Strings) /\ Len(us) = Len(ts) /\ \A i \in 1..Len(ts) : us[i] = Escape(ts[i])
    BY <1>0, <2>1
  <2> HIDE DEF us
  <2>3. Keeps(ts, us) /\ \A u \in ItemsOf(us) : ~Has(u, "|")
    BY <2>1, <2>2 DEF Keeps, ItemsOf
  <2> QED
    BY <2>3 DEF us, Map
<1> QED
  BY <1>1, <1>2, <1>3

\* The texts of a section that a file shows in any format.
Drawn(s) ==
    {s.heading} \cup ItemsOf(s.paragraphs) \cup ItemsOf(s.bullets)
    \cup UNION {ItemsOf(row) : row \in ItemsOf(s.table.rows)}
ShowsAll(s, bs) == \A t \in Drawn(s) : Words(t) \subseteq WordsShown(bs)

LEMMA SectionFields ==
    ASSUME NEW s \in Sections
    PROVE  /\ s.heading \in Strings /\ s.paragraphs \in Seq(Strings) /\ s.bullets \in Seq(Strings)
           /\ s.table.columns \in Seq(Strings) /\ s.table.rows \in Seq(Seq(Strings))
BY DEF Sections

LEMMA DrawnShows ==
    ASSUME NEW s \in Sections, NEW h \in Strings, NEW head, NEW ps, NEW bs,
           NEW columns \in Seq(Strings), NEW rows \in Seq(Seq(Strings)), NEW tb,
           Heads(head, h), Words(s.heading) \subseteq Words(h),
           Keeps(s.paragraphs, ps), Keeps(s.bullets, bs), Len(rows) = Len(s.table.rows),
           \A i \in 1..Len(rows) : Keeps(s.table.rows[i], rows[i]),
           tb = TableBlocks(columns, rows) \/ (tb = <<>> /\ s.table.rows = <<>>),
           NEW all, all = TopOf(head, ps, bs) \o tb
    PROVE  /\ all \in Seq(Blocks) /\ ShowsAll(s, all)
           /\ \A b \in ItemsOf(all) : b.kind = "row" => b.texts \in ItemsOf(rows)
<1> DEFINE top == TopOf(head, ps, bs)
<1>0. ps \in Seq(Strings) /\ bs \in Seq(Strings)
  BY DEF Keeps
<1>1. /\ top \in Seq(Blocks) /\ \A b \in ItemsOf(top) : b.kind # "row"
      /\ \A t \in {h} \cup ItemsOf(ps) \cup ItemsOf(bs) : Words(t) \subseteq WordsShown(top)
  BY <1>0, TopShows
<1> HIDE DEF top
<1>2. /\ tb \in Seq(Blocks) /\ \A b \in ItemsOf(tb) : b.kind = "row" => b.texts \in ItemsOf(rows)
      /\ \A row \in ItemsOf(s.table.rows) : \A t \in ItemsOf(row) : Words(t) \subseteq WordsShown(tb)
  <2>1. CASE tb = TableBlocks(columns, rows)
    <3>1. /\ tb \in Seq(Blocks) /\ \A b \in ItemsOf(tb) : b.kind = "row" => b.texts \in ItemsOf(rows)
          /\ \A row \in ItemsOf(rows) : \A t \in ItemsOf(row) : Words(t) \subseteq WordsShown(tb)
      BY <2>1, TableShows
    <3>2. ASSUME NEW row \in ItemsOf(s.table.rows), NEW t \in ItemsOf(row)
          PROVE  Words(t) \subseteq WordsShown(tb)
      <4>1. PICK i \in 1..Len(s.table.rows) : row = s.table.rows[i]
        BY DEF ItemsOf
      <4>2. row \in Seq(Strings) /\ Keeps(row, rows[i]) /\ rows[i] \in ItemsOf(rows)
        BY <4>1, SectionFields DEF ItemsOf
      <4>3. PICK u \in ItemsOf(rows[i]) : Words(t) \subseteq Words(u)
        BY <4>2, KeptItem
      <4> QED
        BY <3>1, <4>2, <4>3
    <3> QED
      BY <3>1, <3>2
  <2>2. CASE tb = <<>> /\ s.table.rows = <<>>
    <3>1. ItemsOf(s.table.rows) = {}
      BY <2>2, NoBlock
    <3> QED
      BY <2>2, <3>1, NoBlock
  <2> QED
    BY <2>1, <2>2
<1>3. /\ top \o tb \in Seq(Blocks) /\ ItemsOf(top \o tb) = ItemsOf(top) \cup ItemsOf(tb)
      /\ WordsShown(top \o tb) = WordsShown(top) \cup WordsShown(tb)
  BY <1>1, <1>2, JoinedBlocks
<1>4. ASSUME NEW t \in {s.heading} \cup ItemsOf(s.paragraphs) \cup ItemsOf(s.bullets)
      PROVE  Words(t) \subseteq WordsShown(top)
  <2>1. CASE t = s.heading
    BY <1>1, <2>1
  <2>2. CASE t \in ItemsOf(s.paragraphs)
    <3>1. PICK u \in ItemsOf(ps) : Words(t) \subseteq Words(u)
      BY <2>2, SectionFields, KeptItem
    <3> QED
      BY <1>1, <3>1
  <2>3. CASE t \in ItemsOf(s.bullets)
    <3>1. PICK u \in ItemsOf(bs) : Words(t) \subseteq Words(u)
      BY <2>3, SectionFields, KeptItem
    <3> QED
      BY <1>1, <3>1
  <2> QED
    BY <2>1, <2>2, <2>3
<1>5. \A t \in Drawn(s) : Words(t) \subseteq WordsShown(top) \cup WordsShown(tb)
  <2> SUFFICES ASSUME NEW t \in Drawn(s) PROVE Words(t) \subseteq WordsShown(top) \cup WordsShown(tb)
    OBVIOUS
  <2>1. CASE t \in {s.heading} \cup ItemsOf(s.paragraphs) \cup ItemsOf(s.bullets)
    BY <1>4, <2>1
  <2>2. CASE t \in UNION {ItemsOf(row) : row \in ItemsOf(s.table.rows)}
    BY <1>2, <2>2
  <2> QED
    BY <2>1, <2>2 DEF Drawn
<1>6. /\ top \o tb \in Seq(Blocks) /\ ShowsAll(s, top \o tb)
      /\ \A b \in ItemsOf(top \o tb) : b.kind = "row" => b.texts \in ItemsOf(rows)
  BY <1>1, <1>2, <1>3, <1>5 DEF ShowsAll
<1> QED
  BY <1>6 DEF top

\* What the blocks of a section are, by format.
SectionOf(fmt, s) ==
    CASE fmt = "md" -> RenderMarkdown(s)
      [] fmt = "docx" -> RenderDocx(s)
      [] fmt = "xlsx" -> RenderXlsx(s)
      [] fmt = "pdf" -> RenderPdf(s)

LEMMA NoWords == Words(<<>>) = {}
<1>1. Len(<<>>) = 0 /\ 1..0 = {}
  OBVIOUS
<1> QED
  BY <1>1 DEF Words

HeadOf(s, h) == IF s.heading = <<>> THEN <<>> ELSE <<Block("heading", <<h>>)>>

LEMMA TopIs ==
    ASSUME NEW s \in Sections
    PROVE  /\ Top(s, Same) = TopOf(HeadOf(s, Same(s.heading)), Map(Same, s.paragraphs), Map(Same, s.bullets))
           /\ Top(s, Clean) = TopOf(HeadOf(s, Clean(s.heading)), Map(Clean, s.paragraphs), Map(Clean, s.bullets))
<1> DEFINE ps == s.paragraphs
           bs == s.bullets
<1>1. /\ ps \in Seq(Strings) /\ bs \in Seq(Strings) /\ Len(ps) \in Nat /\ Len(bs) \in Nat
  BY SectionFields
<1>2. /\ Len(Map(Same, ps)) = Len(ps) /\ \A i \in 1..Len(ps) : Map(Same, ps)[i] = Same(ps[i])
      /\ Len(Map(Clean, ps)) = Len(ps) /\ \A i \in 1..Len(ps) : Map(Clean, ps)[i] = Clean(ps[i])
      /\ Len(Map(Same, bs)) = Len(bs) /\ \A i \in 1..Len(bs) : Map(Same, bs)[i] = Same(bs[i])
      /\ Len(Map(Clean, bs)) = Len(bs) /\ \A i \in 1..Len(bs) : Map(Clean, bs)[i] = Clean(bs[i])
  BY <1>1 DEF Map
<1>3. /\ Each("paragraph", Map(Same, ps)) = Map(LAMBDA p : Block("paragraph", <<Same(p)>>), ps)
      /\ Each("paragraph", Map(Clean, ps)) = Map(LAMBDA p : Block("paragraph", <<Clean(p)>>), ps)
      /\ Each("bullet", Map(Same, bs)) = Map(LAMBDA b : Block("bullet", <<Same(b)>>), bs)
      /\ Each("bullet", Map(Clean, bs)) = Map(LAMBDA b : Block("bullet", <<Clean(b)>>), bs)
  <2> HIDE DEF ps, bs
  <2> QED
    BY <1>2 DEF Each, Map
<1> QED
  BY <1>3 DEF Top, TopOf, HeadOf

LEMMA RowsAre ==
    ASSUME NEW s \in Sections
    PROVE  /\ TableOf(s, Same, Escape) =
                IF s.table = NoTable THEN <<>>
                ELSE TableBlocks(Map(Same, s.table.columns), Map(LAMBDA row : Map(Escape, row), s.table.rows))
           /\ TableOf(s, Same, Same) =
                IF s.table = NoTable THEN <<>>
                ELSE TableBlocks(Map(Same, s.table.columns), Map(LAMBDA row : Map(Same, row), s.table.rows))
           /\ TableOf(s, Clean, Clean) =
                IF s.table = NoTable THEN <<>>
                ELSE TableBlocks(Map(Clean, s.table.columns), Map(LAMBDA row : Map(Clean, row), s.table.rows))
<1> DEFINE rows == s.table.rows
           E(row) == Map(Escape, row)
           I(row) == Map(Same, row)
           C(row) == Map(Clean, row)
<1>1. rows \in Seq(Seq(Strings)) /\ Len(rows) \in Nat
  BY SectionFields
<1> HIDE DEF rows, E, I, C
<1>2. /\ RowBlocks(Map(E, rows)) = Map(LAMBDA row : Block("row", E(row)), rows)
      /\ RowBlocks(Map(I, rows)) = Map(LAMBDA row : Block("row", I(row)), rows)
      /\ RowBlocks(Map(C, rows)) = Map(LAMBDA row : Block("row", C(row)), rows)
  BY <1>1 DEF RowBlocks, Map
<1>3. /\ RowBlocks(Map(LAMBDA row : Map(Escape, row), s.table.rows))
            = Map(LAMBDA row : Block("row", Map(Escape, row)), s.table.rows)
      /\ RowBlocks(Map(LAMBDA row : Map(Same, row), s.table.rows))
            = Map(LAMBDA row : Block("row", Map(Same, row)), s.table.rows)
      /\ RowBlocks(Map(LAMBDA row : Map(Clean, row), s.table.rows))
            = Map(LAMBDA row : Block("row", Map(Clean, row)), s.table.rows)
  BY <1>2 DEF rows, E, I, C
<1> QED
  BY <1>3 DEF TableOf, TableBlocks

LEMMA MappedRows ==
    ASSUME NEW rows \in Seq(Seq(Strings))
    PROVE  LET e == Map(LAMBDA row : Map(Escape, row), rows)
               i == Map(LAMBDA row : Map(Same, row), rows)
               c == Map(LAMBDA row : Map(Clean, row), rows)
           IN /\ e \in Seq(Seq(Strings)) /\ Len(e) = Len(rows) /\ \A k \in 1..Len(rows) : Keeps(rows[k], e[k])
              /\ i \in Seq(Seq(Strings)) /\ Len(i) = Len(rows) /\ \A k \in 1..Len(rows) : Keeps(rows[k], i[k])
              /\ c \in Seq(Seq(Strings)) /\ Len(c) = Len(rows) /\ \A k \in 1..Len(rows) : Keeps(rows[k], c[k])
              /\ \A row \in ItemsOf(e) : \A u \in ItemsOf(row) : ~Has(u, "|")
<1>1. Len(rows) \in Nat /\ \A k \in 1..Len(rows) : rows[k] \in Seq(Strings)
  OBVIOUS
<1> DEFINE E(row) == Map(Escape, row)
           I(row) == Map(Same, row)
           C(row) == Map(Clean, row)
           e == [k \in 1..Len(rows) |-> E(rows[k])]
           i == [k \in 1..Len(rows) |-> I(rows[k])]
           c == [k \in 1..Len(rows) |-> C(rows[k])]
<1>2. \A k \in 1..Len(rows) :
        /\ Keeps(rows[k], E(rows[k])) /\ Keeps(rows[k], I(rows[k])) /\ Keeps(rows[k], C(rows[k]))
        /\ \A u \in ItemsOf(E(rows[k])) : ~Has(u, "|")
  BY <1>1, MapsKeep
<1>3. \A k \in 1..Len(rows) :
        /\ E(rows[k]) \in Seq(Strings) /\ I(rows[k]) \in Seq(Strings) /\ C(rows[k]) \in Seq(Strings)
  BY <1>2 DEF Keeps
<1> HIDE DEF E, I, C
<1>4. /\ e \in Seq(Seq(Strings)) /\ Len(e) = Len(rows) /\ \A k \in 1..Len(rows) : e[k] = E(rows[k])
      /\ i \in Seq(Seq(Strings)) /\ Len(i) = Len(rows) /\ \A k \in 1..Len(rows) : i[k] = I(rows[k])
      /\ c \in Seq(Seq(Strings)) /\ Len(c) = Len(rows) /\ \A k \in 1..Len(rows) : c[k] = C(rows[k])
  BY <1>1, <1>3
<1> HIDE DEF e, i, c
<1>5. /\ \A k \in 1..Len(rows) : Keeps(rows[k], e[k]) /\ Keeps(rows[k], i[k]) /\ Keeps(rows[k], c[k])
      /\ \A row \in ItemsOf(e) : \A u \in ItemsOf(row) : ~Has(u, "|")
  BY <1>2, <1>4, SMTT(20) DEF ItemsOf
<1>6. /\ e = Map(LAMBDA row : Map(Escape, row), rows)
      /\ i = Map(LAMBDA row : Map(Same, row), rows)
      /\ c = Map(LAMBDA row : Map(Clean, row), rows)
  BY DEF e, i, c, E, I, C, Map
<1> QED
  BY <1>4, <1>5, <1>6

\* Each format shows the words of a section, and Markdown no bar in a cell.
LEMMA SectionShows ==
    ASSUME NEW s \in Sections, NEW fmt \in Formats
    PROVE  /\ SectionOf(fmt, s) \in Seq(Blocks)
           /\ ShowsAll(s, SectionOf(fmt, s))
           /\ fmt = "md" => \A b \in ItemsOf(SectionOf(fmt, s)) :
                b.kind = "row" => \A u \in ItemsOf(b.texts) : ~Has(u, "|")
<1> DEFINE hs == HeadOf(s, Same(s.heading))
           hc == HeadOf(s, Clean(s.heading))
           cols == s.table.columns
           rows == s.table.rows
           E == Map(LAMBDA row : Map(Escape, row), rows)
           I == Map(LAMBDA row : Map(Same, row), rows)
           C == Map(LAMBDA row : Map(Clean, row), rows)
           sp == Map(Same, s.paragraphs)
           sb == Map(Same, s.bullets)
           cp == Map(Clean, s.paragraphs)
           cb == Map(Clean, s.bullets)
           sc == Map(Same, cols)
           cc == Map(Clean, cols)
<1>0. /\ s.heading \in Strings /\ s.paragraphs \in Seq(Strings) /\ s.bullets \in Seq(Strings)
      /\ cols \in Seq(Strings) /\ rows \in Seq(Seq(Strings))
  BY SectionFields
<1>1. /\ Heads(hs, Same(s.heading))
      /\ Same(s.heading) \in Strings /\ Words(s.heading) \subseteq Words(Same(s.heading))
  BY <1>0, NoWords DEF Same, HeadOf, Heads
<1>2. /\ Heads(hc, Clean(s.heading))
      /\ Clean(s.heading) \in Strings /\ Words(s.heading) \subseteq Words(Clean(s.heading))
  <2>1. Clean(s.heading) \in Strings /\ Words(s.heading) \subseteq Words(Clean(s.heading))
    BY <1>0, CleanKeeps
  <2>2. Clean(<<>>) = <<>>
    <3>1. Len(<<>>) = 0 /\ 1..0 = {}
      OBVIOUS
    <3>2. Kept(<<>>, {}) = Sq!FlattenSeq([i \in 1..0 |-> IF i \in {} THEN <<(<<>>[i])>> ELSE <<>>])
      BY <3>1 DEF Kept
    <3>3. [i \in 1..0 |-> IF i \in {} THEN <<(<<>>[i])>> ELSE <<>>] = <<>>
      BY <3>1
    <3>4. Sq!FlattenSeq(<<>>) = <<>>
      BY <3>1 DEF Sq!FlattenSeq
    <3>5. {i \in 1..Len(<<>>) : <<>>[i] # "ctl"} = {}
      BY <3>1
    <3> QED
      BY <3>2, <3>3, <3>4, <3>5 DEF Clean
  <2> QED
    BY <2>1, <2>2, NoWords DEF HeadOf, Heads
<1>3. Keeps(s.paragraphs, sp) /\ Keeps(s.bullets, sb) /\ Keeps(s.paragraphs, cp) /\ Keeps(s.bullets, cb)
  BY <1>0, MapsKeep
<1>4. sc \in Seq(Strings) /\ cc \in Seq(Strings)
  BY <1>0, MapsKeep DEF Keeps
<1>5. /\ E \in Seq(Seq(Strings)) /\ Len(E) = Len(rows) /\ \A k \in 1..Len(rows) : Keeps(rows[k], E[k])
      /\ I \in Seq(Seq(Strings)) /\ Len(I) = Len(rows) /\ \A k \in 1..Len(rows) : Keeps(rows[k], I[k])
      /\ C \in Seq(Seq(Strings)) /\ Len(C) = Len(rows) /\ \A k \in 1..Len(rows) : Keeps(rows[k], C[k])
      /\ \A row \in ItemsOf(E) : \A u \in ItemsOf(row) : ~Has(u, "|")
  BY <1>0, MappedRows
<1>6. /\ TableOf(s, Same, Escape) = TableBlocks(sc, E)
            \/ (TableOf(s, Same, Escape) = <<>> /\ s.table.rows = <<>>)
      /\ TableOf(s, Same, Same) = TableBlocks(sc, I)
            \/ (TableOf(s, Same, Same) = <<>> /\ s.table.rows = <<>>)
      /\ TableOf(s, Clean, Clean) = TableBlocks(cc, C)
            \/ (TableOf(s, Clean, Clean) = <<>> /\ s.table.rows = <<>>)
  <2>1. NoTable.rows = <<>>
    BY DEF NoTable
  <2> HIDE DEF E, I, C, sc, cc
  <2>2. /\ TableOf(s, Same, Escape) = IF s.table = NoTable THEN <<>> ELSE TableBlocks(sc, E)
        /\ TableOf(s, Same, Same) = IF s.table = NoTable THEN <<>> ELSE TableBlocks(sc, I)
        /\ TableOf(s, Clean, Clean) = IF s.table = NoTable THEN <<>> ELSE TableBlocks(cc, C)
    BY RowsAre DEF E, I, C, sc, cc
  <2> QED
    BY <2>1, <2>2
<1>7. /\ Top(s, Same) = TopOf(hs, sp, sb)
      /\ Top(s, Clean) = TopOf(hc, cp, cb)
  BY TopIs
<1> HIDE DEF hs, hc, E, I, C, sp, sb, cp, cb, sc, cc
<1>8. CASE fmt = "md"
  <2>1. SectionOf(fmt, s) = TopOf(hs, sp, sb) \o TableOf(s, Same, Escape)
    BY <1>7, <1>8 DEF SectionOf, RenderMarkdown
  <2>2. /\ SectionOf(fmt, s) \in Seq(Blocks) /\ ShowsAll(s, SectionOf(fmt, s))
        /\ \A b \in ItemsOf(SectionOf(fmt, s)) : b.kind = "row" => b.texts \in ItemsOf(E)
    BY <2>1, <1>0, <1>1, <1>3, <1>4, <1>5, <1>6, DrawnShows
  <2> QED
    BY <2>2, <1>5
<1>9. CASE fmt = "docx"
  <2>1. SectionOf(fmt, s) = TopOf(hs, sp, sb) \o TableOf(s, Same, Same)
    BY <1>7, <1>9 DEF SectionOf, RenderDocx
  <2>2. SectionOf(fmt, s) \in Seq(Blocks) /\ ShowsAll(s, SectionOf(fmt, s))
    BY <2>1, <1>0, <1>1, <1>3, <1>4, <1>5, <1>6, DrawnShows
  <2> QED
    BY <1>9, <2>2
<1>10. CASE fmt = "xlsx"
  <2>1. SectionOf(fmt, s) = TopOf(hc, cp, cb) \o TableOf(s, Clean, Clean)
    BY <1>7, <1>10 DEF SectionOf, RenderXlsx
  <2>2. SectionOf(fmt, s) \in Seq(Blocks) /\ ShowsAll(s, SectionOf(fmt, s))
    BY <2>1, <1>0, <1>1, <1>2, <1>3, <1>4, <1>5, <1>6, DrawnShows
  <2> QED
    BY <1>10, <2>2
<1>11. CASE fmt = "pdf"
  <2> DEFINE tb == IF s.table.rows = <<>> THEN <<>> ELSE TableOf(s, Same, Same)
  <2>1. SectionOf(fmt, s) = TopOf(hs, sp, sb) \o tb
    BY <1>7, <1>11 DEF SectionOf, RenderPdf
  <2>2. tb = TableBlocks(sc, I) \/ (tb = <<>> /\ s.table.rows = <<>>)
    BY <1>6
  <2> HIDE DEF tb
  <2>3. SectionOf(fmt, s) \in Seq(Blocks) /\ ShowsAll(s, SectionOf(fmt, s))
    BY <2>1, <2>2, <1>0, <1>1, <1>3, <1>4, <1>5, DrawnShows
  <2> QED
    BY <1>11, <2>3
<1> QED
  BY <1>8, <1>9, <1>10, <1>11 DEF Formats

\* A file shows the words of all its sections.
LEMMA RenderShows ==
    ASSUME NEW ss \in Seq(Sections), NEW fmt \in Formats
    PROVE  /\ \A i \in 1..Len(ss) : ShowsAll(ss[i], Render(ss, fmt))
           /\ fmt = "md" => \A b \in ItemsOf(Render(ss, fmt)) :
                b.kind = "row" => \A u \in ItemsOf(b.texts) : ~Has(u, "|")
<1> DEFINE P(s) == SectionOf(fmt, s)
           parts == [i \in 1..Len(ss) |-> P(ss[i])]
<1>0. Len(ss) \in Nat /\ \A i \in 1..Len(ss) : ss[i] \in Sections
  OBVIOUS
<1>1. Render(ss, fmt) = Sq!FlattenSeq(parts)
  <2>1. CASE fmt = "md"
    BY <2>1 DEF Render, SectionOf, Map
  <2>2. CASE fmt = "docx"
    BY <2>2 DEF Render, SectionOf, Map
  <2>3. CASE fmt = "xlsx"
    BY <2>3 DEF Render, SectionOf, Map
  <2>4. CASE fmt = "pdf"
    BY <2>4 DEF Render, SectionOf, Map
  <2> QED
    BY <2>1, <2>2, <2>3, <2>4 DEF Formats
<1>2. \A i \in 1..Len(ss) :
        /\ P(ss[i]) \in Seq(Blocks) /\ ShowsAll(ss[i], P(ss[i]))
        /\ fmt = "md" => \A b \in ItemsOf(P(ss[i])) : b.kind = "row" => \A u \in ItemsOf(b.texts) : ~Has(u, "|")
  BY <1>0, SectionShows
<1> HIDE DEF P
<1>3. parts \in Seq(Seq(Blocks)) /\ Len(parts) = Len(ss) /\ \A i \in 1..Len(ss) : parts[i] = P(ss[i])
  BY <1>0, <1>2
<1> HIDE DEF parts
<1>4. ItemsOf(Sq!FlattenSeq(parts)) = UNION {ItemsOf(parts[i]) : i \in 1..Len(ss)}
  BY <1>3, FlattenItems
<1>5. ASSUME NEW i \in 1..Len(ss) PROVE ShowsAll(ss[i], Render(ss, fmt))
  <2>1. ItemsOf(P(ss[i])) \subseteq ItemsOf(Render(ss, fmt))
    BY <1>1, <1>3, <1>4
  <2>2. WordsShown(P(ss[i])) \subseteq WordsShown(Render(ss, fmt))
    BY <2>1 DEF WordsShown
  <2> QED
    BY <1>2, <2>2 DEF ShowsAll
<1>6. ASSUME fmt = "md", NEW b \in ItemsOf(Render(ss, fmt)), b.kind = "row"
      PROVE  \A u \in ItemsOf(b.texts) : ~Has(u, "|")
  <2>1. PICK i \in 1..Len(ss) : b \in ItemsOf(P(ss[i]))
    BY <1>1, <1>3, <1>4
  <2> QED
    BY <1>2, <1>6, <2>1
<1> QED
  BY <1>5, <1>6

-----------------------------------------------------------------------------
(* The sheet: its tables are in shape, and it has what the result says. *)

InShape(ss) ==
    /\ ss \in Seq(Sections)
    /\ \A s \in ItemsOf(ss) : \A row \in ItemsOf(s.table.rows) : Len(row) = Len(s.table.columns)

Says(ss, t) == \A w \in Words(t) : \E s \in ItemsOf(ss) : \E u \in Drawn(s) : w \in Words(u)

LEMMA NoText == <<>> \in Strings /\ <<>> \in Seq(Strings) /\ ItemsOf(<<>>) = {}
                /\ <<>> \in Seq(Seq(Strings)) /\ IsJson(Text(<<>>)) /\ IsJson(List(<<>>)) /\ IsJson(Null)
<1>1. Len(<<>>) = 0 /\ 1..0 = {}
  OBVIOUS
<1>2. <<>> \in Seq(Atoms) /\ <<>> \in Seq(Values)
  OBVIOUS
<1>3. IsJson(Text(<<>>)) /\ IsJson(List(<<>>)) /\ IsJson(Null)
  BY <1>2 DEF IsJson, Text, List
<1>4. <<>> \in Strings
  BY DEF Strings
<1> QED
  BY <1>1, <1>3, <1>4 DEF ItemsOf

LEMMA OneItem ==
    ASSUME NEW T, NEW x \in T
    PROVE  <<x>> \in Seq(T) /\ ItemsOf(<<x>>) = {x}
<1>1. Len(<<x>>) = 1 /\ <<x>>[1] = x /\ 1..1 = {1} /\ <<x>> \in Seq(T)
  OBVIOUS
<1> QED
  BY <1>1 DEF ItemsOf

LEMMA OwnTexts ==
    \A a \in Own : <<a>> \in Strings /\ <<(<<a>>)>> \in Seq(Strings) /\ Words(<<a>>) \subseteq {a}
<1> SUFFICES ASSUME NEW a \in Own
             PROVE  <<a>> \in Strings /\ <<(<<a>>)>> \in Seq(Strings) /\ Words(<<a>>) \subseteq {a}
  OBVIOUS
<1>1. <<a>> \in Strings /\ Words(<<a>>) \subseteq {a}
  BY AtomsAreMarks DEF Marks
<1> QED
  BY <1>1, OneItem

\* A section without a table.
Plain(s, h, ps, bs) ==
    h \in Strings /\ ps \in Seq(Strings) /\ bs \in Seq(Strings) /\ s = Section(h, ps, bs, NoTable)

LEMMA PlainSection ==
    ASSUME NEW s, NEW h, NEW ps, NEW bs, Plain(s, h, ps, bs)
    PROVE  /\ s \in Sections /\ ItemsOf(s.table.rows) = {}
           /\ Drawn(s) = {h} \cup ItemsOf(ps) \cup ItemsOf(bs)
<1>0. h \in Strings /\ ps \in Seq(Strings) /\ bs \in Seq(Strings) /\ s = Section(h, ps, bs, NoTable)
  BY DEF Plain
<1>1. s \in Sections /\ s.heading = h /\ s.paragraphs = ps /\ s.bullets = bs /\ s.table.rows = <<>>
  BY <1>0, NoText DEF Section, Sections, NoTable
<1>2. ItemsOf(s.table.rows) = {}
  BY <1>1, NoText
<1>3. Drawn(s) = {h} \cup ItemsOf(ps) \cup ItemsOf(bs)
  BY <1>1, <1>2 DEF Drawn
<1> QED
  BY <1>1, <1>2, <1>3

LEMMA BulletsSay ==
    ASSUME NEW k \in Own, NEW v, IsJson(v)
    PROVE  LET s == BulletSection(k, v) IN
           /\ s \in Sections /\ ItemsOf(s.table.rows) = {}
           /\ \A x \in Items(v) : x.is = "text" =>
                \A w \in Words(x.text) : \E u \in Drawn(s) : w \in Words(u)
<1> DEFINE l == AsList(v)
           bs == IF l = <<>> THEN <<(<<"dash">>)>> ELSE l
           s == Section(<<k>>, <<>>, bs, NoTable)
<1>1. BulletSection(k, v) = s
  BY DEF BulletSection
<1>2. /\ l \in Seq(Strings)
      /\ \A x \in Items(v) : x.is = "text" /\ NonBlank(x.text) => x.text \in ItemsOf(l)
  BY AsListItems
<1>3. <<k>> \in Strings /\ bs \in Seq(Strings)
  BY <1>2, OwnTexts DEF Own
<1>4. ASSUME NEW x \in Items(v), x.is = "text", NEW w \in Words(x.text) PROVE x.text \in ItemsOf(bs)
  <2>0. x.text \in Strings
    <3>1. v.is = "list" /\ \E i \in 1..Len(v.items) : x = v.items[i]
      BY <1>4 DEF Items
    <3>2. IsJson(x)
      BY <3>1, ItemsAreJson
    <3> QED
      BY <3>2, <1>4, StrOf
  <2>1. NonBlank(x.text)
    BY <1>4, <2>0, WordsShow
  <2>2. x.text \in ItemsOf(l)
    BY <1>2, <1>4, <2>1
  <2>3. l # <<>>
    BY <2>2, NoText
  <2> QED
    BY <2>2, <2>3
<1> HIDE DEF l, bs
<1>5. /\ s \in Sections /\ ItemsOf(s.table.rows) = {}
      /\ ItemsOf(bs) \subseteq Drawn(s)
  <2> DEFINE h == <<k>>
             ps == <<>>
  <2>1. Plain(s, h, ps, bs)
    BY <1>3, NoText DEF Plain
  <2> HIDE DEF h, ps, s
  <2> QED
    BY <2>1, PlainSection
<1> HIDE DEF s
<1>6. \A x \in Items(v) : x.is = "text" => \A w \in Words(x.text) : \E u \in Drawn(s) : w \in Words(u)
  BY <1>4, <1>5
<1> QED
  BY <1>1, <1>5, <1>6

\* A result has the keys of its type, of any JSON values.
LEMMA SchemasAre ==
    /\ DOMAIN JsonSchemas["keypoints"] = {"dates", "names", "numbers", "decisions"}
    /\ DOMAIN JsonSchemas["quiz"] = {"questions"}
    /\ DOMAIN JsonSchemas["extract"] = {"columns", "records"}
    /\ DOMAIN JsonSchemas["compare"] = {"summary", "only_in_a", "only_in_b", "changed"}
    /\ \A t \in DOMAIN JsonSchemas : \A k \in DOMAIN JsonSchemas[t] : IsJson(JsonSchemas[t][k])
<1>1. /\ DOMAIN JsonSchemas["keypoints"] = {"dates", "names", "numbers", "decisions"}
      /\ DOMAIN JsonSchemas["quiz"] = {"questions"}
      /\ DOMAIN JsonSchemas["extract"] = {"columns", "records"}
      /\ DOMAIN JsonSchemas["compare"] = {"summary", "only_in_a", "only_in_b", "changed"}
  BY DEF JsonSchemas
<1>2. \A k \in DOMAIN JsonSchemas["keypoints"] : IsJson(JsonSchemas["keypoints"][k])
  BY NoText DEF JsonSchemas
<1>3. \A k \in DOMAIN JsonSchemas["quiz"] : IsJson(JsonSchemas["quiz"][k])
  BY NoText DEF JsonSchemas
<1>4. \A k \in DOMAIN JsonSchemas["extract"] : IsJson(JsonSchemas["extract"][k])
  BY NoText DEF JsonSchemas
<1>5. \A k \in DOMAIN JsonSchemas["compare"] : IsJson(JsonSchemas["compare"][k])
  BY NoText DEF JsonSchemas
<1> QED
  BY <1>1, <1>2, <1>3, <1>4, <1>5, SchemaKeys

LEMMA ParsedIsJson ==
    ASSUME NEW t \in Types, NEW raw \in Answers[t], ParseJson(raw).is = "dict"
    PROVE  IsJson(ParseJson(raw))
<1> DEFINE Readable == {i \in 1..4 : raw.reads[i].is # "unreadable"}
           f == [i \in Readable |-> i]
<1>0. None.is = "none"
  BY DEF None
<1>1. Readable # {} /\ ParseJson(raw) = raw.reads[CHOOSE i \in Readable : \A j \in Readable : i <= j]
  BY <1>0 DEF ParseJson
<1>2. \A i \in 1..4 : raw.reads[i] \in Values \cup {Unreadable}
  BY ContentAssumption
<1>3. f \in [Readable -> Nat] /\ \A i \in Readable : i \in 1..4
  OBVIOUS
<1>4. \E i \in Readable : \A j \in Readable : i <= j
  <2>1. \E i \in Readable : \A j \in Readable : f[i] <= f[j]
    <3> HIDE DEF Readable, f
    <3> QED
      BY <1>1, <1>3, LeastOf
  <2> QED
    BY <2>1
<1> HIDE DEF Readable
<1>5. PICK i \in 1..4 : ParseJson(raw) = raw.reads[i]
  BY <1>1, <1>3, <1>4
<1>6. Unreadable.is = "unreadable"
  BY DEF Unreadable
<1>7. ParseJson(raw) \in Values
  BY <1>2, <1>5, <1>6
<1> QED
  BY <1>7, ContentAssumption

LEMMA ResultType ==
    ASSUME NEW t \in DOMAIN JsonSchemas, NEW raw \in Answers[t]
    PROVE  LET r == ShapeResult(t, raw) IN
           /\ DOMAIN r.fields = DOMAIN JsonSchemas[t] \/ DOMAIN r.fields = DOMAIN JsonSchemas[t] \cup {"raw"}
           /\ \A k \in DOMAIN JsonSchemas[t] : k \in DOMAIN r.fields /\ IsJson(r.fields[k])
<1> DEFINE keys == JsonSchemas[t]
           parsed == ParseJson(raw)
           r == ShapeResult(t, raw)
<1>0. t \in Types /\ \A k \in DOMAIN keys : IsJson(keys[k])
  BY SchemasAre, SchemaKeys DEF Types
<1>1. r = ParseJsonObject(raw, keys)
  BY DEF ShapeResult
<1>2. CASE parsed.is = "dict"
  <2>1. r.fields = [k \in DOMAIN keys |->
                      IF Get(parsed, k, keys[k]) = Null THEN keys[k] ELSE Get(parsed, k, keys[k])]
    BY <1>1, <1>2 DEF ParseJsonObject, Dict
  <2>2. \A k \in DOMAIN parsed.fields : IsJson(parsed.fields[k])
    BY <1>0, <1>2, ParsedIsJson, FieldsAreJson
  <2> HIDE DEF r, parsed, keys
  <2>3. \A k \in DOMAIN keys : IsJson(Get(parsed, k, keys[k]))
    BY <1>0, <2>2 DEF Get
  <2> QED
    BY <1>0, <2>1, <2>3 DEF r, keys
<1>3. CASE parsed.is # "dict"
  <2>1. r.fields = [k \in DOMAIN keys \cup {"raw"} |-> IF k = "raw" THEN Text(raw.text) ELSE keys[k]]
    BY <1>1, <1>3 DEF ParseJsonObject, Dict
  <2>2. "raw" \notin DOMAIN keys
    BY SchemasAre, SchemaKeys
  <2> HIDE DEF r, parsed, keys
  <2> QED
    BY <1>0, <2>1, <2>2 DEF r, keys
<1> QED
  BY <1>2, <1>3

\* Sheets put together of sections in shape.
LEMMA JoinedShape ==
    ASSUME NEW a, InShape(a), NEW b, InShape(b)
    PROVE  InShape(a \o b) /\ ItemsOf(a \o b) = ItemsOf(a) \cup ItemsOf(b)
<1>1. a \in Seq(Sections) /\ b \in Seq(Sections)
  BY DEF InShape
<1>2. a \o b \in Seq(Sections) /\ ItemsOf(a \o b) = ItemsOf(a) \cup ItemsOf(b)
  BY <1>1, JoinedItems
<1> QED
  BY <1>2 DEF InShape

LEMMA OneShape ==
    ASSUME NEW s \in Sections, \A row \in ItemsOf(s.table.rows) : Len(row) = Len(s.table.columns)
    PROVE  InShape(<<s>>) /\ ItemsOf(<<s>>) = {s}
<1>1. <<s>> \in Seq(Sections) /\ ItemsOf(<<s>>) = {s}
  BY OneItem
<1> QED
  BY <1>1 DEF InShape

\* A section of bullets for each key.
LEMMA BulletSheet ==
    ASSUME NEW r, NEW n \in Nat, NEW K, NEW ss,
           \A i \in 1..n : K[i] \in Own /\ K[i] \in DOMAIN r.fields /\ IsJson(r.fields[K[i]]),
           ss = [i \in 1..n |-> BulletSection(K[i], Get(r, K[i], Null))]
    PROVE  /\ InShape(ss)
           /\ \A i \in 1..n : \A x \in Items(r.fields[K[i]]) : x.is = "text" => Says(ss, x.text)
<1>1. \A i \in 1..n : Get(r, K[i], Null) = r.fields[K[i]]
  BY DEF Get
<1>2. \A i \in 1..n : ss[i] = BulletSection(K[i], r.fields[K[i]])
  BY <1>1
<1>3. \A i \in 1..n :
        /\ ss[i] \in Sections /\ ItemsOf(ss[i].table.rows) = {}
        /\ \A x \in Items(r.fields[K[i]]) : x.is = "text" =>
             \A w \in Words(x.text) : \E u \in Drawn(ss[i]) : w \in Words(u)
  BY <1>2, BulletsSay
<1>4. ss \in Seq(Sections) /\ Len(ss) = n
  BY <1>3
<1>5. \A i \in 1..n : ss[i] \in ItemsOf(ss)
  BY <1>4 DEF ItemsOf
<1>6. \A s \in ItemsOf(ss) : ItemsOf(s.table.rows) = {}
  <2> SUFFICES ASSUME NEW s \in ItemsOf(ss) PROVE ItemsOf(s.table.rows) = {}
    OBVIOUS
  <2>1. PICK i \in 1..n : s = ss[i]
    BY <1>4 DEF ItemsOf
  <2> QED
    BY <1>3, <2>1
<1>7. InShape(ss)
  BY <1>4, <1>6 DEF InShape
<1>8. ASSUME NEW i \in 1..n, NEW x \in Items(r.fields[K[i]]), x.is = "text" PROVE Says(ss, x.text)
  BY <1>3, <1>5, <1>8 DEF Says
<1> QED
  BY <1>7, <1>8

LEMMA SaysMore ==
    ASSUME NEW a, NEW b, NEW t, Says(a, t), ItemsOf(a) \subseteq ItemsOf(b)
    PROVE  Says(b, t)
BY DEF Says

\* What the result of a type is.
ResultOf(t, r) ==
    IF t \in DOMAIN JsonSchemas
    THEN /\ DOMAIN r.fields = DOMAIN JsonSchemas[t] \/ DOMAIN r.fields = DOMAIN JsonSchemas[t] \cup {"raw"}
         /\ \A k \in DOMAIN JsonSchemas[t] : k \in DOMAIN r.fields /\ IsJson(r.fields[k])
    ELSE \E x \in Strings : r = Dict([k \in {"text"} |-> Text(x)])

LEMMA Shaped ==
    ASSUME NEW t \in Types, NEW raw \in Answers[t]
    PROVE  ResultOf(t, ShapeResult(t, raw))
<1>1. CASE t \in DOMAIN JsonSchemas
  BY <1>1, ResultType DEF ResultOf
<1>2. CASE t \notin DOMAIN JsonSchemas
  <2>1. raw.text \in Strings
    BY ContentAssumption, AtomsAreMarks
  <2> QED
    BY <1>2, <2>1 DEF ResultOf, ShapeResult
<1> QED
  BY <1>1, <1>2

LEMMA NullIsNoText == Null.is # "text" /\ Null.is # "list" /\ Null.is # "dict"
BY DEF Null

LEMMA KeypointsSay ==
    ASSUME job.type = "keypoints", ResultOf("keypoints", result),
           NEW ss, ss = BuildSections("keypoints", result)
    PROVE  InShape(ss) /\ \A t \in Said : Says(ss, t)
<1> DEFINE K == <<"dates", "names", "numbers", "decisions">>
           D == {"dates", "names", "numbers", "decisions"}
<1>1. ss = [i \in 1..4 |-> BulletSection(K[i], Get(result, K[i], Null))]
  BY DEF BuildSections, KeypointsSections
<1>2. /\ DOMAIN result.fields = D \/ DOMAIN result.fields = D \cup {"raw"}
      /\ \A k \in D : k \in DOMAIN result.fields /\ IsJson(result.fields[k])
  BY SchemasAre, SchemaKeys DEF ResultOf
<1>3. \A i \in 1..4 : K[i] \in D /\ K[i] \in Own
  BY DEF Own
<1>4. \A k \in D : \E i \in 1..4 : K[i] = k
  OBVIOUS
<1>5. Said = TextsIn({Get(result, "summary", Null)} \cup UNION {Items(result.fields[k]) : k \in D \ {"summary"}})
  BY SchemasAre DEF Said
<1>6. Get(result, "summary", Null) = Null
  BY <1>2 DEF Get
<1> HIDE DEF K, D
<1>7. /\ InShape(ss)
      /\ \A i \in 1..4 : \A x \in Items(result.fields[K[i]]) : x.is = "text" => Says(ss, x.text)
  BY <1>1, <1>2, <1>3, BulletSheet
<1>8. ASSUME NEW t \in Said PROVE Says(ss, t)
  <2>1. PICK x \in {Null} \cup UNION {Items(result.fields[k]) : k \in D \ {"summary"}} : x.is = "text" /\ t = x.text
    BY <1>5, <1>6, <1>8 DEF TextsIn
  <2>2. PICK k \in D : x \in Items(result.fields[k])
    BY <2>1, NullIsNoText
  <2> QED
    BY <1>4, <1>7, <2>1, <2>2
<1> QED
  BY <1>7, <1>8

LEMMA SummarySays ==
    ASSUME NEW v, IsJson(v), NEW s, s = Section(<<"summary">>, Paragraphs(Str(v)), <<>>, NoTable)
    PROVE  InShape(<<s>>) /\ ItemsOf(<<s>>) = {s} /\ (v.is = "text" => Says(<<s>>, v.text))
<1> DEFINE h == <<"summary">>
           ps == Paragraphs(Str(v))
           bs == <<>>
<1>1. Str(v) \in Strings /\ (v.is = "text" => Str(v) = v.text)
  BY StrOf
<1>2. /\ ps \in Seq(Strings)
      /\ \A w \in Words(Str(v)) : \E u \in ItemsOf(ps) : w \in Words(u)
  BY <1>1, ParagraphsHold
<1>3. Plain(s, h, ps, bs)
  <2>1. h \in Strings /\ bs \in Seq(Strings)
    BY NoText, OwnTexts DEF Own
  <2> QED
    BY <1>2, <2>1 DEF Plain
<1> HIDE DEF h, ps, bs
<1>4. /\ s \in Sections /\ ItemsOf(s.table.rows) = {}
      /\ Drawn(s) = {h} \cup ItemsOf(ps) \cup ItemsOf(bs)
  BY <1>3, PlainSection
<1>5. InShape(<<s>>) /\ ItemsOf(<<s>>) = {s}
  BY <1>4, OneShape
<1>6. ASSUME v.is = "text" PROVE Says(<<s>>, v.text)
  BY <1>1, <1>2, <1>4, <1>5, <1>6 DEF Says
<1> QED
  BY <1>5, <1>6

LEMMA CompareSays ==
    ASSUME job.type = "compare", ResultOf("compare", result),
           NEW ss, ss = BuildSections("compare", result)
    PROVE  InShape(ss) /\ \A t \in Said : Says(ss, t)
<1> DEFINE K == <<"only_in_a", "only_in_b", "changed">>
           D == {"summary", "only_in_a", "only_in_b", "changed"}
           v == result.fields["summary"]
           s == Section(<<"summary">>, Paragraphs(Str(v)), <<>>, NoTable)
           tail == [i \in 1..3 |-> BulletSection(K[i], Get(result, K[i], Null))]
<1>2. \A k \in D : k \in DOMAIN result.fields /\ IsJson(result.fields[k])
  BY SchemasAre, SchemaKeys DEF ResultOf
<1>1. ss = <<s>> \o tail
  BY <1>2 DEF BuildSections, CompareSections, Get
<1>3. \A i \in 1..3 : K[i] \in D /\ K[i] \in Own
  BY DEF Own
<1>4. \A k \in D \ {"summary"} : \E i \in 1..3 : K[i] = k
  OBVIOUS
<1>5. Said = TextsIn({Get(result, "summary", Null)} \cup UNION {Items(result.fields[k]) : k \in D \ {"summary"}})
  BY SchemasAre DEF Said
<1>6. Get(result, "summary", Null) = v /\ IsJson(v)
  BY <1>2 DEF Get
<1>7. InShape(<<s>>) /\ ItemsOf(<<s>>) = {s} /\ (v.is = "text" => Says(<<s>>, v.text))
  BY <1>6, SummarySays
<1> HIDE DEF K, D, s, v
<1>8. /\ InShape(tail)
      /\ \A i \in 1..3 : \A x \in Items(result.fields[K[i]]) : x.is = "text" => Says(tail, x.text)
  BY <1>2, <1>3, BulletSheet
<1> HIDE DEF tail
<1>9. InShape(ss) /\ ItemsOf(<<s>>) \subseteq ItemsOf(ss) /\ ItemsOf(tail) \subseteq ItemsOf(ss)
  <2> DEFINE head == <<s>>
  <2>1. InShape(head) /\ ss = head \o tail
    BY <1>1, <1>7
  <2> HIDE DEF head
  <2>2. InShape(ss) /\ ItemsOf(ss) = ItemsOf(head) \cup ItemsOf(tail)
    BY <1>8, <2>1, JoinedShape
  <2> QED
    BY <2>2 DEF head
<1>10. ASSUME NEW t \in Said PROVE Says(ss, t)
  <2>1. PICK x \in {v} \cup UNION {Items(result.fields[k]) : k \in D \ {"summary"}} : x.is = "text" /\ t = x.text
    BY <1>5, <1>6, <1>10 DEF TextsIn
  <2>2. CASE x = v
    BY <1>7, <1>9, <2>1, <2>2, SaysMore
  <2>3. CASE x # v
    <3>1. PICK k \in D \ {"summary"} : x \in Items(result.fields[k])
      BY <2>1, <2>3
    <3>2. Says(tail, t)
      BY <1>4, <1>8, <2>1, <3>1
    <3> QED
      BY <3>2, <1>9, SaysMore
  <2> QED
    BY <2>2, <2>3
<1> QED
  BY <1>9, <1>10

\* A summary or a translation is its paragraphs.
LEMMA TextSays ==
    ASSUME NEW T \in Types \ DOMAIN JsonSchemas, job.type = T, ResultOf(T, result),
           NEW ss, ss = BuildSections(T, result)
    PROVE  InShape(ss) /\ \A t \in Said : Says(ss, t)
<1>0. T \notin {"keypoints", "quiz", "extract", "compare"}
  BY SchemaKeys
<1>1. PICK x \in Strings : result = Dict([k \in {"text"} |-> Text(x)])
  BY DEF ResultOf
<1>2. result.fields = [k \in {"text"} |-> Text(x)]
  BY <1>1 DEF Dict
<1>3. "text" \in DOMAIN result.fields /\ result.fields["text"] = Text(x)
  BY <1>2
<1>4. Text(x).text = x /\ Text(x).is = "text"
  BY DEF Text
<1>5. Str(Get(result, "text", Text(<<>>))) = x
  BY <1>3, <1>4 DEF Get, Str
<1>6. Said = {x}
  BY <1>0, <1>3, <1>4 DEF Said
<1> DEFINE body == Paragraphs(x)
           ps == IF body = <<>> THEN <<(<<"empty">>)>> ELSE body
           e == <<>>
           s == Section(e, ps, e, NoTable)
<1>7. ss = <<s>>
  BY <1>0, <1>5 DEF BuildSections
<1>8. /\ body \in Seq(Strings)
      /\ \A w \in Words(x) : \E u \in ItemsOf(body) : w \in Words(u)
  BY ParagraphsHold
<1>9. e \in Strings /\ e \in Seq(Strings) /\ ItemsOf(e) = {} /\ <<(<<"empty">>)>> \in Seq(Strings)
  BY NoText, OwnTexts DEF Own
<1> HIDE DEF body
<1>10. ps \in Seq(Strings) /\ \A w \in Words(x) : \E u \in ItemsOf(ps) : w \in Words(u)
  BY <1>8, <1>9
<1> HIDE DEF ps, e
<1>11. /\ s \in Sections /\ ItemsOf(s.table.rows) = {}
       /\ ItemsOf(ps) \subseteq Drawn(s)
  <2>1. /\ s \in Sections /\ ItemsOf(s.table.rows) = {}
        /\ Drawn(s) = {e} \cup ItemsOf(ps) \cup ItemsOf(e)
    <3>1. Plain(s, e, ps, e)
      BY <1>9, <1>10 DEF Plain
    <3> HIDE DEF s
    <3> QED
      BY <3>1, PlainSection
  <2> QED
    BY <2>1
<1> HIDE DEF s
<1>12. InShape(ss) /\ ItemsOf(ss) = {s}
  BY <1>7, <1>11, OneShape
<1> QED
  BY <1>6, <1>10, <1>11, <1>12 DEF Says

-----------------------------------------------------------------------------
(* The quiz: a row of the table and a section of its own for each question. *)

QField(q, k) == Str(Get(q, k, Text(<<>>)))
QOptions(q) == AsList(Get(q, "options", Null))
QRow(q) == <<QField(q, "type"), QField(q, "question"), Bars(QOptions(q)), QField(q, "answer")>>
QSection(q) ==
    Section(QField(q, "question"), IF QField(q, "answer") = <<>> THEN <<>> ELSE <<QField(q, "answer")>>,
            QOptions(q), NoTable)
QItem(q) == IF q.is = "dict" THEN q ELSE Dict(<<>>)
QItems(r) == LET qs == Get(r, "questions", Null) IN
             IF qs.is # "list" THEN <<>> ELSE [i \in 1..Len(qs.items) |-> QItem(qs.items[i])]
QColumns == [i \in 1..4 |-> <<(<<"Tip", "Soru", "Secenekler", "Cevap">>[i])>>]
QFirst(items) == Section(<<"Sorular">>, <<>>, <<>>,
                         [columns |-> QColumns, rows |-> [i \in 1..Len(items) |-> QRow(items[i])]])
QTail(items) == [i \in 1..Len(items) |-> QSection(items[i])]

LEMMA QuizIs ==
    ASSUME NEW r
    PROVE  QuizSections(r) = IF QItems(r) = <<>>
                             THEN <<Section(<<"Sorular">>, <<(<<"empty">>)>>, <<>>, NoTable)>>
                             ELSE <<QFirst(QItems(r))>> \o QTail(QItems(r))
<1>1. Len(<<"Tip", "Soru", "Secenekler", "Cevap">>) = 4
  OBVIOUS
<1> QED
  BY <1>1 DEF QuizSections, QItems, QItem, QColumns, QFirst, QTail, QSection, QRow, QOptions, QField, Map

LEMMA BarsText ==
    ASSUME NEW ts \in Seq(Strings)
    PROVE  Bars(ts) \in Strings
<1> DEFINE n == Len(ts)
           m == 2 * Len(ts) - 1
           parts == [i \in 1..m |-> IF i % 2 = 1 THEN ts[(i + 1) \div 2] ELSE <<"|">>]
<1>1. Bars(ts) = Sq!FlattenSeq(parts)
  BY DEF Bars
<1>2. n \in Nat /\ m \in Int /\ \A i \in 1..n : ts[i] \in Strings
  OBVIOUS
<1>3. <<"|">> \in Strings
  BY OwnTexts DEF Own
<1>4. \A i \in 1..m : (i % 2) = 1 => ((i + 1) \div 2) \in 1..n
  BY <1>2
<1>5. parts \in Seq(Strings)
  <2>1. \A i \in 1..m : parts[i] \in Strings
    BY <1>2, <1>3, <1>4
  <2>2. CASE n = 0
    <3>1. 1..m = 1..0
      BY <1>2, <2>2
    <3> HIDE DEF m
    <3>2. parts \in [1..m -> Strings]
      BY <2>1
    <3> HIDE DEF parts
    <3>3. parts \in [1..0 -> Strings]
      BY <3>1, <3>2
    <3>4. \A f \in [1..0 -> Strings] : f \in Seq(Strings)
      OBVIOUS
    <3> QED
      BY <3>3, <3>4
  <2>3. CASE n # 0
    <3>1. m \in Nat
      BY <1>2, <2>3
    <3> HIDE DEF m
    <3>2. parts \in [1..m -> Strings]
      BY <2>1
    <3> HIDE DEF parts
    <3> QED
      BY <3>1, <3>2
  <2> QED
    BY <2>2, <2>3
<1>6. parts \in Seq(Seq(Marks))
  BY <1>5 DEF Strings
<1> HIDE DEF parts
<1> QED
  BY <1>1, <1>6, FlattenItems DEF Strings

LEMMA FieldText ==
    ASSUME NEW q, IsJson(q), q.is = "dict", NEW k
    PROVE  /\ QField(q, k) \in Strings
           /\ k \in DOMAIN q.fields /\ q.fields[k].is = "text" => QField(q, k) = q.fields[k].text
<1>1. k \in DOMAIN q.fields => IsJson(q.fields[k])
  BY FieldsAreJson
<1>2. IsJson(Get(q, k, Text(<<>>)))
  BY <1>1, NoText DEF Get
<1>3. k \in DOMAIN q.fields => Get(q, k, Text(<<>>)) = q.fields[k]
  BY DEF Get
<1> QED
  BY <1>2, <1>3, StrOf DEF QField

LEMMA OptionTexts ==
    ASSUME NEW q, IsJson(q), q.is = "dict"
    PROVE  /\ QOptions(q) \in Seq(Strings)
           /\ "options" \in DOMAIN q.fields =>
                \A x \in Items(q.fields["options"]) : x.is = "text" /\ NonBlank(x.text) =>
                    x.text \in ItemsOf(QOptions(q))
<1>1. "options" \in DOMAIN q.fields => IsJson(q.fields["options"])
  BY FieldsAreJson
<1>2. IsJson(Get(q, "options", Null))
  BY <1>1, NoText DEF Get
<1>3. "options" \in DOMAIN q.fields => Get(q, "options", Null) = q.fields["options"]
  BY DEF Get
<1> QED
  BY <1>2, <1>3, AsListItems DEF QOptions

LEMMA RowOfQuestion ==
    ASSUME NEW q, IsJson(q), q.is = "dict"
    PROVE  QRow(q) \in Seq(Strings) /\ Len(QRow(q)) = 4
<1>1. /\ QField(q, "type") \in Strings /\ QField(q, "question") \in Strings
      /\ QField(q, "answer") \in Strings
  BY FieldText
<1>2. Bars(QOptions(q)) \in Strings
  BY OptionTexts, BarsText
<1> QED
  BY <1>1, <1>2 DEF QRow

LEMMA QuestionSays ==
    ASSUME NEW q, IsJson(q), q.is = "dict", NEW s, s = QSection(q)
    PROVE  /\ s \in Sections /\ ItemsOf(s.table.rows) = {}
           /\ \A k \in {"question", "answer"} : k \in DOMAIN q.fields /\ q.fields[k].is = "text" =>
                \A w \in Words(q.fields[k].text) : \E u \in Drawn(s) : w \in Words(u)
           /\ "options" \in DOMAIN q.fields => \A x \in Items(q.fields["options"]) : x.is = "text" =>
                \A w \in Words(x.text) : \E u \in Drawn(s) : w \in Words(u)
<1> DEFINE h == QField(q, "question")
           a == QField(q, "answer")
           ps == IF a = <<>> THEN <<>> ELSE <<a>>
           bs == QOptions(q)
<1>1. h \in Strings /\ a \in Strings /\ bs \in Seq(Strings)
  BY FieldText, OptionTexts
<1>2. ps \in Seq(Strings) /\ (a # <<>> => a \in ItemsOf(ps))
  <2> HIDE DEF a
  <2>1. <<a>> \in Seq(Strings) /\ ItemsOf(<<a>>) = {a}
    BY <1>1, OneItem
  <2> QED
    BY <2>1, NoText
<1>3. Plain(s, h, ps, bs)
  BY <1>1, <1>2 DEF Plain, QSection
<1>4. "question" \in DOMAIN q.fields /\ q.fields["question"].is = "text" => h = q.fields["question"].text
  BY FieldText
<1>5. "answer" \in DOMAIN q.fields /\ q.fields["answer"].is = "text" => a = q.fields["answer"].text
  BY FieldText
<1>6. "options" \in DOMAIN q.fields => \A x \in Items(q.fields["options"]) : x.is = "text" /\ NonBlank(x.text) =>
          x.text \in ItemsOf(bs)
  BY OptionTexts
<1>7. ASSUME "options" \in DOMAIN q.fields, NEW x \in Items(q.fields["options"]), x.is = "text",
             NEW w \in Words(x.text)
      PROVE  x.text \in ItemsOf(bs)
  <2>0. IsJson(q.fields["options"])
    BY <1>7, FieldsAreJson
  <2>1. q.fields["options"].is = "list" /\ \E i \in 1..Len(q.fields["options"].items) : x = q.fields["options"].items[i]
    BY <1>7 DEF Items
  <2>2. IsJson(x)
    BY <2>0, <2>1, ItemsAreJson
  <2>3. NonBlank(x.text)
    BY <2>2, <1>7, StrOf, WordsShow
  <2> QED
    BY <1>6, <1>7, <2>3
<1> HIDE DEF h, ps, bs, a
<1>8. /\ s \in Sections /\ ItemsOf(s.table.rows) = {}
      /\ Drawn(s) = {h} \cup ItemsOf(ps) \cup ItemsOf(bs)
  BY <1>3, PlainSection
<1>9. \A w \in Words(a) : a \in ItemsOf(ps)
  BY <1>2, NoWords
<1> QED
  BY <1>4, <1>5, <1>7, <1>8, <1>9

LEMMA QItemsAre ==
    ASSUME ResultOf("quiz", result)
    PROVE  /\ Len(QItems(result)) \in Nat /\ QItems(result) \in Seq(ItemsOf(QItems(result)))
           /\ \A i \in 1..Len(QItems(result)) : IsJson(QItems(result)[i]) /\ QItems(result)[i].is = "dict"
           /\ \A v \in Items(result.fields["questions"]) : v.is = "dict" => v \in ItemsOf(QItems(result))
<1> DEFINE qs == result.fields["questions"]
           items == QItems(result)
           Good(q, its) == /\ Len(its) \in Nat /\ its \in Seq(ItemsOf(its))
                           /\ \A i \in 1..Len(its) : IsJson(its[i]) /\ its[i].is = "dict"
                           /\ \A v \in Items(q) : v.is = "dict" => v \in ItemsOf(its)
<1> SUFFICES Good(qs, items)
  OBVIOUS
<1>1. Get(result, "questions", Null) = qs /\ IsJson(qs)
  BY SchemasAre, SchemaKeys DEF ResultOf, Get
<1>2. IsJson(Dict(<<>>)) /\ Dict(<<>>).is = "dict"
  <2>1. DOMAIN <<>> = {} /\ IsFiniteSet({})
    BY FS_EmptySet
  <2> QED
    BY <2>1 DEF IsJson, Dict, Null, Text, List
<1>3. CASE qs.is # "list"
  <2>1. items = <<>> /\ Items(qs) = {}
    BY <1>1, <1>3 DEF QItems, Items
  <2>2. Len(<<>>) = 0 /\ 1..0 = {} /\ <<>> \in Seq(ItemsOf(<<>>))
    OBVIOUS
  <2> HIDE DEF items, qs
  <2> QED
    BY <2>1, <2>2
<1>4. CASE qs.is = "list"
  <2>1. items = [i \in 1..Len(qs.items) |-> QItem(qs.items[i])]
    BY <1>1, <1>4 DEF QItems
  <2>2. Len(qs.items) \in Nat /\ \A i \in 1..Len(qs.items) : IsJson(qs.items[i])
    BY <1>1, <1>4, ItemsAreJson
  <2>3. \A i \in 1..Len(qs.items) : IsJson(QItem(qs.items[i])) /\ QItem(qs.items[i]).is = "dict"
    BY <1>2, <2>2 DEF QItem
  <2>4. Len(items) = Len(qs.items) /\ \A i \in 1..Len(qs.items) : items[i] = QItem(qs.items[i])
    BY <2>1, <2>2
  <2>5. items \in Seq(ItemsOf(items))
    <3>1. \A i \in 1..Len(qs.items) : QItem(qs.items[i]) \in ItemsOf(items)
      BY <2>4 DEF ItemsOf
    <3> QED
      BY <2>1, <2>2, <3>1
  <2>6. ASSUME NEW v \in Items(qs), v.is = "dict" PROVE v \in ItemsOf(items)
    <3>1. PICK i \in 1..Len(qs.items) : v = qs.items[i]
      BY <1>4, <2>6 DEF Items
    <3>2. items[i] = v
      BY <2>4, <2>6, <3>1 DEF QItem
    <3> QED
      BY <2>4, <3>2 DEF ItemsOf
  <2> HIDE DEF items, qs
  <2> QED
    BY <2>2, <2>3, <2>4, <2>5, <2>6
<1> QED
  BY <1>3, <1>4

LEMMA EmptySheet ==
    ASSUME NEW k \in Own, NEW s, s = Section(<<k>>, <<(<<"empty">>)>>, <<>>, NoTable)
    PROVE  InShape(<<s>>) /\ ItemsOf(<<s>>) = {s}
<1> DEFINE h == <<k>>
           ps == <<(<<"empty">>)>>
           bs == <<>>
<1>1. Plain(s, h, ps, bs)
  BY NoText, OwnTexts DEF Plain, Own
<1> HIDE DEF h, ps, bs
<1>2. s \in Sections /\ ItemsOf(s.table.rows) = {}
  BY <1>1, PlainSection
<1> QED
  BY <1>2, OneShape

\* A section that is a table.
LEMMA TableSection ==
    ASSUME NEW k \in Own, NEW cols \in Seq(Strings), NEW rows \in Seq(Seq(Strings)),
           \A i \in 1..Len(rows) : Len(rows[i]) = Len(cols),
           NEW s, s = Section(<<k>>, <<>>, <<>>, [columns |-> cols, rows |-> rows])
    PROVE  /\ InShape(<<s>>) /\ ItemsOf(<<s>>) = {s}
           /\ \A i \in 1..Len(rows) : ItemsOf(rows[i]) \subseteq Drawn(s)
<1>1. /\ s \in Sections /\ s.table.rows = rows /\ s.table.columns = cols
  BY NoText, OwnTexts DEF Section, Sections
<1>2. \A row \in ItemsOf(s.table.rows) : Len(row) = Len(s.table.columns)
  BY <1>1 DEF ItemsOf
<1>3. \A i \in 1..Len(rows) : ItemsOf(rows[i]) \subseteq Drawn(s)
  <2>1. \A i \in 1..Len(rows) : rows[i] \in ItemsOf(s.table.rows)
    BY <1>1 DEF ItemsOf
  <2> QED
    BY <2>1 DEF Drawn
<1> QED
  BY <1>1, <1>2, <1>3, OneShape

LEMMA QuizSaid ==
    ASSUME job.type = "quiz", NEW t \in Said
    PROVE  \E v \in Items(result.fields["questions"]) :
               /\ v.is = "dict"
               /\ \/ \E k \in {"question", "answer"} :
                        k \in DOMAIN v.fields /\ v.fields[k].is = "text" /\ t = v.fields[k].text
                  \/ "options" \in DOMAIN v.fields
                     /\ \E x \in Items(v.fields["options"]) : x.is = "text" /\ t = x.text
<1> DEFINE dicts == Dicts(result.fields["questions"])
<1>1. Said = TextsIn(UNION {QuestionValues(v.fields) : v \in dicts})
  BY DEF Said
<1> HIDE DEF dicts
<1>2. PICK v \in dicts : \E x \in QuestionValues(v.fields) : x.is = "text" /\ t = x.text
  BY <1>1 DEF TextsIn
<1>3. v \in Items(result.fields["questions"]) /\ v.is = "dict"
  BY <1>2 DEF dicts, Dicts
<1>4. PICK x \in QuestionValues(v.fields) : x.is = "text" /\ t = x.text
  BY <1>2
<1> QED
  BY <1>3, <1>4 DEF QuestionValues

LEMMA QuizTable ==
    ASSUME NEW items, Len(items) \in Nat,
           \A i \in 1..Len(items) : IsJson(items[i]) /\ items[i].is = "dict",
           NEW s, s = QFirst(items)
    PROVE  InShape(<<s>>) /\ ItemsOf(<<s>>) = {s}
<1> DEFINE rows == [i \in 1..Len(items) |-> QRow(items[i])]
           cols == QColumns
<1>1. \A i \in 1..Len(items) : QRow(items[i]) \in Seq(Strings) /\ Len(QRow(items[i])) = 4
  BY RowOfQuestion
<1>2. rows \in Seq(Seq(Strings)) /\ \A i \in 1..Len(rows) : Len(rows[i]) = 4
  BY <1>1
<1>3. cols \in Seq(Strings) /\ Len(cols) = 4
  <2>1. \A i \in 1..4 : <<"Tip", "Soru", "Secenekler", "Cevap">>[i] \in Own
    BY DEF Own
  <2>2. \A i \in 1..4 : <<(<<"Tip", "Soru", "Secenekler", "Cevap">>[i])>> \in Strings
    BY <2>1, OwnTexts
  <2> QED
    BY <2>2 DEF QColumns
<1>4. s = Section(<<"Sorular">>, <<>>, <<>>, [columns |-> cols, rows |-> rows])
  BY DEF QFirst
<1> HIDE DEF rows, cols
<1>5. "Sorular" \in Own
  BY DEF Own
<1>6. \A i \in 1..Len(rows) : Len(rows[i]) = Len(cols)
  BY <1>2, <1>3
<1> QED
  BY <1>2, <1>3, <1>4, <1>5, <1>6, TableSection

LEMMA QuizTail ==
    ASSUME NEW items, Len(items) \in Nat,
           \A i \in 1..Len(items) : IsJson(items[i]) /\ items[i].is = "dict",
           NEW tail, tail = QTail(items)
    PROVE  /\ InShape(tail)
           /\ \A i \in 1..Len(items) : tail[i] \in ItemsOf(tail) /\ tail[i] = QSection(items[i])
<1>1. \A i \in 1..Len(items) : QSection(items[i]) \in Sections /\ ItemsOf(QSection(items[i]).table.rows) = {}
  BY QuestionSays
<1>2. tail \in Seq(Sections) /\ Len(tail) = Len(items) /\ \A i \in 1..Len(items) : tail[i] = QSection(items[i])
  BY <1>1 DEF QTail
<1>3. \A i \in 1..Len(items) : tail[i] \in ItemsOf(tail)
  BY <1>2 DEF ItemsOf
<1>4. ASSUME NEW s \in ItemsOf(tail) PROVE ItemsOf(s.table.rows) = {}
  <2>1. PICK i \in 1..Len(items) : s = QSection(items[i])
    BY <1>2 DEF ItemsOf
  <2> QED
    BY <1>1, <2>1
<1> QED
  BY <1>2, <1>3, <1>4 DEF InShape

LEMMA QuizSays ==
    ASSUME job.type = "quiz", ResultOf("quiz", result),
           NEW ss, ss = BuildSections("quiz", result)
    PROVE  InShape(ss) /\ \A t \in Said : Says(ss, t)
<1> DEFINE qs == result.fields["questions"]
           items == QItems(result)
           first == QFirst(items)
           head == <<first>>
           tail == QTail(items)
<1>1. ss = IF items = <<>> THEN <<Section(<<"Sorular">>, <<(<<"empty">>)>>, <<>>, NoTable)>>
           ELSE head \o tail
  BY QuizIs DEF BuildSections
<1>2. /\ Len(items) \in Nat
      /\ \A i \in 1..Len(items) : IsJson(items[i]) /\ items[i].is = "dict"
      /\ \A v \in Items(qs) : v.is = "dict" => v \in ItemsOf(items)
  BY QItemsAre
<1> HIDE DEF items
<1>3. InShape(head)
  BY <1>2, QuizTable
<1>4. /\ InShape(tail)
      /\ \A i \in 1..Len(items) : tail[i] \in ItemsOf(tail) /\ tail[i] = QSection(items[i])
  BY <1>2, QuizTail
<1> HIDE DEF head, tail
<1>5. InShape(ss)
  <2>1. CASE items = <<>>
    <3>1. "Sorular" \in Own
      BY DEF Own
    <3> QED
      BY <1>1, <2>1, <3>1, EmptySheet
  <2>2. CASE items # <<>>
    BY <1>1, <1>3, <1>4, <2>2, JoinedShape
  <2> QED
    BY <2>1, <2>2
<1>6. ASSUME NEW t \in Said PROVE Says(ss, t)
  <2>1. PICK v \in Items(qs) :
               /\ v.is = "dict"
               /\ \/ \E k \in {"question", "answer"} :
                        k \in DOMAIN v.fields /\ v.fields[k].is = "text" /\ t = v.fields[k].text
                  \/ "options" \in DOMAIN v.fields
                     /\ \E x \in Items(v.fields["options"]) : x.is = "text" /\ t = x.text
    BY QuizSaid
  <2>2. PICK i \in 1..Len(items) : v = items[i]
    BY <1>2, <2>1 DEF ItemsOf
  <2>3. items # <<>>
    BY <2>2
  <2>4. tail[i] \in ItemsOf(ss) /\ tail[i] = QSection(v)
    BY <1>1, <1>3, <1>4, <2>2, <2>3, JoinedShape
  <2>5. \A w \in Words(t) : \E u \in Drawn(tail[i]) : w \in Words(u)
    <3>1. IsJson(v) /\ v.is = "dict" /\ tail[i] = QSection(v)
      BY <1>2, <2>2, <2>4
    <3>2. PICK s : s = tail[i]
      OBVIOUS
    <3>3. /\ \A k \in {"question", "answer"} : k \in DOMAIN v.fields /\ v.fields[k].is = "text" =>
                \A w \in Words(v.fields[k].text) : \E u \in Drawn(s) : w \in Words(u)
          /\ "options" \in DOMAIN v.fields => \A x \in Items(v.fields["options"]) : x.is = "text" =>
                \A w \in Words(x.text) : \E u \in Drawn(s) : w \in Words(u)
      BY <3>1, <3>2, QuestionSays
    <3> QED
      BY <2>1, <3>2, <3>3
  <2> QED
    BY <2>4, <2>5 DEF Says
<1> QED
  BY <1>5, <1>6

-----------------------------------------------------------------------------
(* The extract: a table of the columns named, or of the keys the records have. *)

\* A set as a sequence has all its elements.
LEMMA SetAsSequence ==
    ASSUME NEW S, IsFiniteSet(S)
    PROVE  Sq!SetToSeq(S) \in Seq(S) /\ ItemsOf(Sq!SetToSeq(S)) = S
<1> DEFINE n == Cardinality(S)
           f == Sq!SetToSeq(S)
<1>1. n \in Nat /\ ExistsBijection(1..n, S)
  BY FS_CardinalityType
<1>2. \E g \in [1..n -> S] : Sq!IsInjective(g)
  BY <1>1 DEF ExistsBijection, Bijection, Injection, IsInjective, Sq!IsInjective
<1>0. Sq!Cardinality(S) = Cardinality(S)
  BY DEF Sq!Cardinality, Cardinality
<1>3. f = CHOOSE g \in [1..n -> S] : Sq!IsInjective(g)
  BY <1>0 DEF Sq!SetToSeq
<1> HIDE DEF f
<1>4. f \in [1..n -> S] /\ Sq!IsInjective(f)
  BY <1>2, <1>3
<1>5. f \in Injection(1..n, S)
  BY <1>4 DEF Injection, IsInjective, Sq!IsInjective
<1>6. Cardinality(1..n) = Cardinality(S)
  <2>1. Cardinality(1..n) = IF 1 > n THEN 0 ELSE n - 1 + 1
    BY <1>1, FS_Interval
  <2> QED
    BY <1>1, <2>1
<1>7. f \in Surjection(1..n, S)
  BY <1>5, <1>6, FS_Injection
<1>8. f \in Seq(S) /\ Len(f) = n
  BY <1>1, <1>4
<1>9. \A x \in S : \E i \in 1..n : f[i] = x
  BY <1>7 DEF Surjection
<1>10. ItemsOf(f) = S
  BY <1>4, <1>8, <1>9 DEF ItemsOf
<1> QED
  BY <1>8, <1>10 DEF f

LEMMA KeysAre ==
    ASSUME NEW q, IsJson(q), q.is = "dict"
    PROVE  KeysOf(q) \in Seq(Marks) /\ ItemsOf(KeysOf(q)) = DOMAIN q.fields
<1>1. IsFiniteSet(DOMAIN q.fields) /\ DOMAIN q.fields \subseteq Marks
  BY FieldsAreJson DEF Marks
<1>2. KeysOf(q) \in Seq(DOMAIN q.fields) /\ ItemsOf(KeysOf(q)) = DOMAIN q.fields
  BY <1>1, SetAsSequence DEF KeysOf
<1>3. \A T, U : T \subseteq U => \A s \in Seq(T) : s \in Seq(U)
  OBVIOUS
<1> QED
  BY <1>1, <1>2, <1>3

\* The columns hold the names given, or every key of every record.
LEMMA ColumnsHold ==
    ASSUME NEW names \in Seq(Marks), NEW records, Len(records) \in Nat,
           \A i \in 1..Len(records) : IsJson(records[i]) /\ records[i].is = "dict"
    PROVE  /\ Columns(names, records) \in Seq(Marks)
           /\ names # <<>> => Columns(names, records) = names
           /\ names = <<>> => \A i \in 1..Len(records) :
                                DOMAIN records[i].fields \subseteq ItemsOf(Columns(names, records))
<1> DEFINE New(i) == {j \in 1..Len(KeysOf(records[i])) :
                        \A e \in 1..i - 1 : KeysOf(records[i])[j] \notin DOMAIN records[e].fields}
           parts == [i \in 1..Len(records) |-> Kept(KeysOf(records[i]), New(i))]
<1>1. Columns(names, records) = IF names # <<>> THEN names ELSE Sq!FlattenSeq(parts)
  BY DEF Columns
<1>2. \A i \in 1..Len(records) : /\ KeysOf(records[i]) \in Seq(Marks)
                                 /\ ItemsOf(KeysOf(records[i])) = DOMAIN records[i].fields
  BY KeysAre
<1>3. ASSUME NEW i \in 1..Len(records)
      PROVE  /\ Kept(KeysOf(records[i]), New(i)) \in Seq(Marks)
             /\ \A j \in New(i) : KeysOf(records[i])[j] \in ItemsOf(Kept(KeysOf(records[i]), New(i)))
  <2> DEFINE ks == KeysOf(records[i])
             I == New(i)
  <2>1. ks \in Seq(Marks) /\ I \subseteq 1..Len(ks)
    BY <1>2
  <2> HIDE DEF ks, I
  <2>2. Kept(ks, I) \in Seq(Marks) /\ ItemsOf(Kept(ks, I)) = {ks[j] : j \in I \cap (1..Len(ks))}
    BY <2>1, KeptItems
  <2>3. \A j \in I : ks[j] \in ItemsOf(Kept(ks, I))
    BY <2>1, <2>2
  <2> QED
    BY <2>2, <2>3 DEF ks, I
<1>4. /\ parts \in Seq(Seq(Marks)) /\ Len(parts) = Len(records)
      /\ \A i \in 1..Len(records) : parts[i] = Kept(KeysOf(records[i]), New(i))
  <2> HIDE DEF New
  <2> QED
    BY <1>3
<1>5. \A i \in 1..Len(records) : \A j \in New(i) : KeysOf(records[i])[j] \in ItemsOf(parts[i])
  BY <1>3, <1>4
<1> HIDE DEF parts
<1>6. /\ Sq!FlattenSeq(parts) \in Seq(Marks)
      /\ ItemsOf(Sq!FlattenSeq(parts)) = UNION {ItemsOf(parts[i]) : i \in 1..Len(records)}
  BY <1>4, FlattenItems
<1>7. ASSUME NEW l \in 1..Len(records), NEW k \in DOMAIN records[l].fields
      PROVE  k \in ItemsOf(Sq!FlattenSeq(parts))
  <2> DEFINE Having == {i \in 1..Len(records) : k \in DOMAIN records[i].fields}
             f == [i \in Having |-> i]
  <2>1. l \in Having /\ f \in [Having -> Nat]
    BY <1>7
  <2>2. PICK i \in Having : \A e \in Having : f[i] <= f[e]
    <3> HIDE DEF Having, f
    <3> QED
      BY <2>1, LeastOf
  <2>3. i \in 1..Len(records) /\ k \in DOMAIN records[i].fields
    OBVIOUS
  <2>4. \A e \in 1..i - 1 : k \notin DOMAIN records[e].fields
    <3> SUFFICES ASSUME NEW e \in 1..i - 1, k \in DOMAIN records[e].fields PROVE FALSE
      OBVIOUS
    <3>1. e \in Having /\ f[i] = i /\ f[e] = e
      BY <2>3
    <3>2. i <= e
      BY <2>2, <3>1
    <3> QED
      BY <2>3, <3>2
  <2>5. PICK j \in 1..Len(KeysOf(records[i])) : KeysOf(records[i])[j] = k
    BY <1>2, <2>3 DEF ItemsOf
  <2>6. j \in New(i)
    BY <2>4, <2>5
  <2>7. k \in ItemsOf(parts[i])
    BY <1>5, <2>3, <2>5, <2>6
  <2> QED
    BY <1>6, <2>3, <2>7
<1> QED
  BY <1>1, <1>6, <1>7

ERecords(r) ==
    LET listed == Get(r, "records", Null) IN
    IF listed.is # "list" THEN <<>>
    ELSE Kept(listed.items, {i \in 1..Len(listed.items) : listed.items[i].is = "dict"})
ENames(r) == LET l == AsList(Get(r, "columns", Null)) IN [i \in 1..Len(l) |-> l[i][1]]
ECols(r) == Columns(ENames(r), ERecords(r))
ECell(q, k) == Str(Get(q, k, Text(<<>>)))
ERow(q, cols) == [j \in 1..Len(cols) |-> ECell(q, cols[j])]
ETable(cols, records) ==
    Section(<<"Kayitlar">>, <<>>, <<>>,
            [columns |-> [j \in 1..Len(cols) |-> <<cols[j]>>],
             rows |-> [i \in 1..Len(records) |-> ERow(records[i], cols)]])

LEMMA ExtractIs ==
    ASSUME NEW r
    PROVE  ExtractSections(r) = IF ECols(r) = <<>>
                                THEN <<Section(<<"Kayitlar">>, <<(<<"empty">>)>>, <<>>, NoTable)>>
                                ELSE <<ETable(ECols(r), ERecords(r))>>
BY DEF ExtractSections, ERecords, ENames, ECols, ECell, ERow, ETable, Map

\* The records are the dicts of the answer.
LEMMA RecordsAre ==
    ASSUME ResultOf("extract", result)
    PROVE  /\ Len(ERecords(result)) \in Nat
           /\ \A i \in 1..Len(ERecords(result)) : IsJson(ERecords(result)[i]) /\ ERecords(result)[i].is = "dict"
           /\ \A v \in Dicts(result.fields["records"]) : v \in ItemsOf(ERecords(result))
<1> DEFINE l == result.fields["records"]
           records == ERecords(result)
           Good(v, rs) == /\ Len(rs) \in Nat
                          /\ \A i \in 1..Len(rs) : IsJson(rs[i]) /\ rs[i].is = "dict"
                          /\ \A d \in Dicts(v) : d \in ItemsOf(rs)
<1> SUFFICES Good(l, records)
  OBVIOUS
<1>1. Get(result, "records", Null) = l /\ IsJson(l)
  BY SchemasAre, SchemaKeys DEF ResultOf, Get
<1>2. CASE l.is # "list"
  <2>1. records = <<>> /\ Dicts(l) = {}
    BY <1>1, <1>2 DEF ERecords, Dicts, Items
  <2>2. Len(<<>>) = 0 /\ 1..0 = {}
    OBVIOUS
  <2> HIDE DEF records, l
  <2> QED
    BY <2>1, <2>2
<1>3. CASE l.is = "list"
  <2> DEFINE s == l.items
             I == {i \in 1..Len(s) : s[i].is = "dict"}
  <2>1. records = Kept(s, I)
    BY <1>1, <1>3 DEF ERecords
  <2>2. s \in Seq(Values) /\ \A i \in 1..Len(s) : IsJson(s[i])
    BY <1>1, <1>3, ItemsAreJson
  <2>3. Dicts(l) = {s[i] : i \in I \cap (1..Len(s))}
    BY <1>3 DEF Dicts, Items
  <2>4. \A d \in Dicts(l) : IsJson(d) /\ d.is = "dict"
    BY <2>2, <2>3
  <2> HIDE DEF records, s, I, l
  <2>5. records \in Seq(Values) /\ ItemsOf(records) = Dicts(l)
    BY <2>1, <2>2, <2>3, KeptItems
  <2>6. Len(records) \in Nat /\ \A i \in 1..Len(records) : records[i] \in Dicts(l)
    BY <2>5 DEF ItemsOf
  <2> QED
    BY <2>4, <2>5, <2>6
<1> QED
  BY <1>2, <1>3

\* The names of the columns are those of the answer.
LEMMA NamesAre ==
    ASSUME ResultOf("extract", result)
    PROVE  /\ ENames(result) \in Seq(Marks)
           /\ result.fields["columns"] = List(<<>>) => ENames(result) = <<>>
           /\ \A k : NonBlank(<<k>>) /\ Text(<<k>>) \in Items(result.fields["columns"]) =>
                  k \in ItemsOf(ENames(result))
<1> DEFINE c == result.fields["columns"]
           l == AsList(c)
           names == ENames(result)
<1>1. Get(result, "columns", Null) = c /\ IsJson(c)
  BY SchemasAre, SchemaKeys DEF ResultOf, Get
<1>2. /\ l \in Seq(Strings)
      /\ \A x \in Items(c) : x.is = "text" /\ NonBlank(x.text) => x.text \in ItemsOf(l)
      /\ \A t \in ItemsOf(l) : NonBlank(t)
  BY <1>1, AsListItems
<1>3. names = [i \in 1..Len(l) |-> l[i][1]]
  BY <1>1 DEF ENames
<1>4. c = List(<<>>) => l = <<>>
  <2> SUFFICES ASSUME c = List(<<>>) PROVE l = <<>>
    OBVIOUS
  <2> DEFINE ts == Map(Str, <<>>)
  <2>1. l = NonBlanks(ts)
    BY DEF AsList, List
  <2>2. ts = <<>>
    BY DEF Map
  <2>3. NonBlanks(ts) \in Seq(Strings) /\ ItemsOf(NonBlanks(ts)) = {t \in ItemsOf(ts) : NonBlank(t)}
    BY <2>2, NoText, NonBlanksItems
  <2>4. ItemsOf(l) = {}
    BY <2>1, <2>2, <2>3, NoText
  <2> HIDE DEF l
  <2>5. Len(l) = 0
    <3> SUFFICES ASSUME Len(l) # 0 PROVE FALSE
      OBVIOUS
    <3>1. 1 \in 1..Len(l)
      BY <1>2
    <3> QED
      BY <2>4, <3>1 DEF ItemsOf
  <2> QED
    BY <1>2, <2>5
<1> HIDE DEF l, names
<1>5. \A i \in 1..Len(l) : Len(l[i]) \in Nat /\ Len(l[i]) >= 1 /\ l[i][1] \in Marks
  <2> SUFFICES ASSUME NEW i \in 1..Len(l) PROVE Len(l[i]) \in Nat /\ Len(l[i]) >= 1 /\ l[i][1] \in Marks
    OBVIOUS
  <2>1. l[i] \in Seq(Marks) /\ NonBlank(l[i])
    BY <1>2 DEF ItemsOf, Strings
  <2>2. Len(l[i]) \in Nat /\ \E j \in 1..Len(l[i]) : TRUE
    BY <2>1 DEF NonBlank
  <2>3. 1 \in 1..Len(l[i])
    BY <2>2
  <2> QED
    BY <2>1, <2>2, <2>3
<1>6. names \in Seq(Marks) /\ Len(names) = Len(l) /\ \A i \in 1..Len(l) : names[i] = l[i][1]
  BY <1>2, <1>3, <1>5
<1>7. l = <<>> => names = <<>>
  BY <1>6
<1>8. ASSUME NEW k, NonBlank(<<k>>), Text(<<k>>) \in Items(c) PROVE k \in ItemsOf(names)
  <2>1. Text(<<k>>).is = "text" /\ Text(<<k>>).text = <<k>>
    BY DEF Text
  <2>2. PICK i \in 1..Len(l) : l[i] = <<k>>
    BY <1>2, <1>8, <2>1 DEF ItemsOf
  <2>3. names[i] = k
    BY <1>6, <2>2
  <2> QED
    BY <1>6, <2>3 DEF ItemsOf
<1> QED
  BY <1>4, <1>6, <1>7, <1>8 DEF names

LEMMA CellText ==
    ASSUME NEW q, IsJson(q), q.is = "dict", NEW k
    PROVE  /\ ECell(q, k) \in Strings
           /\ k \in DOMAIN q.fields /\ q.fields[k].is = "text" => ECell(q, k) = q.fields[k].text
BY FieldText DEF ECell, QField

LEMMA ExtractTable ==
    ASSUME NEW cols \in Seq(Marks), NEW records, Len(records) \in Nat,
           \A i \in 1..Len(records) : IsJson(records[i]) /\ records[i].is = "dict",
           NEW s, s = ETable(cols, records)
    PROVE  /\ InShape(<<s>>) /\ ItemsOf(<<s>>) = {s}
           /\ \A i \in 1..Len(records) : \A j \in 1..Len(cols) : ECell(records[i], cols[j]) \in Drawn(s)
<1> DEFINE heads == [j \in 1..Len(cols) |-> <<cols[j]>>]
           rows == [i \in 1..Len(records) |-> ERow(records[i], cols)]
<1>1. Len(cols) \in Nat /\ \A j \in 1..Len(cols) : <<cols[j]>> \in Strings
  BY AtomsAreMarks
<1>2. heads \in Seq(Strings) /\ Len(heads) = Len(cols)
  BY <1>1
<1>3. \A i \in 1..Len(records) : \A j \in 1..Len(cols) : ECell(records[i], cols[j]) \in Strings
  BY CellText
<1>4. \A i \in 1..Len(records) :
        /\ ERow(records[i], cols) \in Seq(Strings) /\ Len(ERow(records[i], cols)) = Len(cols)
        /\ \A j \in 1..Len(cols) : ERow(records[i], cols)[j] = ECell(records[i], cols[j])
  BY <1>1, <1>3 DEF ERow
<1>5. /\ rows \in Seq(Seq(Strings)) /\ Len(rows) = Len(records)
      /\ \A i \in 1..Len(records) : rows[i] = ERow(records[i], cols)
  BY <1>4
<1>6. s = Section(<<"Kayitlar">>, <<>>, <<>>, [columns |-> heads, rows |-> rows])
  BY DEF ETable
<1>7. "Kayitlar" \in Own
  BY DEF Own
<1> HIDE DEF heads, rows
<1>8. \A i \in 1..Len(rows) : Len(rows[i]) = Len(heads)
  BY <1>2, <1>4, <1>5
<1>9. /\ InShape(<<s>>) /\ ItemsOf(<<s>>) = {s}
      /\ \A i \in 1..Len(rows) : ItemsOf(rows[i]) \subseteq Drawn(s)
  BY <1>2, <1>5, <1>6, <1>7, <1>8, TableSection
<1>10. \A i \in 1..Len(records) : \A j \in 1..Len(cols) : ECell(records[i], cols[j]) \in ItemsOf(rows[i])
  BY <1>4, <1>5 DEF ItemsOf
<1> QED
  BY <1>5, <1>9, <1>10

LEMMA ExtractSaid ==
    ASSUME job.type = "extract", NEW t \in Said
    PROVE  \E v \in Dicts(result.fields["records"]) : \E k \in DOMAIN v.fields :
               /\ v.fields[k].is = "text" /\ t = v.fields[k].text
               /\ \/ result.fields["columns"] = List(<<>>)
                  \/ NonBlank(<<k>>) /\ Text(<<k>>) \in Items(result.fields["columns"])
<1> DEFINE dicts == Dicts(result.fields["records"])
           c == result.fields["columns"]
<1>1. Said = TextsIn(UNION {RecordValues(v.fields, c) : v \in dicts})
  BY DEF Said
<1> HIDE DEF dicts, c
<1>2. PICK v \in dicts : \E x \in RecordValues(v.fields, c) : x.is = "text" /\ t = x.text
  BY <1>1 DEF TextsIn
<1>3. PICK x \in RecordValues(v.fields, c) : x.is = "text" /\ t = x.text
  BY <1>2
<1>4. PICK k \in DOMAIN v.fields : x = v.fields[k]
                                   /\ (c = List(<<>>) \/ (NonBlank(<<k>>) /\ Text(<<k>>) \in Items(c)))
  BY <1>3 DEF RecordValues
<1> QED
  BY <1>2, <1>3, <1>4 DEF dicts, c

LEMMA ExtractSays ==
    ASSUME job.type = "extract", ResultOf("extract", result),
           NEW ss, ss = BuildSections("extract", result)
    PROVE  InShape(ss) /\ \A t \in Said : Says(ss, t)
<1> DEFINE records == ERecords(result)
           names == ENames(result)
           cols == ECols(result)
           s == ETable(cols, records)
<1>1. ss = IF cols = <<>> THEN <<Section(<<"Kayitlar">>, <<(<<"empty">>)>>, <<>>, NoTable)>>
           ELSE <<s>>
  BY ExtractIs DEF BuildSections
<1>2. /\ Len(records) \in Nat
      /\ \A i \in 1..Len(records) : IsJson(records[i]) /\ records[i].is = "dict"
      /\ \A v \in Dicts(result.fields["records"]) : v \in ItemsOf(records)
  BY RecordsAre
<1>3. /\ names \in Seq(Marks)
      /\ result.fields["columns"] = List(<<>>) => names = <<>>
      /\ \A k : NonBlank(<<k>>) /\ Text(<<k>>) \in Items(result.fields["columns"]) => k \in ItemsOf(names)
  BY NamesAre
<1>4. cols = Columns(names, records)
  BY DEF ECols
<1> HIDE DEF records, names, cols
<1>5. /\ cols \in Seq(Marks)
      /\ names # <<>> => cols = names
      /\ names = <<>> => \A i \in 1..Len(records) : DOMAIN records[i].fields \subseteq ItemsOf(cols)
  BY <1>2, <1>3, <1>4, ColumnsHold
<1>6. /\ InShape(<<s>>) /\ ItemsOf(<<s>>) = {s}
      /\ \A i \in 1..Len(records) : \A j \in 1..Len(cols) : ECell(records[i], cols[j]) \in Drawn(s)
  BY <1>2, <1>5, ExtractTable
<1> HIDE DEF s
<1>7. InShape(ss)
  <2>1. "Kayitlar" \in Own
    BY DEF Own
  <2> QED
    BY <1>1, <1>6, <2>1, EmptySheet
<1>8. ASSUME NEW t \in Said PROVE Says(ss, t)
  <2>1. PICK v \in Dicts(result.fields["records"]) : \E k \in DOMAIN v.fields :
               /\ v.fields[k].is = "text" /\ t = v.fields[k].text
               /\ \/ result.fields["columns"] = List(<<>>)
                  \/ NonBlank(<<k>>) /\ Text(<<k>>) \in Items(result.fields["columns"])
    BY ExtractSaid
  <2>2. PICK k \in DOMAIN v.fields :
               /\ v.fields[k].is = "text" /\ t = v.fields[k].text
               /\ \/ result.fields["columns"] = List(<<>>)
                  \/ NonBlank(<<k>>) /\ Text(<<k>>) \in Items(result.fields["columns"])
    BY <2>1
  <2>3. PICK i \in 1..Len(records) : v = records[i]
    BY <1>2 DEF ItemsOf
  <2>4. k \in ItemsOf(cols)
    <3>1. CASE names = <<>>
      BY <1>5, <2>3, <3>1
    <3>2. CASE names # <<>>
      BY <1>3, <1>5, <2>2, <3>2
    <3> QED
      BY <3>1, <3>2
  <2>5. PICK j \in 1..Len(cols) : cols[j] = k
    BY <2>4 DEF ItemsOf
  <2>6. cols # <<>>
    BY <2>5
  <2>7. ECell(v, k) = t
    BY <1>2, <2>2, <2>3, CellText
  <2>8. t \in Drawn(s)
    BY <1>6, <2>3, <2>5, <2>7
  <2>9. s \in ItemsOf(ss)
    BY <1>1, <1>6, <2>6
  <2> QED
    BY <2>8, <2>9 DEF Says
<1> QED
  BY <1>7, <1>8

-----------------------------------------------------------------------------
(* The file. *)

\* The sheet of any result, and what it says of it.
LEMMA SheetSays ==
    ASSUME job.type \in Types, ResultOf(job.type, result),
           NEW ss, ss = BuildSections(job.type, result)
    PROVE  InShape(ss) /\ \A t \in Said : Says(ss, t)
<1>1. CASE job.type = "keypoints"
  BY <1>1, KeypointsSay
<1>2. CASE job.type = "quiz"
  BY <1>2, QuizSays
<1>3. CASE job.type = "extract"
  BY <1>3, ExtractSays
<1>4. CASE job.type = "compare"
  BY <1>4, CompareSays
<1>5. CASE job.type \in {"summary", "translate"}
  <2>1. job.type \in Types \ DOMAIN JsonSchemas
    BY <1>5, SchemaKeys
  <2> QED
    BY <2>1, TextSays
<1> QED
  BY <1>1, <1>2, <1>3, <1>4, <1>5 DEF Types

\* What a renderer can make of a sheet.
Rendered(ss, fmt, out) ==
    \/ out = [format |-> fmt, ok |-> TRUE, blocks |-> Render(ss, fmt)]
    \/ /\ (fmt = "docx" /\ DocxRefuses(ss)) \/ (fmt = "pdf" /\ PdfCanRefuse(ss))
       /\ out = [format |-> fmt, ok |-> FALSE, blocks |-> <<>>]

ExportInv ==
    /\ sheet # <<>> => result # None /\ sheet = BuildSections(job.type, result)
    /\ output # NoOutput => sheet # <<>> /\ \E fmt \in Formats : Rendered(sheet, fmt, output)

LEMMA ExportInitially == ContentInit => ExportInv
BY DEF ContentInit, ExportInv

LEMMA ExportStep ==
    ContentInv /\ ExportInv /\ [ContentNext]_contentVars => ExportInv'
<1> SUFFICES ASSUME ContentInv, ExportInv, [ContentNext]_contentVars PROVE ExportInv'
  OBVIOUS
<1>1. ASSUME NEW t \in Types, NEW d \in Documents, NEW other \in Documents, Request(t, d, other)
      PROVE  ExportInv'
  <2>1. sheet' = <<>> /\ output' = NoOutput
    BY <1>1 DEF Request, ContentInv, ExportInv
  <2> QED
    BY <2>1 DEF ExportInv
<1>2. CASE Ask \/ UNCHANGED contentVars
  <2>1. job' = job /\ result' = result /\ sheet' = sheet /\ output' = output
    BY <1>2 DEF Ask, contentVars
  <2> QED
    BY <2>1 DEF ExportInv
<1>3. ASSUME NEW raw \in Answers[job.type], Answer(raw) PROVE ExportInv'
  <2>1. sheet' = <<>> /\ output' = NoOutput
    BY <1>3 DEF Answer, ExportInv
  <2> QED
    BY <2>1 DEF ExportInv
<1>4. CASE Build
  <2>1. result' = result /\ job' = job /\ result # None /\ sheet' = BuildSections(job.type, result)
        /\ output' = NoOutput
    BY <1>4 DEF Build, ExportInv
  <2> QED
    BY <2>1 DEF ExportInv
<1>5. ASSUME NEW fmt \in Formats, RenderTo(fmt) PROVE ExportInv'
  <2>1. /\ job' = job /\ result' = result /\ sheet' = sheet /\ sheet # <<>>
        /\ Rendered(sheet, fmt, output')
    BY <1>5 DEF RenderTo, Rendered
  <2> QED
    BY <2>1 DEF ExportInv
<1> QED
  BY <1>1, <1>2, <1>3, <1>4, <1>5 DEF ContentNext

\* A refusal comes of a control character, as the tables are in shape.
LEMMA RefusalMeans ==
    ASSUME NEW ss, InShape(ss), DocxRefuses(ss)
    PROVE  \E i \in 1..Len(ss) : \E t \in TextsOf(ss[i]) : Has(t, "ctl")
<1>1. PICK i \in 1..Len(ss) :
        \/ \E k \in 1..Len(ss[i].table.rows) : Len(ss[i].table.rows[k]) # Len(ss[i].table.columns)
        \/ \E t \in TextsOf(ss[i]) : Has(t, "ctl")
  BY DEF DocxRefuses
<1>2. \A k \in 1..Len(ss[i].table.rows) : Len(ss[i].table.rows[k]) = Len(ss[i].table.columns)
  <2>1. \A k \in 1..Len(ss[i].table.rows) : ss[i].table.rows[k] \in ItemsOf(ss[i].table.rows)
    BY DEF ItemsOf
  <2>2. ss[i] \in ItemsOf(ss)
    BY DEF ItemsOf
  <2> QED
    BY <2>1, <2>2 DEF InShape
<1> QED
  BY <1>1, <1>2

\* A file shows what its sheet says.
LEMMA ShownBy ==
    ASSUME NEW ss, InShape(ss), NEW fmt \in Formats, NEW t, Says(ss, t)
    PROVE  Words(t) \subseteq WordsShown(Render(ss, fmt))
<1> SUFFICES ASSUME NEW w \in Words(t) PROVE w \in WordsShown(Render(ss, fmt))
  OBVIOUS
<1>1. PICK s \in ItemsOf(ss) : \E u \in Drawn(s) : w \in Words(u)
  BY DEF Says
<1>2. PICK i \in 1..Len(ss) : s = ss[i]
  BY DEF ItemsOf
<1>3. ShowsAll(s, Render(ss, fmt))
  BY <1>2, RenderShows DEF InShape
<1> QED
  BY <1>1, <1>3 DEF ShowsAll

(* Whatever the model answers and the format is, the file has every word of the result that
   stands where the prompt asked for it; no bar ends a cell of a row of a Markdown table (those
   in the names of columns, and line ends, are not spoken of); and only DOCX fails, of a control
   character, and PDF, of a table with rows. *)
THEOREM ExportsShowResults == ContentSpec => []ExportShowsResult
<1>1. ContentInv /\ ExportInv => ExportShowsResult
  <2> SUFFICES ASSUME ContentInv, ExportInv, output # NoOutput
               PROVE  /\ output.ok => \A t \in Said : Words(t) \subseteq Shown
                      /\ output.ok /\ output.format = "md" =>
                           \A i \in 1..Len(output.blocks) : LET b == output.blocks[i] IN
                              b.kind = "row" => \A k \in 1..Len(b.texts) : ~Has(b.texts[k], "|")
                      /\ ~output.ok =>
                           \/ /\ output.format = "docx"
                              /\ \E i \in 1..Len(sheet) : \E t \in TextsOf(sheet[i]) : Has(t, "ctl")
                           \/ /\ output.format = "pdf"
                              /\ \E i \in 1..Len(sheet) : sheet[i].table.rows # <<>>
    BY DEF ExportShowsResult
  <2>1. /\ result # None /\ sheet = BuildSections(job.type, result)
        /\ \E fmt \in Formats : Rendered(sheet, fmt, output)
    BY DEF ExportInv
  <2>2. PICK fmt \in Formats : Rendered(sheet, fmt, output)
    BY <2>1
  <2>3. job.type \in Types /\ ResultOf(job.type, result)
    BY <2>1, Shaped DEF ContentInv
  <2>4. InShape(sheet) /\ \A t \in Said : Says(sheet, t)
    BY <2>1, <2>3, SheetSays
  <2>5. output.format = fmt /\ (output.ok => output.blocks = Render(sheet, fmt))
        /\ (~output.ok => (fmt = "docx" /\ DocxRefuses(sheet)) \/ (fmt = "pdf" /\ PdfCanRefuse(sheet)))
    BY <2>2 DEF Rendered
  <2>6. ASSUME output.ok PROVE \A t \in Said : Words(t) \subseteq Shown
    <3>1. Shown = WordsShown(output.blocks)
      BY DEF Shown, WordsShown, WordsIn, ItemsOf
    <3> QED
      BY <2>4, <2>5, <2>6, <3>1, ShownBy
  <2>7. ASSUME output.ok, output.format = "md", NEW i \in 1..Len(output.blocks),
               output.blocks[i].kind = "row", NEW k \in 1..Len(output.blocks[i].texts)
        PROVE  ~Has(output.blocks[i].texts[k], "|")
    <3>1. output.blocks[i] \in ItemsOf(output.blocks)
          /\ output.blocks[i].texts[k] \in ItemsOf(output.blocks[i].texts)
      BY DEF ItemsOf
    <3>2. sheet \in Seq(Sections)
      BY <2>4 DEF InShape
    <3>3. \A b \in ItemsOf(output.blocks) : b.kind = "row" => \A u \in ItemsOf(b.texts) : ~Has(u, "|")
      BY <2>5, <2>7, <3>2, RenderShows
    <3> QED
      BY <2>7, <3>1, <3>3
  <2>8. ASSUME ~output.ok
        PROVE  \/ /\ output.format = "docx"
                  /\ \E i \in 1..Len(sheet) : \E t \in TextsOf(sheet[i]) : Has(t, "ctl")
               \/ output.format = "pdf" /\ \E i \in 1..Len(sheet) : sheet[i].table.rows # <<>>
    BY <2>4, <2>5, <2>8, RefusalMeans DEF PdfCanRefuse
  <2> QED
    BY <2>6, <2>7, <2>8
<1> QED
  BY <1>1, ContentInitially, ContentStep, ExportInitially, ExportStep, PTL DEF ContentSpec

=============================================================================
