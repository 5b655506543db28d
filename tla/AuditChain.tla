----------------------------- MODULE AuditChain -----------------------------
(***************************************************************************)
(* The activity log of one organization: every entry is signed together    *)
(* with the signature of the entry before it, and verify_chain reports the *)
(* first entry whose signature does not fit.                               *)
(*                                                                         *)
(* An entry is known by its created_at, which is fixed before the latest   *)
(* signature is read; the entry is committed after that.  A signature is   *)
(* as good as the entry it belongs to: it is computed once, for an entry   *)
(* with an id of its own, and nobody without the key can make another.     *)
(***************************************************************************)
EXTENDS Naturals

CONSTANTS
    Handlers,    \* requests and tasks that can log at the same time
    MaxEntries   \* bound: entries that are ever begun

ASSUME EntriesAssumption == MaxEntries \in Nat

Entries == 1..MaxEntries
GENESIS == 0

VARIABLES
    clock,      \* the created_at of the latest entry that was begun
    signed,     \* committed entries that have a signature
    unsigned,   \* those without: AUDIT_LOG_SIGNING_ENABLED was off
    prev,       \* the entry whose signature is in prev_signature
    altered,    \* entries logged with a signature that somebody has changed since; those
                \* outside signed have none any more
    removed,    \* entries that somebody has deleted
    req,        \* the calls of activity.log that have not committed
    overlapped  \* history: two of them have been open at a time

logVars == <<clock, signed, unsigned, prev, altered, removed, req>>
vars == <<logVars, overlapped>>

Requests == [pc : {"idle", "stamped", "chained"}, entry : 0..MaxEntries,
             prev : 0..MaxEntries]
Idle == [pc |-> "idle", entry |-> 0, prev |-> GENESIS]

\* Entries that were signed and are passed over now.
PassedOver == removed \cup (altered \ signed)

TypeOK ==
    /\ clock \in 0..MaxEntries
    /\ signed \in SUBSET Entries /\ unsigned \in SUBSET Entries
    /\ prev \in [Entries -> 0..MaxEntries]
    /\ altered \in SUBSET Entries /\ removed \in SUBSET Entries
    /\ req \in [Handlers -> Requests] /\ overlapped \in BOOLEAN
    /\ removed \cap (signed \cup altered) = {}
    /\ unsigned \cap (signed \cup altered \cup removed) = {}
    /\ \A e \in signed \cup unsigned \cup PassedOver : e <= clock
    /\ \A h \in Handlers : req[h].pc # "idle" =>
         /\ req[h].entry \in 1..clock
         /\ req[h].entry \notin signed \cup unsigned \cup PassedOver
         /\ req[h].prev \in signed \cup PassedOver \cup {GENESIS}

Init ==
    /\ clock = 0 /\ signed = {} /\ unsigned = {} /\ altered = {} /\ removed = {}
    /\ prev = [e \in Entries |-> GENESIS]
    /\ req = [h \in Handlers |-> Idle] /\ overlapped = FALSE

At(h, label) == req[h].pc = label

------------------------------------------------------------------------------
(***************************************************************************)
(* activity.log                                                            *)
(***************************************************************************)

\* id and created_at are fixed first.
Stamp(h) ==
    /\ At(h, "idle") /\ clock < MaxEntries
    /\ clock' = clock + 1
    /\ req' = [req EXCEPT ![h] = [Idle EXCEPT !.pc = "stamped", !.entry = clock + 1]]
    /\ UNCHANGED <<signed, unsigned, prev, altered, removed>>

\* e is the latest entry of S, GENESIS when there is none.
IsLatest(e, S) == IF S = {} THEN e = GENESIS ELSE e \in S /\ \A f \in S : f <= e

\* Mistake: an unsigned entry counts as the latest, and its signature is None.
ReadLatestOfAll(h) ==
    /\ At(h, "stamped")
    /\ \E e \in 0..MaxEntries :
         /\ IsLatest(e, signed \cup unsigned)
         /\ req' = [req EXCEPT ![h].pc = "chained",
                               ![h].prev = IF e \in unsigned THEN GENESIS ELSE e]
    /\ UNCHANGED <<clock, signed, unsigned, prev, altered, removed>>

\* latest_signature skips entries without one.
ReadLatest(h) ==
    /\ At(h, "stamped")
    /\ \E e \in 0..MaxEntries :
         /\ IsLatest(e, signed)
         /\ req' = [req EXCEPT ![h].pc = "chained", ![h].prev = e]
    /\ UNCHANGED <<clock, signed, unsigned, prev, altered, removed>>

Commit(h) ==
    /\ At(h, "chained")
    /\ signed' = signed \cup {req[h].entry}
    /\ prev' = [prev EXCEPT ![req[h].entry] = req[h].prev]
    /\ req' = [req EXCEPT ![h] = Idle]
    /\ UNCHANGED <<clock, unsigned, altered, removed>>

\* Signing is switched off: the latest signature is not asked for.
CommitUnsigned(h) ==
    /\ At(h, "stamped")
    /\ unsigned' = unsigned \cup {req[h].entry}
    /\ req' = [req EXCEPT ![h] = Idle]
    /\ UNCHANGED <<clock, signed, prev, altered, removed>>

\* The process dies or the database fails.
Abort(h) ==
    /\ ~At(h, "idle") /\ req' = [req EXCEPT ![h] = Idle]
    /\ UNCHANGED <<clock, signed, unsigned, prev, altered, removed>>

------------------------------------------------------------------------------
(***************************************************************************)
(* Tampering, where the append-only trigger does not exist (it is created  *)
(* on PostgreSQL only) or has been switched off.                           *)
(***************************************************************************)

\* A field that is signed or prev_signature is changed, or the signature is replaced.
Alter(e) ==
    /\ e \in signed /\ altered' = altered \cup {e}
    /\ UNCHANGED <<clock, signed, unsigned, prev, removed, req>>

\* The signature is set to NULL, whatever else of the entry is changed with it.
Clear(e) ==
    /\ e \in signed /\ signed' = signed \ {e} /\ altered' = altered \cup {e}
    /\ UNCHANGED <<clock, unsigned, prev, removed, req>>

Remove(e) ==
    /\ e \in signed \cup altered
    /\ signed' = signed \ {e} /\ altered' = altered \ {e} /\ removed' = removed \cup {e}
    /\ UNCHANGED <<clock, unsigned, prev, req>>

\* Entries are logged one at a time.
Serial == \A g, h \in Handlers : ~At(g, "idle") /\ ~At(h, "idle") => g = h

\* Every step takes note of whether entries overlap.
Observe == overlapped' = (overlapped \/ ~Serial')

Log(h) ==
    \/ Stamp(h) /\ Observe
    \/ ReadLatest(h) /\ Observe
    \/ Commit(h) /\ Observe
    \/ CommitUnsigned(h) /\ Observe
    \/ Abort(h) /\ Observe

Next ==
    \/ \E h \in Handlers : Log(h)
    \/ \E e \in Entries : Alter(e) /\ Observe
    \/ \E e \in Entries : Clear(e) /\ Observe
    \/ \E e \in Entries : Remove(e) /\ Observe

Spec == Init /\ [][Next]_vars

------------------------------------------------------------------------------
(***************************************************************************)
(* verify_chain                                                            *)
(***************************************************************************)

\* Mistake: the signature is checked against the entry's own prev_signature only.
BreaksByItself(e) == e \in signed \cap altered

\* Entry e has a signature, and does not continue the last one before it that has
\* one, or is not what was signed.
Breaks(e) ==
    /\ e \in signed
    /\ ~IsLatest(prev[e], {f \in signed : f < e}) \/ e \in altered

\* verify_chain goes from the oldest entry to the newest and reports the first of these.
Broken == {e \in Entries : Breaks(e)}
Valid == Broken = {}

------------------------------------------------------------------------------
(***************************************************************************)
(* Properties                                                              *)
(***************************************************************************)

\* Where tampering can be seen: a changed entry that still has a signature, and one
\* that was chained to an entry now deleted or without its signature.
Damage == {e \in signed : e \in altered \/ prev[e] \in PassedOver}

\* "aradan bir satir silinir veya degistirilirse zincir dogrulamasi bozulur", said
\* by audit.py ("aradan": from between).  Whatever was logged at the same time,
\* verify_chain finds a break at every changed entry that still has a signature, and
\* after every one deleted or cleared of it that another was chained to.  So nothing
\* is said of the end of the log: an entry nobody is chained to can be deleted, or
\* changed and its signature set to NULL, and there is no break.
DamageShows == Damage \subseteq Broken

\* As long as no two entries have been logged at the same time there is nothing
\* else to find: an intact chain is valid, and the first break reported is where
\* the damage begins.
SerialBreaksAreDamage == ~overlapped => Broken = Damage

\* "Zinciri bastan sona dogrular": a log nobody has touched is valid.
UntouchedIsValid == altered = {} /\ removed = {} => Valid
=============================================================================
