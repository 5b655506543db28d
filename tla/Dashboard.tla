------------------------------ MODULE Dashboard ------------------------------
(***************************************************************************)
(* org_stats of services/dashboard.py for one organization: its queries    *)
(* run one after the other while documents come, change their status and   *)
(* go, and the clock is read twice.  AI jobs are counted by the same code; *)
(* the other numbers are counts of single tables.                          *)
(***************************************************************************)
EXTENDS Integers, FiniteSets

CONSTANTS
    Papers,     \* documents the organization can have
    Days,       \* DASHBOARD_TREND_DAYS
    DayLength,  \* ticks in a day
    MaxTick     \* bound: how long time goes on

ASSUME DashboardAssumption ==
    /\ IsFiniteSet(Papers)
    /\ Days \in Nat \ {0} /\ DayLength \in Nat \ {0} /\ MaxTick \in Nat

VARIABLES
    tick,       \* utcnow(), in ticks
    paper,      \* the documents: [created, status]
    stats,      \* what org_stats has found: totals, since, days, trend, distribution
    query,      \* the next query of org_stats
    moved,      \* history: documents that came or went since the totals were read
    seen        \* history: the documents as the query of the trend saw them

dashboardVars == <<tick, paper, stats, query, moved, seen>>

Absent == [created |-> -1, status |-> "none"]
States == {"uploaded", "ready"}
Present(ps) == {d \in Papers : ps[d] # Absent}
Day(t) == t \div DayLength
NoStats == [documents |-> 0, since |-> 0, days |-> {}, trend |-> <<>>,
            distribution |-> [s \in States |-> 0]]

DashboardInit ==
    /\ tick = (Days - 1) * DayLength
    /\ paper = [d \in Papers |-> Absent]
    /\ stats = NoStats /\ query = "totals" /\ moved = 0 /\ seen = paper

(* The documents of the organization meanwhile. *)
Come(d) ==
    /\ paper[d] = Absent
    /\ \E t \in tick - (Days - 1) * DayLength..tick :
         /\ query # "totals" => t = tick
         /\ paper' = [paper EXCEPT ![d] = [created |-> t, status |-> "uploaded"]]
    /\ moved' = moved + 1
    /\ UNCHANGED <<tick, stats, query, seen>>
Change(d) ==
    /\ paper[d].status = "uploaded"
    /\ paper' = [paper EXCEPT ![d].status = "ready"]
    /\ UNCHANGED <<tick, stats, query, moved, seen>>
Go(d) ==
    /\ paper[d] # Absent /\ moved < Cardinality(Papers)
    /\ paper' = [paper EXCEPT ![d] = Absent]
    /\ moved' = moved + 1
    /\ UNCHANGED <<tick, stats, query, seen>>
Ticks == tick < MaxTick /\ tick' = tick + 1 /\ UNCHANGED <<paper, stats, query, moved, seen>>

(* usage.document_count *)
ReadTotals ==
    /\ query = "totals" /\ query' = "since" /\ moved' = 0
    /\ stats' = [NoStats EXCEPT !.documents = Cardinality(Present(paper))]
    /\ UNCHANGED <<tick, paper, seen>>

(* Mistake: the query goes back one day less than the buckets do. *)
SinceTooLate == tick - (Days - 2) * DayLength

(* since = utcnow() - timedelta(days=days - 1) *)
Since == tick - (Days - 1) * DayLength

TakeSince ==
    /\ query = "since" /\ query' = "buckets"
    /\ stats' = [stats EXCEPT !.since = Since]
    /\ UNCHANGED <<tick, paper, moved, seen>>

(* _empty_trend reads the clock again, perhaps on the next day. *)
EmptyTrend ==
    /\ query = "buckets" /\ query' = "trend"
    /\ stats' = [stats EXCEPT !.days = Day(tick) - (Days - 1)..Day(tick)]
    /\ UNCHANGED <<tick, paper, moved, seen>>

(* _trend counts the rows since then by day, dropping those of other days. *)
Trend ==
    /\ query = "trend" /\ query' = "distribution"
    /\ stats' = [stats EXCEPT !.trend = [day \in stats.days |->
                    Cardinality({d \in Present(paper) : paper[d].created >= stats.since
                                                        /\ Day(paper[d].created) = day})]]
    /\ seen' = paper
    /\ UNCHANGED <<tick, paper, moved>>

(* _distribution *)
Distribution ==
    /\ query = "distribution" /\ query' = "shown"
    /\ stats' = [stats EXCEPT !.distribution =
                    [s \in States |-> Cardinality({d \in Papers : paper[d].status = s})]]
    /\ UNCHANGED <<tick, paper, moved, seen>>

Reload == query = "shown" /\ query' = "totals" /\ UNCHANGED <<tick, paper, stats, moved, seen>>

DashboardNext ==
    \/ \E d \in Papers : Come(d)
    \/ \E d \in Papers : Change(d)
    \/ \E d \in Papers : Go(d)
    \/ Ticks
    \/ ReadTotals
    \/ TakeSince
    \/ EmptyTrend
    \/ Trend
    \/ Distribution
    \/ Reload

DashboardSpec == DashboardInit /\ [][DashboardNext]_dashboardVars

-----------------------------------------------------------------------------
CreatedOn(day) == {d \in Present(seen) : Day(seen[d].created) = day}
Counted == stats.distribution["uploaded"] + stats.distribution["ready"]

(* "Gunluk dokuman/AI islem sayilari": each day shown has the documents created on it that
   there are, whenever midnight comes; only of the oldest day, where the query begins at
   the present time of day, some may be missing.  And the numbers of one page disagree by
   no more documents than came or went while they were read. *)
TrendCountsDays ==
    query \in {"distribution", "shown"} =>
        /\ \A day \in stats.days :
             /\ stats.trend[day] <= Cardinality(CreatedOn(day))
             /\ day - 1 \in stats.days => stats.trend[day] = Cardinality(CreatedOn(day))
        /\ query = "shown" => Counted - stats.documents \in -moved..moved
=============================================================================
