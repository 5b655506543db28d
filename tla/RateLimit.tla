----------------------------- MODULE RateLimit -----------------------------
(***************************************************************************)
(* The rate limit of one client in one bucket (core/ratelimit.py), as      *)
(* RateLimitMiddleware asks it: a counter for each window of time, kept by *)
(* every process for itself or by all in Redis.                            *)
(***************************************************************************)
EXTENDS Integers, FiniteSets

CONSTANTS
    Servers,      \* API processes
    Shared,       \* the store all processes use with RATE_LIMIT_BACKEND = "redis"
    Backends,     \* bound: the backends to look at
    Limit,        \* RATE_LIMIT_REQUESTS
    Window,       \* RATE_LIMIT_WINDOW_SECONDS
    MaxTime,      \* bound: seconds that pass
    MaxAsked,     \* bound: requests in a second
    MaxRestarts   \* bound: restarts of processes

ASSUME RateAssumption ==
    /\ IsFiniteSet(Servers) /\ Shared \notin Servers /\ Backends \subseteq {"memory", "redis"}
    /\ Limit \in Nat /\ Window \in Nat \ {0}
    /\ MaxTime \in Nat /\ MaxAsked \in Nat /\ MaxRestarts \in Nat

VARIABLES
    backend,    \* settings.RATE_LIMIT_BACKEND of this deployment
    now,        \* int(time.time())
    counters,   \* of each store: the count of each window's key, and when it expires
    passed,     \* history: the requests that were let through, [at, no], numbered
    refused,    \* history: [at, seen, retry] of the last request answered 429, if any
    restarts    \* history: restarts of processes

rateVars == <<backend, now, counters, passed, refused, restarts>>

Stores == Servers \cup {Shared}
Keys == 0..MaxTime \div Window
Key(t) == t \div Window
NoCount == [count |-> 0, expires |-> 0]
NotRefused == [at |-> 0, seen |-> Limit + 1, retry |-> 1]

Store(p) == IF backend = "redis" THEN Shared ELSE p

RateInit ==
    /\ backend \in Backends /\ now = 0 /\ restarts = 0
    /\ counters = [s \in Stores |-> [k \in Keys |-> NoCount]]
    /\ passed = {}
    /\ refused = NotRefused

(* hit: the count of the key with this request, which begins anew when the key expired. *)
Hit(c) ==
    IF now >= c.expires THEN [count |-> 1, expires |-> now + Window]
    ELSE [c EXCEPT !.count = @ + 1]

(* Mistake: the request after the last is let through as well. *)
OverLimitLate(n) == n > Limit + 1

OverLimit(n) == n > Limit

PassedIn(from, to) == Cardinality({r \in passed : r.at \in from..to})

Allowed(p) == ~OverLimit(Hit(counters[Store(p)][Key(now)]).count)

(* check, for a request that process p serves *)
Pass(p) ==
    /\ PassedIn(now, now) < MaxAsked
    /\ Allowed(p)
    /\ counters' = [counters EXCEPT ![Store(p)][Key(now)] = Hit(@)]
    /\ passed' = passed \cup {[at |-> now, no |-> Cardinality(passed) + 1]}
    /\ UNCHANGED <<backend, now, refused, restarts>>

Refuse429(p) ==
    LET hit == Hit(counters[Store(p)][Key(now)]) IN
    /\ ~Allowed(p)
    /\ hit.count <= Limit + 2       \* bound: refusals that are told apart
    /\ counters' = [counters EXCEPT ![Store(p)][Key(now)] = hit]
    /\ refused' = [at |-> now, seen |-> hit.count, retry |-> Window - (now % Window)]
    /\ UNCHANGED <<backend, now, passed, restarts>>

Tick == now < MaxTime /\ now' = now + 1 /\ UNCHANGED <<backend, counters, passed, refused, restarts>>

(* A process starts anew: the counters of a MemoryBackend are gone. *)
RestartServer(p) ==
    /\ restarts < MaxRestarts /\ restarts' = restarts + 1
    /\ counters' = [counters EXCEPT ![p] = [k \in Keys |-> NoCount]]
    /\ UNCHANGED <<backend, now, passed, refused>>

RateNext ==
    \/ \E p \in Servers : Pass(p)
    \/ \E p \in Servers : Refuse429(p)
    \/ Tick
    \/ \E p \in Servers : RestartServer(p)

RateSpec == RateInit /\ [][RateNext]_rateVars

-----------------------------------------------------------------------------
(* What a window lets through: the limit once, or once for each process and restart. *)
Share == IF backend = "redis" THEN Limit ELSE Limit * (Cardinality(Servers) + restarts)

(* In a window of the clock no more than its share is let through, in any stretch of that
   length twice the share (windows are fixed, not sliding), and who is refused has used his
   limit up and may come back when he was told to. *)
WindowsHold ==
    /\ \A k \in Keys : PassedIn(Window * k, Window * k + Window - 1) <= Share
    /\ \A t \in 0..MaxTime : PassedIn(t, t + Window - 1) <= 2 * Share
    /\ refused.seen > Limit /\ 0 < refused.retry /\ refused.retry <= Window
    /\ refused # NotRefused => Key(refused.at + refused.retry) = Key(refused.at) + 1
=============================================================================
