------------------------------ MODULE RateLimiter ------------------------------
(***************************************************************************)
(* rate_limit.py: the token buckets of PerUserRateLimiter, for every       *)
(* limiter the service builds.  allow() has no suspension point under its  *)
(* uncontended lock, so one call of it is part of one step.                *)
(*                                                                         *)
(* Time is counted in ticks, Minute of them in a minute, and tokens in     *)
(* parts, Minute of them in a token: a bucket of max_per_minute tokens     *)
(* then refills by exactly max_per_minute parts a tick.                    *)
(***************************************************************************)
EXTENDS Integers, Sequences

CONSTANTS
    Limiters,           \* the instances of PerUserRateLimiter
    Subjects,           \* user ids and client addresses
    MaxPerMinute,       \* each limiter's setting; 0 or less disables it
    MaxTrackedKeys,
    Minute,             \* ticks in a minute
    MaxTime             \* model bound: the clock stops there

ASSUME LimiterAssumption ==
    /\ MaxPerMinute \in [Limiters -> Int]
    /\ MaxTrackedKeys \in Int
    /\ Minute \in Nat \ {0}
    /\ MaxTime \in Nat

VARIABLES
    now,
    buckets,        \* each limiter's table: [tokens, at] by key
    order,          \* its keys, the one touched longest ago first
    admits          \* History: when each key was admitted, since it has a bucket

limiterVars == <<buckets, order, admits>>

Capacity == IF MaxTrackedKeys < 1 THEN 1 ELSE MaxTrackedKeys
Disabled(l) == MaxPerMinute[l] <= 0
Full(l) == MaxPerMinute[l] * Minute

LimiterInit ==
    /\ buckets = [l \in Limiters |-> <<>>]
    /\ order = [l \in Limiters |-> <<>>]
    /\ admits = [l \in Limiters |-> [k \in Subjects |-> <<>>]]

Tracked(l, k) == k \in DOMAIN buckets[l]

(* What a bucket holds after the refill for the time since its last use. *)
UncappedRefill(l, k) ==         \* mutant: idle time is saved up
    buckets[l][k].tokens + (now - buckets[l][k].at) * MaxPerMinute[l]
Refilled(l, k) ==
    LET grown == buckets[l][k].tokens + (now - buckets[l][k].at) * MaxPerMinute[l]
    IN  IF grown > Full(l) THEN Full(l) ELSE grown

Admits(l, k) == Disabled(l) \/ ~Tracked(l, k) \/ Refilled(l, k) >= Minute

(* popitem(last=False) until there is room for one more. *)
Evicted(l) == IF Len(order[l]) < Capacity THEN {}
              ELSE {order[l][i] : i \in 1 .. (Len(order[l]) - Capacity + 1)}

(* _admit: a key without a bucket gets a full one, less this request. *)
Inserts(l, k) ==
    LET kept == DOMAIN buckets[l] \ Evicted(l)
    IN  /\ buckets' = [buckets EXCEPT ![l] =
              [x \in kept \cup {k} |->
                  IF x = k THEN [tokens |-> Full(l) - Minute, at |-> now]
                  ELSE buckets[l][x]]]
        /\ order' = [order EXCEPT ![l] = Append(SelectSeq(@, LAMBDA x : x \in kept), k)]
        /\ admits' = [admits EXCEPT ![l] =
              [x \in Subjects |-> IF x = k THEN <<now>>
                                  ELSE IF x \in Evicted(l) THEN <<>> ELSE admits[l][x]]]

Touches(l, k) ==
    /\ buckets' = [buckets EXCEPT ![l][k] =
          [tokens |-> Refilled(l, k) - (IF Refilled(l, k) >= Minute THEN Minute ELSE 0),
           at |-> now]]
    /\ order' = [order EXCEPT ![l] = Append(SelectSeq(@, LAMBDA x : x # k), k)]
    /\ admits' = IF Refilled(l, k) >= Minute
                   THEN [admits EXCEPT ![l][k] = Append(@, now)] ELSE admits

(* allow(): what a request does to its limiter, admitted or not. *)
Allow(l, k) ==
    IF Disabled(l) THEN UNCHANGED limiterVars
    ELSE IF Tracked(l, k) THEN Touches(l, k)
    ELSE Inserts(l, k)

(* "Limit applies per rolling minute", for a key that keeps its bucket:    *)
(* of n requests admitted in a row the last comes no sooner than           *)
(* n - max_per_minute tokens take to flow back.  A minute that starts with *)
(* a full bucket so admits up to twice the setting, and no stretch more    *)
(* than that.                                                              *)
BurstsSpaced ==
    \A l \in Limiters : \A k \in DOMAIN buckets[l] :
        \A i, j \in DOMAIN admits[l][k] :
            i <= j => (j - i + 1) * Minute
                        <= Full(l) + MaxPerMinute[l] * (admits[l][k][j] - admits[l][k][i])
=============================================================================
