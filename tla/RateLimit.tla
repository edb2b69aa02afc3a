------------------------------ MODULE RateLimit ------------------------------
(***************************************************************************)
(* The in-process rate limiter (ratelimit/memory.go) and AllowEach, which  *)
(* charges an attempt to several keys. One tick of the clock is 1/Interval *)
(* of a unit of budget, so a bucket's fractional tokens are whole numbers  *)
(* here. Allow reads the clock before it takes the lock: what it does      *)
(* under the lock may be late.                                             *)
(***************************************************************************)
EXTENDS Integers, FiniteSets

CONSTANTS
    LimitKeys,  \* the keys attempts are counted under
    Attempts,   \* concurrently running attempts
    Burst,      \* MemoryConfig.Burst
    Interval,   \* MemoryConfig.Interval, in ticks
    MaxKeys,    \* MemoryConfig.MaxKeys
    MaxClock,   \* bound on the clock
    NoKey        \* no bucket, no key

VARIABLES
    clock,     \* time, in ticks
    buckets,   \* Memory.buckets
    att,       \* local state of each attempt
    admitted,  \* history: calls of Allow that let each key through since its count began
    since,     \* history: when that was
    behind     \* history: keys whose bucket was made by a call that had read
               \* the clock before the one they had was dropped

lvars == <<clock, buckets, att, admitted, since, behind>>

\* keys: what AllowEach has yet to charge. now: the clock as Allow read it,
\* -1 outside Allow. missed: the keys whose buckets were dropped later than
\* that. Whether any key refused is AllowEach's answer, and steers nothing.
Attempt == [keys : SUBSET LimitKeys, now : -1 .. MaxClock, missed : SUBSET LimitKeys]

NoAttempt == [keys |-> {}, now |-> -1, missed |-> {}]

Bucket == [tokens : 0 .. Burst * Interval, last : 0 .. MaxClock]

\* withDefaults puts a usable value for each that is not.
ASSUME RateLimitAssumption ==
    /\ {Burst, Interval, MaxKeys} \subseteq Nat \ {0}
    /\ MaxClock \in Nat
    /\ NoKey \notin LimitKeys \cup Bucket

LTypeOK ==
    /\ clock \in 0 .. MaxClock
    /\ buckets \in [LimitKeys -> Bucket \cup {NoKey}]
    /\ att \in [Attempts -> Attempt]
    /\ behind \subseteq LimitKeys

LInit ==
    /\ clock = 0
    /\ buckets = [k \in LimitKeys |-> NoKey]
    /\ att = [a \in Attempts |-> NoAttempt]
    /\ admitted = [k \in LimitKeys |-> 0]
    /\ since = 0
    /\ behind = {}

-----------------------------------------------------------------------------
Full == Burst * Interval

Held == {k \in LimitKeys : buckets[k] # NoKey}

\* What a bucket holds at time now, before the cap.
Refilled(b, now) == b.tokens + (now - b.last)

\* A plausible bug: room is made at the cost of a key under restriction.
EvictsAny(now) == Held

\* evictFullLocked: the keys whose budget has refilled completely.
Evictable(now) == {k \in Held : Refilled(buckets[k], now) >= Full}

\* ks are dropped: callers that read an earlier time have missed it.
Drop(a, ks) ==
    IF att[a].now \in 0 .. clock - 1 THEN [att[a] EXCEPT !.missed = @ \cup ks] ELSE att[a]

\* The bucket key k is charged to, after lazy refill; NoKey when the table
\* is full of restricted keys and k is not among them.
Charged(k, now, kept) ==
    LET b == buckets[k] IN
    IF k \in Held
      THEN IF now > b.last
             THEN [tokens |-> IF Refilled(b, now) > Full THEN Full ELSE Refilled(b, now), last |-> now]
             ELSE b
      ELSE IF Cardinality(kept) >= MaxKeys THEN NoKey ELSE [tokens |-> Full, last |-> now]

-----------------------------------------------------------------------------
(***************************************************************************)
(* An attempt: AllowEach over some keys. A key that ends in ":" is not in  *)
(* the set.                                                                *)
(***************************************************************************)
AllowEach(a) ==
    /\ att[a] = NoAttempt
    /\ \E ks \in SUBSET LimitKeys \ {{}} : att' = [att EXCEPT ![a].keys = ks]
    /\ UNCHANGED <<clock, buckets, admitted, since, behind>>

\* Allow, outside the lock.
ReadClock(a) ==
    /\ att[a].keys # {}
    /\ att[a].now = -1
    /\ att' = [att EXCEPT ![a].now = clock]
    /\ UNCHANGED <<clock, buckets, admitted, since, behind>>

\* Allow, under the lock, and AllowEach's loop: a refusal does not end it.
Allow(a) ==
    /\ att[a].now # -1
    /\ \E k \in att[a].keys :
         LET now == att[a].now
             evicted == IF k \notin Held /\ Cardinality(Held) >= MaxKeys THEN Evictable(now) ELSE {}
             b == Charged(k, now, Held \ evicted)
             ok == b # NoKey /\ b.tokens >= Interval
             left == att[a].keys \ {k}
         IN
         /\ buckets' = [j \in LimitKeys |->
                          CASE j = k /\ ok -> [b EXCEPT !.tokens = @ - Interval]
                            [] j = k /\ ~ok -> b
                            [] j \in evicted -> NoKey
                            [] OTHER -> buckets[j]]
         /\ behind' = IF k \notin Held /\ b # NoKey /\ k \in att[a].missed THEN behind \cup {k} ELSE behind
         /\ admitted' = IF ok THEN [admitted EXCEPT ![k] = @ + 1] ELSE admitted
         /\ att' = [c \in Attempts |->
                      CASE c # a -> Drop(c, evicted)
                        [] c = a /\ left = {} -> NoAttempt
                        [] OTHER -> [NoAttempt EXCEPT !.keys = left]]
    /\ UNCHANGED <<clock, since>>

\* Every key has its full budget back, and the counts start anew. Bound: a
\* behaviour has one reset.
Reset ==
    /\ since = 0 /\ clock > 0
    /\ buckets' = [k \in LimitKeys |-> NoKey]
    /\ admitted' = [k \in LimitKeys |-> 0]
    /\ since' = clock
    /\ att' = [a \in Attempts |-> Drop(a, LimitKeys)]
    /\ UNCHANGED <<clock, behind>>

LTick ==
    /\ clock < MaxClock
    /\ clock' = clock + 1
    /\ UNCHANGED <<buckets, att, admitted, since, behind>>

LNext ==
    \/ \E a \in Attempts : AllowEach(a) \/ ReadClock(a) \/ Allow(a)
    \/ Reset \/ LTick

-----------------------------------------------------------------------------
\* memory.go:19-28 and 119-131. A key is let through at most Burst times and
\* once more for every Interval gone by, whatever the table had to forget to
\* stay within MaxKeys: what evictFullLocked drops changes no decision. Keys
\* that a late caller brought back with an old clock are left out: they are
\* given the time since then twice.
Metered ==
    /\ Cardinality(Held) <= MaxKeys
    /\ \A k \in LimitKeys \ behind : admitted[k] * Interval <= Full + (clock - since)
=============================================================================
