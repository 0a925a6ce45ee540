---------------------------- MODULE RateLimiter -----------------------------
(***************************************************************************)
(* The token buckets of a gateway (rate_limiter.go).  Each call holds the  *)
(* mutex from beginning to end, so one action stands for one call.  Times  *)
(* are readings of the monotonic clock, which time.Now carries and Sub     *)
(* uses.  Fractions of a token are counted in parts: Token parts make one. *)
(***************************************************************************)
EXTENDS Integers

CONSTANTS
    Uid,         \* users
    Token,       \* parts of one token
    Rate,        \* parts gained per unit of time
    Burst,       \* capacity of a bucket, in tokens
    Interval,    \* cleanupInterval
    MaxTime,     \* bound: time that passes
    NoBucket     \* no bucket for the user

Full == Burst * Token

Bucket == [tokens : 0 .. Full, lastTime : Nat]

\* A bucket left alone for Interval is full again (config.go: 10 tokens a
\* second, 20 at most, 5 minutes).
ASSUME LimiterAssumption ==
    /\ Token \in Nat \ {0}
    /\ Rate \in Nat
    /\ Burst \in Nat \ {0}
    /\ Interval \in Nat
    /\ Rate * Interval >= Full
    /\ NoBucket \notin Bucket

VARIABLES
    mono,      \* monotonic clock
    buckets,   \* RateLimiter.buckets
    since,     \* history: when the measurement began
    allowed    \* history: allowed[u]: requests of u let through since then

limiterVars == <<mono, buckets, since, allowed>>

LimiterInit ==
    /\ mono = 0
    /\ buckets = [u \in Uid |-> NoBucket]
    /\ since = 0
    /\ allowed = [u \in Uid |-> 0]

Least(a, b) == IF a <= b THEN a ELSE b

\* What the bucket of u holds by now.
Credit(u) ==
    IF buckets[u] = NoBucket
    THEN Full
    ELSE Least(Full, buckets[u].tokens + Rate * (mono - buckets[u].lastTime))

Spend(u, credit) ==
    buckets' = [buckets EXCEPT ![u] = [tokens |-> credit, lastTime |-> mono]]

\* Mutant: the refilled bucket is not cut down to its capacity.
AllowUncapped(u) ==
    LET credit == IF buckets[u] = NoBucket THEN Full
                  ELSE buckets[u].tokens + Rate * (mono - buckets[u].lastTime)
    IN  /\ credit >= Token
        /\ Spend(u, credit - Token)
        /\ allowed' = [allowed EXCEPT ![u] = @ + 1]
        /\ UNCHANGED <<mono, since>>

\* Allow returns true.
Allow(u) ==
    /\ Credit(u) >= Token
    /\ Spend(u, Credit(u) - Token)
    /\ allowed' = [allowed EXCEPT ![u] = @ + 1]
    /\ UNCHANGED <<mono, since>>

\* Allow returns false; the refill is kept.
Reject(u) ==
    /\ Credit(u) < Token
    /\ Spend(u, Credit(u))
    /\ UNCHANGED <<mono, since, allowed>>

\* cleanupLoop: buckets that have not been used for longer than Interval.
Cleanup ==
    /\ buckets' = [u \in Uid |->
                    IF buckets[u] # NoBucket /\ mono - buckets[u].lastTime > Interval
                    THEN NoBucket
                    ELSE buckets[u]]
    /\ buckets' # buckets
    /\ UNCHANGED <<mono, since, allowed>>

Pass ==
    /\ mono < MaxTime
    /\ mono' = mono + 1
    /\ UNCHANGED <<buckets, since, allowed>>

\* The measurement starts anew, at any moment.
Measure ==
    /\ since' = mono
    /\ allowed' = [u \in Uid |-> 0]
    /\ UNCHANGED <<mono, buckets>>

LimiterNext ==
    \/ \E u \in Uid : Allow(u) \/ Reject(u)
    \/ Cleanup
    \/ Pass
    \/ Measure

LimiterSpec == LimiterInit /\ [][LimiterNext]_limiterVars

-----------------------------------------------------------------------------
(* Properties                                                              *)

LimiterTypeOK ==
    /\ mono \in Nat
    /\ since \in Nat
    /\ since <= mono
    /\ buckets \in [Uid -> Bucket \cup {NoBucket}]
    /\ allowed \in [Uid -> Nat]
    /\ \A u \in Uid : buckets[u] # NoBucket => buckets[u].lastTime <= mono

\* Over any stretch of time a user gets through the burst and what the rate
\* yields in that time, and no more, also when the cleanup forgot the bucket in
\* between (Allow creates it anew, full).
RateIsBounded ==
    \A u \in Uid : allowed[u] * Token <= Full + Rate * (mono - since)
=============================================================================
