------------------------------ MODULE Snowflake -----------------------------
(***************************************************************************)
(* The generator of message ids of a gateway (snowflake.go).  Next holds   *)
(* the mutex while it waits for the wall clock, which may be set back at   *)
(* any time; every other caller waits for the mutex.                       *)
(***************************************************************************)
EXTENDS Integers

CONSTANTS
    Caller,       \* goroutines that call Next
    NoCaller,     \* nobody holds the mutex
    Workers,      \* number of worker ids (2^workerBits)
    WorkerID,
    MaxSeq,       \* sequenceMax
    MaxBackoff,   \* maxClockBackoff
    StartClock,   \* the wall-clock time when the gateway starts
    MaxClock      \* bound: the latest wall-clock time

ASSUME SnowflakeAssumption ==
    /\ NoCaller \notin Caller
    /\ Workers \in Nat \ {0}
    /\ WorkerID \in 0 .. Workers - 1
    /\ MaxSeq \in Nat
    /\ MaxBackoff \in Nat
    /\ StartClock \in Nat \ {0}

VARIABLES
    wall,        \* wall clock, in milliseconds since Epoch
    lastStamp,
    sequence,
    holder,      \* the caller that waits inside Next
    until,       \* the time that the holder waits for
    issued       \* issued[c]: the ids that c was given

snowVars == <<wall, lastStamp, sequence, holder, until, issued>>

\* (now-Epoch)<<timestampShift | workerID<<workerShift | sequence
Id(now, seq) == (now * Workers + WorkerID) * (MaxSeq + 1) + seq

SnowInit ==
    /\ wall = StartClock
    /\ lastStamp = 0
    /\ sequence = 0
    /\ holder = NoCaller
    /\ until = 0
    /\ issued = [c \in Caller |-> {}]

Issue(c, now, seq) ==
    /\ lastStamp' = now
    /\ sequence' = seq
    /\ issued' = [issued EXCEPT ![c] = @ \cup {Id(now, seq)}]
    /\ holder' = NoCaller
    /\ UNCHANGED <<wall, until>>

Wait(c, time) ==
    /\ holder' = c
    /\ until' = time
    /\ UNCHANGED <<wall, lastStamp, issued>>

\* c has got the mutex, or the time it has been waiting for has come.
Proceeds(c) == holder = NoCaller \/ (holder = c /\ wall >= until)

\* The clock was set back too far: Next gives up and returns 0.
NextFails(c) ==
    /\ holder = NoCaller
    /\ lastStamp - wall > MaxBackoff
    /\ issued' = [issued EXCEPT ![c] = @ \cup {0}]
    /\ UNCHANGED <<wall, lastStamp, sequence, holder, until>>

\* The clock was set back a little: wait until it has caught up.
NextWaits(c) ==
    /\ holder = NoCaller
    /\ wall < lastStamp
    /\ lastStamp - wall <= MaxBackoff
    /\ Wait(c, lastStamp)
    /\ UNCHANGED sequence

\* Mutant: the sequence wraps within the same millisecond.
NextSameMillisWraps(c) ==
    /\ Proceeds(c)
    /\ wall = lastStamp
    /\ Issue(c, wall, (sequence + 1) % (MaxSeq + 1))

\* A further id in the same millisecond, or none is left: wait for the next one.
NextSameMillis(c) ==
    /\ Proceeds(c)
    /\ wall = lastStamp
    /\ IF sequence < MaxSeq
       THEN Issue(c, wall, sequence + 1)
       ELSE Wait(c, lastStamp + 1) /\ sequence' = 0

\* The first id in a millisecond.
NextNewMillis(c) ==
    /\ Proceeds(c)
    /\ wall > lastStamp
    /\ Issue(c, wall, 0)

NextId(c) == NextFails(c) \/ NextWaits(c) \/ NextSameMillis(c) \/ NextNewMillis(c)

Tick ==
    /\ wall < MaxClock
    /\ wall' = wall + 1
    /\ UNCHANGED <<lastStamp, sequence, holder, until, issued>>

\* The clock is set back.
StepBack ==
    /\ wall' \in 1 .. wall - 1
    /\ UNCHANGED <<lastStamp, sequence, holder, until, issued>>

SnowNext == (\E c \in Caller : NextId(c)) \/ Tick \/ StepBack

SnowSpec == SnowInit /\ [][SnowNext]_snowVars

-----------------------------------------------------------------------------
(* Properties                                                              *)

SnowTypeOK ==
    /\ wall \in Nat \ {0}
    /\ lastStamp \in Nat
    /\ sequence \in 0 .. MaxSeq
    /\ holder \in Caller \cup {NoCaller}
    /\ until \in Nat
    /\ issued \in [Caller -> SUBSET Nat]

\* However the clock is set, an id that Next returns is larger than every id it
\* returned before, or the error value 0: ids are unique, and in the order of
\* the calls.
IdsIncrease ==
    [][\A c, d \in Caller :
        \A new \in issued'[c] \ issued[c] : new = 0 \/ \A old \in issued[d] : new > old
      ]_snowVars
=============================================================================
