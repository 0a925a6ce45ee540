---------------------------- MODULE ArchiveProofs ---------------------------
(***************************************************************************)
(* The message table, its readers and the accounts, and the components     *)
(* they are made of.                                                       *)
(*                                                                         *)
(* The ids of a gateway increase for any number of callers, any layout of  *)
(* the id and any behaviour of the wall clock.  The rate limit holds for   *)
(* any users, rate, burst and cleanup interval that satisfy                *)
(* LimiterAssumption, over any stretch of time.  The password of an        *)
(* account is its owner's, for any number of people, accounts and          *)
(* requests: PasswordIsOwners is not inductive, because UpdatePassword     *)
(* writes what HandleChangePassword compared earlier, so its invariant     *)
(* also says what still holds of a change that is under way.               *)
(*                                                                         *)
(* The composition implements the three, so that the theorems about each   *)
(* of them hold of the whole, for any number of messages, people, accounts *)
(* and requests.                                                           *)
(*                                                                         *)
(* That a complete reading misses only the named exceptions is an          *)
(* invariant of the reader in the middle of its pages: what it is owed and *)
(* has not seen is still ahead of its cursor, its position or its offset.  *)
(***************************************************************************)
EXTENDS Archive, TLAPS

-----------------------------------------------------------------------------
(* The generator of ids                                                    *)

\* The holder of the mutex waits because the sequence is used up.
Exhausted == holder # NoCaller /\ until > lastStamp

\* Why IdsIncrease holds: no id exceeds the last one of the current millisecond,
\* nor, unless the sequence is used up, the one that was issued last.
SnowInv ==
    /\ SnowTypeOK
    /\ holder # NoCaller => until \in {lastStamp, lastStamp + 1}
    /\ \A c \in Caller : \A i \in issued[c] :
        /\ i <= Id(lastStamp, MaxSeq)
        /\ ~Exhausted => i <= Id(lastStamp, sequence)

\* Next packs time and sequence into a natural number.
LEMMA IdIsNatural ==
    ASSUME NEW now \in Nat, NEW seq \in 0 .. MaxSeq
    PROVE  Id(now, seq) \in Nat
  <1> DEFINE k == MaxSeq + 1
             t == now * Workers + WorkerID
  <1>1. k \in Nat /\ t \in Nat
    BY SnowflakeAssumption DEF SnowflakeAssumption
  <1>2. t * k \in Nat
    <2> HIDE DEF t, k
    <2> QED BY <1>1
  <1> QED BY <1>2, SnowflakeAssumption DEF SnowflakeAssumption, Id

\* Within one millisecond ids follow the sequence.
LEMMA IdFollowsSequence ==
    ASSUME NEW now \in Nat, NEW p \in 0 .. MaxSeq, NEW q \in 0 .. MaxSeq
    PROVE  (p < q => Id(now, p) < Id(now, q)) /\ (p <= q => Id(now, p) <= Id(now, q))
  <1> DEFINE t == (now * Workers + WorkerID) * (MaxSeq + 1)
  <1>1. t \in Int
    BY SnowflakeAssumption DEF SnowflakeAssumption
  <1>2. Id(now, p) = t + p /\ Id(now, q) = t + q
    BY DEF Id
  <1> HIDE DEF t
  <1> QED BY <1>1, <1>2, SnowflakeAssumption DEF SnowflakeAssumption

\* The first id of a millisecond exceeds the last possible one of any earlier.
LEMMA IdFollowsTime ==
    ASSUME NEW s \in Nat, NEW t \in Nat, s < t
    PROVE  Id(s, MaxSeq) < Id(t, 0)
  <1> DEFINE k == MaxSeq + 1
             a == s * Workers + WorkerID
             b == t * Workers + WorkerID
  <1>1. k \in Nat \ {0} /\ a \in Nat /\ b \in Nat
    BY SnowflakeAssumption DEF SnowflakeAssumption
  <1>2. a + 1 <= b
    <2>1. (s + 1) * Workers <= t * Workers
      BY SnowflakeAssumption DEF SnowflakeAssumption
    <2>2. (s + 1) * Workers = s * Workers + Workers
      BY SnowflakeAssumption DEF SnowflakeAssumption
    <2> QED BY <2>1, <2>2, SnowflakeAssumption DEF SnowflakeAssumption
  <1>3. (a + 1) * k <= b * k /\ (a + 1) * k = a * k + k
    <2> HIDE DEF a, b, k
    <2> QED BY <1>1, <1>2
  <1>4. Id(s, MaxSeq) = a * k + k - 1 /\ Id(t, 0) = b * k
    BY SnowflakeAssumption DEF SnowflakeAssumption, Id
  <1>5. a * k \in Nat /\ b * k \in Nat
    <2> HIDE DEF a, b, k
    <2> QED BY <1>1
  <1> HIDE DEF a, b, k
  <1> QED BY <1>1, <1>3, <1>4, <1>5

\* The new id of Issue exceeds all the others, and is the largest from then on.
LEMMA IssueSteps ==
    ASSUME SnowInv, NEW c \in Caller, NEW seq \in 0 .. MaxSeq, Issue(c, wall, seq),
           wall >= lastStamp,
           \A d \in Caller : \A i \in issued[d] : i < Id(wall, seq)
    PROVE  /\ SnowInv'
           /\ \A d, e \in Caller : \A new \in issued'[d] \ issued[d] :
                new = 0 \/ \A old \in issued[e] : new > old
  <1> DEFINE new == Id(wall, seq)
  <1>1. new \in Nat
    BY IdIsNatural DEF SnowInv, SnowTypeOK
  <1>2. issued' = [issued EXCEPT ![c] = @ \cup {new}] /\ lastStamp' = wall
        /\ sequence' = seq /\ holder' = NoCaller /\ wall' = wall /\ until' = until
    BY DEF Issue
  <1>3. \A d \in Caller : issued[d] \subseteq Nat /\ issued'[d] \subseteq issued[d] \cup {new}
    BY <1>2 DEF SnowInv, SnowTypeOK
  <1>4. SnowTypeOK'
    <2>1. issued' \in [Caller -> SUBSET Nat]
      BY <1>1, <1>2 DEF SnowInv, SnowTypeOK
    <2> QED BY <1>2, <2>1 DEF SnowInv, SnowTypeOK
  <1>5. Id(lastStamp, MaxSeq)' = Id(wall, MaxSeq) /\ Id(lastStamp, sequence)' = new
    BY <1>2 DEF Id
  <1>6. new <= Id(wall, MaxSeq) /\ Id(wall, MaxSeq) \in Nat
    BY IdFollowsSequence, IdIsNatural, SnowflakeAssumption DEF SnowInv, SnowTypeOK, SnowflakeAssumption
  <1> HIDE DEF new
  <1>7. \A d \in Caller : \A i \in issued'[d] : i <= new /\ i <= Id(wall, MaxSeq)
    <2> SUFFICES ASSUME NEW d \in Caller, NEW i \in issued'[d]
                 PROVE  i <= new /\ i <= Id(wall, MaxSeq)
      OBVIOUS
    <2>1. i = new \/ i \in issued[d]
      BY <1>3
    <2>2. i \in Nat /\ (i \in issued[d] => i < new)
      BY <1>1, <1>3, <2>1 DEF new
    <2> QED BY <1>1, <1>6, <2>1, <2>2
  <1>8. SnowInv'
    BY <1>2, <1>4, <1>5, <1>7 DEF SnowInv
  <1>9. \A d, e \in Caller : \A n \in issued'[d] \ issued[d] :
            n = 0 \/ \A old \in issued[e] : n > old
    <2> SUFFICES ASSUME NEW d \in Caller, NEW e \in Caller,
                        NEW n \in issued'[d] \ issued[d], NEW old \in issued[e]
                 PROVE  n > old
      OBVIOUS
    <2>1. n = new
      BY <1>3
    <2>2. old \in Nat /\ old < new
      BY <1>3 DEF new
    <2> QED BY <1>1, <2>1, <2>2
  <1> QED BY <1>8, <1>9

\* A step that issues no id but 0.
LEMMA QuietSteps ==
    ASSUME SnowInv, SnowTypeOK', lastStamp' = lastStamp,
           \A d \in Caller : issued'[d] \subseteq issued[d] \cup {0},
           holder' # NoCaller => until' \in {lastStamp, lastStamp + 1},
           Exhausted' \/ (~Exhausted /\ sequence' = sequence)
    PROVE  /\ SnowInv'
           /\ \A d, e \in Caller : \A new \in issued'[d] \ issued[d] :
                new = 0 \/ \A old \in issued[e] : new > old
  <1>1. Id(lastStamp, MaxSeq)' = Id(lastStamp, MaxSeq)
    BY DEF Id
  <1>2. Id(lastStamp, MaxSeq) \in Nat /\ Id(lastStamp, sequence) \in Nat
    BY IdIsNatural, SnowflakeAssumption DEF SnowInv, SnowTypeOK, SnowflakeAssumption
  <1>3. \A d \in Caller : \A i \in issued'[d] : i <= Id(lastStamp, MaxSeq)
    <2> SUFFICES ASSUME NEW d \in Caller, NEW i \in issued'[d]
                 PROVE  i <= Id(lastStamp, MaxSeq)
      OBVIOUS
    <2>1. i = 0 \/ i \in issued[d]
      OBVIOUS
    <2> QED BY <1>2, <2>1 DEF SnowInv
  <1>4. ~Exhausted' => \A d \in Caller : \A i \in issued'[d] : i <= Id(lastStamp', sequence')
    <2> SUFFICES ASSUME ~Exhausted', NEW d \in Caller, NEW i \in issued'[d]
                 PROVE  i <= Id(lastStamp', sequence')
      OBVIOUS
    <2>1. Id(lastStamp', sequence') = Id(lastStamp, sequence)
      BY DEF Id
    <2>2. i = 0 \/ i \in issued[d]
      OBVIOUS
    <2> QED BY <1>2, <2>1, <2>2 DEF SnowInv
  <1>5. Id(lastStamp, sequence)' = Id(lastStamp', sequence')
    BY DEF Id
  <1>6. SnowInv'
    BY <1>1, <1>3, <1>4, <1>5 DEF SnowInv
  <1> QED BY <1>6

\* Every step keeps SnowInv and hands out ids in increasing order.
LEMMA SnowSteps ==
    ASSUME SnowInv, [SnowNext]_snowVars
    PROVE  /\ SnowInv'
           /\ \A d, e \in Caller : \A new \in issued'[d] \ issued[d] :
                new = 0 \/ \A old \in issued[e] : new > old
  <1> USE DEF SnowInv, SnowTypeOK
  <1>1. ASSUME NEW c \in Caller, NextFails(c)
        PROVE  SnowTypeOK' /\ \A d \in Caller : issued'[d] \subseteq issued[d] \cup {0}
    BY <1>1 DEF NextFails
  <1>2. CASE \E c \in Caller : NextFails(c)
    BY <1>1, <1>2, QuietSteps DEF NextFails, Exhausted
  <1>3. CASE \E c \in Caller : NextWaits(c)
    <2>1. PICK c \in Caller : NextWaits(c)
      BY <1>3
    <2>2. SnowTypeOK' /\ ~Exhausted
      BY <2>1 DEF NextWaits, Wait, Exhausted
    <2> QED BY <2>1, <2>2, QuietSteps DEF NextWaits, Wait
  <1>4. CASE \E c \in Caller : NextSameMillis(c)
    <2>1. PICK c \in Caller : NextSameMillis(c)
      BY <1>4
    <2>2. ~Exhausted
      BY <2>1 DEF NextSameMillis, Proceeds, Exhausted
    <2>3. CASE sequence < MaxSeq
      <3>1. Issue(c, wall, sequence + 1) /\ wall = lastStamp /\ sequence + 1 \in 0 .. MaxSeq
        BY <2>1, <2>3, SnowflakeAssumption DEF NextSameMillis, SnowflakeAssumption
      <3>2. Id(lastStamp, sequence) < Id(wall, sequence + 1)
        BY <3>1, IdFollowsSequence
      <3>3. Id(lastStamp, sequence) \in Nat /\ Id(wall, sequence + 1) \in Nat
        BY <3>1, IdIsNatural
      <3>4. \A d \in Caller : \A i \in issued[d] : i \in Nat /\ i <= Id(lastStamp, sequence)
        BY <2>2
      <3>5. \A d \in Caller : \A i \in issued[d] : i < Id(wall, sequence + 1)
        BY <3>2, <3>3, <3>4
      <3> QED BY <3>1, <3>5, IssueSteps
    <2>4. CASE ~(sequence < MaxSeq)
      <3>1. Wait(c, lastStamp + 1) /\ sequence' = 0
        BY <2>1, <2>4 DEF NextSameMillis
      <3>2. SnowTypeOK' /\ Exhausted'
        BY <3>1, SnowflakeAssumption DEF Wait, Exhausted, SnowflakeAssumption
      <3> QED BY <3>1, <3>2, QuietSteps DEF Wait
    <2> QED BY <2>3, <2>4
  <1>5. CASE \E c \in Caller : NextNewMillis(c)
    <2>1. PICK c \in Caller : NextNewMillis(c)
      BY <1>5
    <2>2. Issue(c, wall, 0) /\ wall > lastStamp /\ 0 \in 0 .. MaxSeq
      BY <2>1, SnowflakeAssumption DEF NextNewMillis, SnowflakeAssumption
    <2>3. Id(lastStamp, MaxSeq) < Id(wall, 0)
      BY <2>2, IdFollowsTime
    <2>4. Id(lastStamp, MaxSeq) \in Nat /\ Id(wall, 0) \in Nat
      BY <2>2, IdIsNatural, SnowflakeAssumption DEF SnowflakeAssumption
    <2>5. \A d \in Caller : \A i \in issued[d] : i \in Nat /\ i <= Id(lastStamp, MaxSeq)
      OBVIOUS
    <2>6. \A d \in Caller : \A i \in issued[d] : i < Id(wall, 0)
      BY <2>3, <2>4, <2>5
    <2> QED BY <2>2, <2>6, IssueSteps
  <1>6. CASE Tick \/ StepBack
    <2>1. SnowTypeOK' /\ (Exhausted' <=> Exhausted)
      BY <1>6 DEF Tick, StepBack, Exhausted
    <2> QED BY Zenon, <1>6, <2>1, QuietSteps DEF Tick, StepBack
  <1>7. CASE UNCHANGED snowVars
    <2>1. SnowTypeOK' /\ (Exhausted' <=> Exhausted)
      BY <1>7 DEF snowVars, Exhausted
    <2> QED BY <1>7, <2>1, QuietSteps DEF snowVars
  <1> QED BY <1>2, <1>3, <1>4, <1>5, <1>6, <1>7 DEF SnowNext, NextId

\* The invariant that carries the proof holds in every state.
THEOREM SnowInvariant == SnowSpec => []SnowInv
  <1>1. SnowInit => SnowInv
    BY SnowflakeAssumption
       DEF SnowInit, SnowInv, SnowTypeOK, SnowflakeAssumption
  <1>2. SnowInv /\ [SnowNext]_snowVars => SnowInv'
    BY SnowSteps
  <1> QED BY <1>1, <1>2, PTL DEF SnowSpec

\* However the clock is set, and whoever calls, Next returns ids in increasing
\* order, or 0: message ids of one gateway are unique.
THEOREM IdsAreUnique == SnowSpec => IdsIncrease
  <1>1. SnowInv /\ [SnowNext]_snowVars
            => [\A c, d \in Caller : \A new \in issued'[c] \ issued[c] :
                    new = 0 \/ \A old \in issued[d] : new > old]_snowVars
    BY SnowSteps
  <1> QED BY <1>1, SnowInvariant, PTL DEF SnowSpec, IdsIncrease

-----------------------------------------------------------------------------
(* The rate limiter                                                        *)

\* Why RateIsBounded holds: what was let through, and what the bucket could let
\* through right now, were both paid for by the burst and the time passed.
LimiterInv ==
    /\ LimiterTypeOK
    /\ \A u \in Uid : allowed[u] * Token + Credit(u) <= Full + Rate * (mono - since)

\* The capacity of a bucket, in parts, is a positive number of tokens.
LEMMA FullIsNatural == Full \in Nat
  BY LimiterAssumption DEF Full, LimiterAssumption

\* Time earns what the rate says, however it is divided.
LEMMA RateIsLinear ==
    ASSUME NEW a \in Nat, NEW b \in Nat
    PROVE  /\ Rate * (a + b) = Rate * a + Rate * b
           /\ Rate * a \in Nat
           /\ a >= b => Rate * a >= Rate * b
  BY LimiterAssumption DEF LimiterAssumption

\* The refilled bucket holds between nothing and its capacity.
LEMMA CreditIsBounded ==
    ASSUME LimiterTypeOK, NEW u \in Uid
    PROVE  Credit(u) \in 0 .. Full
  <1>1. CASE buckets[u] = NoBucket
    BY <1>1, FullIsNatural DEF Credit
  <1>2. CASE buckets[u] # NoBucket
    <2> DEFINE e == Rate * (mono - buckets[u].lastTime)
    <2>1. buckets[u] \in Bucket /\ buckets[u].lastTime <= mono /\ mono \in Nat
      BY <1>2 DEF LimiterTypeOK
    <2>2. buckets[u].tokens \in 0 .. Full /\ mono - buckets[u].lastTime \in Nat
      BY <2>1 DEF Bucket
    <2>3. e \in Nat
      BY Zenon, <2>2, RateIsLinear
    <2>4. Credit(u) = Least(Full, buckets[u].tokens + e)
      BY <1>2 DEF Credit
    <2> HIDE DEF e
    <2> QED BY <2>2, <2>3, <2>4, FullIsNatural DEF Least
  <1> QED BY <1>1, <1>2

\* The bucket of one user is read, refilled and perhaps charged.
LEMMA SpendSteps ==
    ASSUME LimiterTypeOK, NEW v \in Uid, NEW left \in 0 .. Full, Spend(v, left),
           mono' = mono
    PROVE  /\ buckets' \in [Uid -> Bucket \cup {NoBucket}]
           /\ \A u \in Uid : buckets'[u] # NoBucket => buckets'[u].lastTime <= mono
           /\ Credit(v)' = left
           /\ \A u \in Uid \ {v} : Credit(u)' = Credit(u)
  <1> DEFINE new == [tokens |-> left, lastTime |-> mono]
  <1>1. new \in Bucket /\ new # NoBucket
    BY LimiterAssumption DEF LimiterTypeOK, Bucket, LimiterAssumption
  <1>2. buckets'[v] = new /\ \A u \in Uid \ {v} : buckets'[u] = buckets[u]
    BY DEF Spend, LimiterTypeOK
  <1>3. buckets' \in [Uid -> Bucket \cup {NoBucket}]
    <2> HIDE DEF new
    <2>1. buckets' = [buckets EXCEPT ![v] = new]
      BY DEF Spend, new
    <2> QED BY <1>1, <2>1 DEF LimiterTypeOK
  <1>4. \A u \in Uid : buckets'[u] # NoBucket => buckets'[u].lastTime <= mono
    BY <1>2 DEF LimiterTypeOK
  <1>5. Credit(v)' = left
    <2>1. Credit(v)' = Least(Full, left + Rate * (mono - mono))
      BY <1>1, <1>2 DEF Credit, Full
    <2>2. Rate * (mono - mono) = 0
      BY LimiterAssumption DEF LimiterAssumption, LimiterTypeOK
    <2> QED BY <2>1, <2>2, FullIsNatural DEF Least
  <1>6. \A u \in Uid \ {v} : Credit(u)' = Credit(u)
    BY <1>2 DEF Credit, Full, Least
  <1> QED BY <1>3, <1>4, <1>5, <1>6

\* A request let through takes one token and is counted.
LEMMA AllowSteps ==
    ASSUME LimiterInv, NEW v \in Uid, Allow(v)
    PROVE  LimiterInv'
  <1> USE DEF LimiterInv
  <1>1. Credit(v) \in 0 .. Full /\ Credit(v) >= Token /\ Token \in Nat /\ Full \in Nat
    BY CreditIsBounded, FullIsNatural, LimiterAssumption DEF Allow, LimiterAssumption
  <1>2. Credit(v) - Token \in 0 .. Full
    BY <1>1
  <1>3. Spend(v, Credit(v) - Token) /\ mono' = mono /\ since' = since
        /\ allowed' = [allowed EXCEPT ![v] = @ + 1]
    BY DEF Allow
  <1>4. LimiterTypeOK'
    BY <1>2, <1>3, SpendSteps DEF LimiterTypeOK
  <1>5. Rate * (mono' - since') = Rate * (mono - since) /\ Full' = Full
    BY <1>3 DEF Full
  <1>6. ASSUME NEW u \in Uid
        PROVE  allowed'[u] * Token + Credit(u)' <= Full + Rate * (mono - since)
    <2>1. CASE u = v
      <3>1. allowed'[u] = allowed[u] + 1 /\ allowed[u] \in Nat
        BY <1>3, <2>1 DEF LimiterTypeOK
      <3>2. allowed'[u] * Token = allowed[u] * Token + Token
        BY <1>1, <3>1
      <3>3. Credit(u)' = Credit(u) - Token
        BY <1>2, <1>3, <2>1, SpendSteps
      <3>4. allowed[u] * Token \in Nat /\ Rate * (mono - since) \in Nat
        BY <1>1, <3>1, LimiterAssumption DEF LimiterAssumption, LimiterTypeOK
      <3> QED BY <1>1, <2>1, <3>2, <3>3, <3>4
    <2>2. CASE u # v
      BY <1>2, <1>3, <2>2, SpendSteps DEF LimiterTypeOK
    <2> QED BY <2>1, <2>2
  <1> QED BY <1>4, <1>5, <1>6

\* A request refused keeps the refilled bucket.
LEMMA RejectSteps ==
    ASSUME LimiterInv, NEW v \in Uid, Reject(v)
    PROVE  LimiterInv'
  <1> USE DEF LimiterInv
  <1>1. Credit(v) \in 0 .. Full
    BY CreditIsBounded
  <1>2. Spend(v, Credit(v)) /\ mono' = mono /\ since' = since /\ allowed' = allowed
    BY DEF Reject
  <1>3. LimiterTypeOK'
    BY <1>1, <1>2, SpendSteps DEF LimiterTypeOK
  <1>4. \A u \in Uid : Credit(u)' = Credit(u)
    BY <1>1, <1>2, SpendSteps
  <1> QED BY <1>2, <1>3, <1>4 DEF Full

\* A bucket the cleanup removes was full again, so nobody gains by it.
LEMMA CleanupSteps ==
    ASSUME LimiterInv, Cleanup
    PROVE  LimiterInv'
  <1> USE DEF LimiterInv
  <1>1. mono' = mono /\ since' = since /\ allowed' = allowed
    BY DEF Cleanup
  <1>2. LimiterTypeOK'
    BY DEF Cleanup, LimiterTypeOK
  <1>3. ASSUME NEW u \in Uid
        PROVE  Credit(u)' = Credit(u)
    <2> DEFINE idle == mono - buckets[u].lastTime
    <2>1. CASE buckets[u] # NoBucket /\ idle > Interval
      <3>1. buckets[u] \in Bucket /\ idle \in Nat /\ buckets[u].tokens \in Nat
        BY <2>1 DEF LimiterTypeOK, Bucket
      <3>2. Rate * idle >= Rate * Interval
        <4> HIDE DEF idle
        <4> QED BY <2>1, <3>1, RateIsLinear, LimiterAssumption DEF LimiterAssumption
      <3>3. Rate * idle \in Nat /\ Rate * Interval >= Full /\ Rate * Interval \in Nat
        BY <3>1, RateIsLinear, LimiterAssumption DEF LimiterAssumption
      <3>4. Credit(u) = Least(Full, buckets[u].tokens + Rate * idle)
        BY <2>1 DEF Credit
      <3>5. Credit(u) = Full
        <4> HIDE DEF idle
        <4> QED BY <3>1, <3>2, <3>3, <3>4, FullIsNatural DEF Least
      <3>6. buckets'[u] = NoBucket
        BY <2>1 DEF Cleanup
      <3> QED BY <3>5, <3>6 DEF Credit, Full
    <2>2. CASE ~(buckets[u] # NoBucket /\ idle > Interval)
      <3>1. buckets'[u] = buckets[u]
        BY <2>2 DEF Cleanup
      <3> QED BY <1>1, <3>1 DEF Credit, Full, Least
    <2> QED BY <2>1, <2>2
  <1> QED BY <1>1, <1>2, <1>3 DEF Full

\* A unit of time adds at most Rate to a bucket, and exactly that to the bound.
LEMMA PassSteps ==
    ASSUME LimiterInv, Pass
    PROVE  LimiterInv'
  <1> USE DEF LimiterInv
  <1>1. mono' = mono + 1 /\ since' = since /\ allowed' = allowed /\ buckets' = buckets
    BY DEF Pass
  <1>2. LimiterTypeOK'
    <2>1. \A u \in Uid : buckets[u] # NoBucket => buckets[u].lastTime \in Nat
      BY DEF LimiterTypeOK, Bucket
    <2>2. \A u \in Uid : buckets[u] # NoBucket => buckets[u].lastTime <= mono + 1
      BY <2>1 DEF LimiterTypeOK
    <2> QED BY <1>1, <2>2 DEF LimiterTypeOK
  <1>3. Rate * (mono' - since') = Rate * (mono - since) + Rate /\ Rate \in Nat
        /\ Rate * (mono - since) \in Nat
    BY <1>1, LimiterAssumption DEF LimiterAssumption, LimiterTypeOK
  <1>4. ASSUME NEW u \in Uid
        PROVE  Credit(u)' <= Credit(u) + Rate /\ Credit(u)' \in Nat
    <2>1. CASE buckets[u] = NoBucket
      BY <1>1, <1>3, <2>1, FullIsNatural DEF Credit, Full
    <2>2. CASE buckets[u] # NoBucket
      <3> DEFINE e == Rate * (mono - buckets[u].lastTime)
                 f == Rate * (mono' - buckets[u].lastTime)
      <3>1. buckets[u].tokens \in Nat /\ mono - buckets[u].lastTime \in Nat
            /\ mono' - buckets[u].lastTime = (mono - buckets[u].lastTime) + 1
        BY <1>1, <2>2 DEF LimiterTypeOK, Bucket
      <3>2. e \in Nat /\ f = e + Rate
        BY <3>1, LimiterAssumption DEF LimiterAssumption
      <3>3. Credit(u) = Least(Full, buckets[u].tokens + e)
            /\ Credit(u)' = Least(Full, buckets[u].tokens + f)
        BY <1>1, <2>2 DEF Credit, Full, Least
      <3> HIDE DEF e, f
      <3> QED BY <1>3, <3>1, <3>2, <3>3, FullIsNatural DEF Least
    <2> QED BY <2>1, <2>2
  <1>5. ASSUME NEW u \in Uid
        PROVE  allowed'[u] * Token + Credit(u)' <= Full + Rate * (mono' - since')
    <2>1. allowed[u] * Token \in Nat /\ Credit(u) \in Nat /\ Credit(u)' \in Nat
      BY <1>4, CreditIsBounded, FullIsNatural, LimiterAssumption
         DEF LimiterAssumption, LimiterTypeOK
    <2> QED BY <1>1, <1>3, <1>4, <2>1, FullIsNatural
  <1> QED BY <1>2, <1>5 DEF Full

\* A new measurement starts with nothing let through and a bucket that holds at
\* most the burst.
LEMMA MeasureSteps ==
    ASSUME LimiterInv, Measure
    PROVE  LimiterInv'
  <1> USE DEF LimiterInv
  <1>1. mono' = mono /\ since' = mono /\ buckets' = buckets /\ allowed' = [u \in Uid |-> 0]
    BY DEF Measure
  <1>2. LimiterTypeOK'
    BY <1>1 DEF LimiterTypeOK
  <1>3. ASSUME NEW u \in Uid
        PROVE  allowed'[u] * Token + Credit(u)' <= Full + Rate * (mono' - since')
    <2>1. Credit(u)' = Credit(u) /\ Credit(u) \in 0 .. Full
      BY <1>1, CreditIsBounded DEF Credit, Full, Least
    <2>2. allowed'[u] * Token = 0 /\ Rate * (mono' - since') = 0
      BY <1>1, LimiterAssumption DEF LimiterAssumption, LimiterTypeOK
    <2> QED BY <2>1, <2>2, FullIsNatural
  <1> QED BY <1>2, <1>3 DEF Full

\* The invariant that carries the proof holds in every state.
THEOREM LimiterInvariant == LimiterSpec => []LimiterInv
  <1>1. LimiterInit => LimiterInv
    <2> SUFFICES ASSUME LimiterInit PROVE LimiterInv
      OBVIOUS
    <2>1. LimiterTypeOK
      BY DEF LimiterInit, LimiterTypeOK
    <2>2. \A u \in Uid : allowed[u] * Token = 0 /\ Credit(u) = Full
      <3>1. \A u \in Uid : allowed[u] = 0 /\ buckets[u] = NoBucket
        BY DEF LimiterInit
      <3>2. 0 * Token = 0
        BY LimiterAssumption DEF LimiterAssumption
      <3> QED BY <3>1, <3>2 DEF Credit
    <2>3. Rate * (mono - since) = 0
      BY LimiterAssumption DEF LimiterInit, LimiterAssumption
    <2> QED BY <2>1, <2>2, <2>3, FullIsNatural DEF LimiterInv
  <1>2. LimiterInv /\ [LimiterNext]_limiterVars => LimiterInv'
    <2> SUFFICES ASSUME LimiterInv, [LimiterNext]_limiterVars
                 PROVE  LimiterInv'
      OBVIOUS
    <2>1. CASE UNCHANGED limiterVars
      BY <2>1 DEF limiterVars, LimiterInv, LimiterTypeOK, Credit, Full, Least
    <2> QED BY <2>1, AllowSteps, RejectSteps, CleanupSteps, PassSteps, MeasureSteps
            DEF LimiterNext
  <1> QED BY <1>1, <1>2, PTL DEF LimiterSpec

\* Whatever the rate, the burst and the cleanup interval, and whenever one begins
\* to count, Allow lets no user through more often than burst and rate permit.
THEOREM RateLimitHolds == LimiterSpec => []RateIsBounded
  <1>1. LimiterInv => RateIsBounded
    <2> SUFFICES ASSUME LimiterInv, NEW u \in Uid
                 PROVE  allowed[u] * Token <= Full + Rate * (mono - since)
      BY DEF RateIsBounded
    <2>1. Credit(u) \in 0 .. Full /\ allowed[u] * Token \in Nat /\ Rate * (mono - since) \in Nat
      BY CreditIsBounded, LimiterAssumption DEF LimiterInv, LimiterTypeOK, LimiterAssumption
    <2> QED BY <2>1, FullIsNatural DEF LimiterInv
  <1> QED BY <1>1, LimiterInvariant, PTL

-----------------------------------------------------------------------------
(* Accounts                                                                *)

\* A change under way was checked by the owner of the row it will meet, unless
\* that row has been deleted since.
ChangeIsOwners ==
    \A p \in Person :
        change[p] # NoChange =>
            /\ change[p].new[1] = p
            /\ change[p].uid \notin overtaken =>
                Exists(change[p].uid) /\ users[change[p].uid].owner = p

AccountsInv == AccountsTypeOK /\ PasswordIsOwners /\ ChangeIsOwners

\* Registration adds a row with the password of the person who registers.
LEMMA RegisterSteps ==
    ASSUME AccountsInv, NEW p \in Person, NEW u \in Account, NEW now \in Nat,
           HandleRegister(p, u, now)
    PROVE  AccountsInv'
<1> USE DEF AccountsInv, HandleRegister, NewRow, Exists
<1>1. NewRow(p, now) \in Row /\ NewRow(p, now) # NoRow
    BY AccountsAssumption DEF Row, Role, Password
<1>2. AccountsTypeOK'
  <2>1. users' \in [Account -> Row \cup {NoRow}]
      BY <1>1 DEF AccountsTypeOK
  <2>2. token' \in [Person -> Claims \cup {NoToken}]
      BY DEF AccountsTypeOK, Grant, EffectiveRole, Claims, Role
  <2> QED  BY <2>1, <2>2 DEF AccountsTypeOK
<1>3. PasswordIsOwners'
    BY Zenon DEF PasswordIsOwners, AccountsTypeOK
<1>4. ChangeIsOwners'
    BY DEF ChangeIsOwners, AccountsTypeOK
<1> QED  BY <1>2, <1>3, <1>4

\* A login changes a token only.
LEMMA LoginSteps ==
    ASSUME AccountsInv, NEW p \in Person, NEW u \in Account, NEW dev \in BOOLEAN,
           HandleLogin(p, u, dev) \/ HandleLoginDev(p, u, dev)
    PROVE  AccountsInv'
<1>1. UNCHANGED <<users, change, overtaken>>
    BY Zenon DEF HandleLogin, HandleLoginDev
<1>2. token' \in [Person -> Claims \cup {NoToken}]
  <2>1. CASE HandleLogin(p, u, dev)
    <3>1. users[u].role \in Role
        BY <2>1 DEF HandleLogin, Exists, AccountsInv, AccountsTypeOK, Row
    <3> QED  BY <2>1, <3>1 DEF HandleLogin, EffectiveRole, Asked, Claims, Role,
                               AccountsInv, AccountsTypeOK
  <2>2. CASE HandleLoginDev(p, u, dev)
      BY <2>2 DEF HandleLoginDev, EffectiveRole, Asked, Claims, Role, AccountsInv, AccountsTypeOK
  <2> QED  BY <2>1, <2>2
<1> QED  BY <1>1, <1>2 DEF AccountsInv, AccountsTypeOK, PasswordIsOwners, ChangeIsOwners, Exists

\* So does the end of a token.
LEMMA ExpireSteps ==
    ASSUME AccountsInv, NEW p \in Person, TokenExpires(p)
    PROVE  AccountsInv'
BY DEF TokenExpires, AccountsInv, AccountsTypeOK, PasswordIsOwners, ChangeIsOwners, Exists

\* The comparison with the current password makes a change its owner's.
LEMMA CheckSteps ==
    ASSUME AccountsInv, NEW p \in Person, NEW new \in {1, 2}, ChangeCheck(p, new)
    PROVE  AccountsInv'
<1> DEFINE u == token[p].uid
<1>1. u \in Account /\ Exists(u) /\ users[u].password[1] = p
    BY DEF ChangeCheck, AccountsInv, AccountsTypeOK, Claims
<1>2. u \notin overtaken => users[u].owner = p
    BY <1>1 DEF AccountsInv, PasswordIsOwners
<1>3. AccountsTypeOK'
    BY <1>1 DEF ChangeCheck, AccountsInv, AccountsTypeOK, Change, Password
<1>4. PasswordIsOwners'
    BY DEF ChangeCheck, AccountsInv, PasswordIsOwners, Exists
<1>5. ChangeIsOwners'
  <2> SUFFICES ASSUME NEW q \in Person, change'[q] # NoChange
               PROVE  /\ change'[q].new[1] = q
                      /\ change'[q].uid \notin overtaken' =>
                           users'[change'[q].uid] # NoRow /\ users'[change'[q].uid].owner = q
      BY DEF ChangeIsOwners, Exists
  <2>1. CASE q = p
      BY <1>1, <1>2, <2>1 DEF ChangeCheck, AccountsInv, AccountsTypeOK, Exists
  <2>2. CASE q # p
      BY <2>2 DEF ChangeCheck, AccountsInv, AccountsTypeOK, ChangeIsOwners, Exists
  <2> QED  BY <2>1, <2>2
<1> QED  BY Zenon, <1>3, <1>4, <1>5 DEF AccountsInv

\* The row that UpdatePassword meets is the one that was compared, or its UID
\* is overtaken.
LEMMA UpdateSteps ==
    ASSUME AccountsInv, NEW p \in Person, ChangeUpdate(p)
    PROVE  AccountsInv'
<1> DEFINE u == change[p].uid
<1>1. /\ change[p] # NoChange
      /\ u \in Account
      /\ change[p].new \in Password
      /\ change[p].new[1] = p
      /\ u \notin overtaken => users[u].owner = p
    BY DEF ChangeUpdate, AccountsInv, AccountsTypeOK, ChangeIsOwners, Change
<1>2. change' \in [Person -> Change \cup {NoChange}] /\ change'[p] = NoChange
    BY DEF ChangeUpdate, AccountsInv, AccountsTypeOK
<1>3. \A q \in Person \ {p} : change'[q] = change[q]
    BY DEF ChangeUpdate, AccountsInv, AccountsTypeOK
<1>4. CASE Exists(u) /\ users' = [users EXCEPT ![u].password = change[p].new]
  <2>1. users[u] \in Row
      BY <1>1, <1>4 DEF Exists, AccountsInv, AccountsTypeOK
  <2>2. users'[u] \in Row /\ users'[u] # NoRow
      BY <1>1, <1>4, <2>1, AccountsAssumption DEF AccountsInv, AccountsTypeOK, Row
  <2>3. users'[u].password = change[p].new /\ users'[u].owner = users[u].owner
      BY <1>1, <1>4, <2>1 DEF AccountsInv, AccountsTypeOK, Row
  <2>4. \A v \in Account \ {u} : users'[v] = users[v]
      BY <1>4 DEF AccountsInv, AccountsTypeOK
  <2>5. AccountsTypeOK'
      BY <1>1, <1>2, <1>4, <2>2 DEF ChangeUpdate, AccountsInv, AccountsTypeOK
  <2>6. PasswordIsOwners'
      BY <1>1, <2>3, <2>4 DEF ChangeUpdate, AccountsInv, PasswordIsOwners, Exists
  <2>7. ChangeIsOwners'
      BY <1>2, <1>3, <2>2, <2>3, <2>4 DEF ChangeUpdate, AccountsInv, AccountsTypeOK,
                                        ChangeIsOwners, Change, Exists
  <2> QED  BY <2>5, <2>6, <2>7 DEF AccountsInv
<1>5. CASE UNCHANGED users
    BY <1>2, <1>3, <1>5 DEF ChangeUpdate, AccountsInv, AccountsTypeOK, PasswordIsOwners,
                          ChangeIsOwners, Exists
<1> QED  BY <1>4, <1>5 DEF ChangeUpdate

\* A deletion marks the UID when a change of it is under way.
LEMMA DeleteSteps ==
    ASSUME AccountsInv, NEW p \in Person, NEW target \in Account,
           HandleAdminUserDelete(p, target)
    PROVE  AccountsInv'
<1> USE DEF AccountsInv, HandleAdminUserDelete
<1>1. AccountsTypeOK'
    BY DEF AccountsTypeOK
<1>2. PasswordIsOwners'
    BY Zenon DEF AccountsTypeOK, PasswordIsOwners, Exists
<1>3. ChangeIsOwners'
  <2> SUFFICES ASSUME NEW q \in Person, change[q] # NoChange
               PROVE  /\ change[q].new[1] = q
                      /\ change[q].uid \notin overtaken' =>
                           users'[change[q].uid] # NoRow /\ users'[change[q].uid].owner = q
      BY DEF ChangeIsOwners, Exists
  <2>1. change[q].uid \in Account
      BY Zenon DEF AccountsTypeOK, Change
  <2>2. CASE change[q].uid = target
      BY Zenon, <2>2 DEF ChangeIsOwners
  <2>3. CASE change[q].uid # target
      BY <2>1, <2>3 DEF AccountsTypeOK, ChangeIsOwners, Exists
  <2> QED  BY Zenon, <2>2, <2>3
<1> QED  BY <1>1, <1>2, <1>3

\* The start of a gateway changes a role.
LEMMA PromoteSteps ==
    ASSUME AccountsInv, NEW u \in Account, Promote(u)
    PROVE  AccountsInv'
<1>1. users[u] \in Row
    BY DEF Promote, Exists, AccountsInv, AccountsTypeOK
<1>2. users'[u] \in Row /\ users'[u] # NoRow
    BY <1>1, AccountsAssumption DEF Promote, AccountsInv, AccountsTypeOK, Row, Role
<1>3. users'[u].password = users[u].password /\ users'[u].owner = users[u].owner
    BY <1>1 DEF Promote, AccountsInv, AccountsTypeOK, Row
<1>4. \A v \in Account \ {u} : users'[v] = users[v]
    BY DEF Promote, AccountsInv, AccountsTypeOK
<1>5. AccountsTypeOK'
    BY <1>2 DEF Promote, AccountsInv, AccountsTypeOK
<1>6. PasswordIsOwners'
    BY <1>3, <1>4 DEF Promote, AccountsInv, PasswordIsOwners, Exists
<1>7. ChangeIsOwners'
    BY <1>2, <1>3, <1>4 DEF Promote, AccountsInv, AccountsTypeOK, ChangeIsOwners, Change, Exists
<1> QED  BY <1>5, <1>6, <1>7 DEF AccountsInv

\* The invariant of the users table and of the requests under way.
THEOREM AccountsInvariant == AccountsSpec => []AccountsInv
<1>1. AccountsInit => AccountsInv
    BY DEF AccountsInit, AccountsInv, AccountsTypeOK, PasswordIsOwners, ChangeIsOwners, Exists
<1>2. AccountsInv /\ [AccountsNext]_accountVars => AccountsInv'
  <2> SUFFICES ASSUME AccountsInv, [AccountsNext]_accountVars PROVE AccountsInv'
      OBVIOUS
  <2>1. CASE AccountsNext
    <3>1. ASSUME NEW p \in Person, NEW u \in Account, NEW now \in Nat, HandleRegister(p, u, now)
          PROVE  AccountsInv'
        BY <3>1, RegisterSteps
    <3>2. ASSUME NEW p \in Person, NEW u \in Account, NEW dev \in BOOLEAN,
                 HandleLogin(p, u, dev) \/ HandleLoginDev(p, u, dev)
          PROVE  AccountsInv'
        BY <3>2, LoginSteps
    <3>3. ASSUME NEW p \in Person, NEW u \in Account, HandleAdminUserDelete(p, u)
          PROVE  AccountsInv'
        BY <3>3, DeleteSteps
    <3>4. ASSUME NEW p \in Person, NEW new \in {1, 2}, ChangeCheck(p, new)
          PROVE  AccountsInv'
        BY <3>4, CheckSteps
    <3>5. ASSUME NEW p \in Person, ChangeUpdate(p) \/ TokenExpires(p)
          PROVE  AccountsInv'
        BY <3>5, UpdateSteps, ExpireSteps
    <3>6. ASSUME NEW u \in Account, Promote(u) PROVE AccountsInv'
        BY Zenon, <3>6, PromoteSteps
    <3> QED  BY <2>1, <3>1, <3>2, <3>3, <3>4, <3>5, <3>6 DEF AccountsNext
  <2>2. CASE UNCHANGED accountVars
      BY <2>2 DEF accountVars, AccountsInv, AccountsTypeOK, PasswordIsOwners, ChangeIsOwners, Exists
  <2> QED  BY <2>1, <2>2
<1> QED  BY <1>1, <1>2, PTL DEF AccountsSpec

\* The password of an account was chosen by the person who registered it, unless
\* the account was deleted while a change of its password was under way.
THEOREM PasswordsHold == AccountsSpec => []PasswordIsOwners
<1>1. AccountsInv => PasswordIsOwners
    BY DEF AccountsInv
<1> QED  BY <1>1, AccountsInvariant, PTL

-----------------------------------------------------------------------------
(* The composition                                                         *)

\* A page that is read changes neither ids nor accounts.
LEMMA ReadSteps ==
    ASSUME NEW p, Read(p)
    PROVE  UNCHANGED <<snowVars, accountVars>>
<1>1. ASSUME NEW mode, NEW page, HandleHistory(p, mode, page)
      PROVE  Unwritten
    BY <1>1 DEF HandleHistory
<1>2. ASSUME NEW page, HandleAdminMessages(p, page)
      PROVE  Unwritten
    BY <1>2 DEF HandleAdminMessages
<1>3. ASSUME NEW page, NEW last, HandleSearchWs(p, page, last)
      PROVE  Unwritten
    BY <1>3 DEF HandleSearchWs
<1>4. ASSUME NEW page, NEW last, HandleSearch(p, page, last)
      PROVE  Unwritten
    BY <1>4 DEF HandleSearch
<1>5. ASSUME NEW skipped, NEW page, HandleAdminUsers(p, skipped, page)
      PROVE  Unwritten
    BY <1>5 DEF HandleAdminUsers
<1>6. Unwritten
    BY <1>1, <1>2, <1>3, <1>4, <1>5 DEF Read
<1> QED  BY <1>6 DEF Unwritten

\* Every step is one of the generator's or leaves it alone.
LEMMA SnowStep == Next => [SnowNext]_snowVars
<1> SUFFICES ASSUME Next PROVE SnowNext \/ UNCHANGED snowVars
    OBVIOUS
<1>1. CASE Post
  <2>1. PICK m \in Message : Admit(m) \/ TakeId(m) \/ Stamp(m) \/ Save(m)
      BY <1>1 DEF Post
  <2>2. CASE TakeId(m)
      BY <2>2 DEF TakeId, SnowNext, Message
  <2>3. CASE Admit(m) \/ Stamp(m) \/ Save(m)
      BY <2>3 DEF Admit, Stamp, Save
  <2> QED  BY <2>1, <2>2, <2>3
<1>2. ASSUME NEW p \in Person, Read(p) PROVE UNCHANGED snowVars
    BY <1>2, ReadSteps
<1>3. ASSUME NEW p \in Person, NEW mode \in Mode, NEW asked \in AskedLimits, Open(p, mode, asked)
      PROVE  UNCHANGED snowVars
    BY <1>3 DEF Open
<1>4. ASSUME NEW p \in Person, NEW m \in Message, HandleAdminMessageDelete(p, m)
      PROVE  UNCHANGED snowVars
    BY <1>4 DEF HandleAdminMessageDelete
<1>5. ASSUME NEW p \in Person, AccountRequest(p) PROVE UNCHANGED snowVars
    BY <1>5 DEF AccountRequest
<1>6. ASSUME NEW p \in Person, FinishChange(p) PROVE UNCHANGED snowVars
    BY <1>6 DEF FinishChange
<1>7. ASSUME NEW p \in Person, NEW target \in Account, DeleteUser(p, target)
      PROVE  UNCHANGED snowVars
    BY <1>7 DEF DeleteUser
<1>8. CASE Start
    BY <1>8 DEF Start
<1>9. CASE Environment
    BY <1>9 DEF Environment, Elapse, SetBack, Forget, SnowNext
<1> QED  BY <1>1, <1>2, <1>3, <1>4, <1>5, <1>6, <1>7, <1>8, <1>9 DEF Next

\* Every step is one of the accounts' or leaves them alone.
LEMMA AccountStep == SnowTypeOK /\ Next => [AccountsNext]_accountVars
<1> SUFFICES ASSUME SnowTypeOK, Next PROVE AccountsNext \/ UNCHANGED accountVars
    OBVIOUS
<1>1. CASE Post
    BY <1>1 DEF Post
<1>2. ASSUME NEW p \in Person, Read(p) PROVE UNCHANGED accountVars
    BY <1>2, ReadSteps
<1>3. ASSUME NEW p \in Person, NEW mode \in Mode, NEW asked \in AskedLimits, Open(p, mode, asked)
      PROVE  UNCHANGED accountVars
    BY <1>3 DEF Open
<1>4. ASSUME NEW p \in Person, NEW m \in Message, HandleAdminMessageDelete(p, m)
      PROVE  UNCHANGED accountVars
    BY <1>4 DEF HandleAdminMessageDelete
<1>5. ASSUME NEW p \in Person, AccountRequest(p) PROVE AccountsNext
  <2>1. CASE \E u \in Account, late \in 0 .. MaxLate :
               late <= wall /\ HandleRegister(p, u, wall - late)
    <3>1. PICK u \in Account, late \in 0 .. MaxLate :
               late <= wall /\ HandleRegister(p, u, wall - late)
        BY <2>1
    <3>2. wall - late \in Nat
        BY <3>1 DEF SnowTypeOK
    <3> QED  BY <3>1, <3>2 DEF AccountsNext
  <2>2. CASE \E new \in {1, 2} : ChangeCheck(p, new)
      BY <2>2 DEF AccountsNext
  <2>3. CASE TokenExpires(p)
      BY <2>3 DEF AccountsNext
  <2>4. CASE \E u \in Account, dev \in BOOLEAN : HandleLogin(p, u, dev) \/ HandleLoginDev(p, u, dev)
      BY <2>4 DEF AccountsNext
  <2> QED  BY <1>5, <2>1, <2>2, <2>3, <2>4 DEF AccountRequest
<1>6. ASSUME NEW p \in Person, FinishChange(p) PROVE AccountsNext
    BY <1>6 DEF FinishChange, AccountsNext
<1>7. ASSUME NEW p \in Person, NEW target \in Account, DeleteUser(p, target)
      PROVE  AccountsNext
    BY <1>7 DEF DeleteUser, AccountsNext
<1>8. CASE Start
    BY <1>8 DEF Start, AccountsNext
<1>9. CASE Environment
    BY <1>9 DEF Environment
<1> QED  BY <1>1, <1>2, <1>3, <1>4, <1>5, <1>6, <1>7, <1>8, <1>9 DEF Next

\* Every step is one of the limiter's or leaves it alone.
LEMMA LimiterStep == AccountsTypeOK /\ Next => [LimiterNext]_limiterVars
<1> SUFFICES ASSUME AccountsTypeOK, Next PROVE LimiterNext \/ UNCHANGED limiterVars
    OBVIOUS
<1>1. CASE Post
  <2>1. PICK m \in Message : Admit(m) \/ TakeId(m) \/ Stamp(m) \/ Save(m)
      BY <1>1 DEF Post
  <2>2. CASE Admit(m)
    <3>1. From[m] \in Uid
        BY Zenon, ArchiveAssumption DEF ArchiveAssumption
    <3> QED  BY <2>2, <3>1 DEF Admit, LimiterNext
  <2>3. CASE TakeId(m) \/ Stamp(m) \/ Save(m)
      BY <2>3 DEF TakeId, Stamp, Save
  <2> QED  BY <2>1, <2>2, <2>3
<1>2. ASSUME NEW p \in Person, Read(p) PROVE LimiterNext \/ UNCHANGED limiterVars
  <2>1. ASSUME NEW mode, NEW page, HandleHistory(p, mode, page)
        PROVE  UNCHANGED limiterVars
      BY <2>1 DEF HandleHistory
  <2>2. ASSUME NEW page, HandleAdminMessages(p, page)
        PROVE  UNCHANGED limiterVars
      BY <2>2 DEF HandleAdminMessages
  <2>3. ASSUME NEW page, NEW last, HandleSearchWs(p, page, last)
        PROVE  UNCHANGED limiterVars
      BY <2>3 DEF HandleSearchWs
  <2>4. ASSUME NEW page, NEW last, HandleSearch(p, page, last)
        PROVE  LimiterNext
    <3>1. token[p] \in Claims
        BY <2>4 DEF HandleSearch, Authorised, AccountsTypeOK
    <3>2. token[p].uid \in Uid
        BY <3>1, ArchiveAssumption DEF ArchiveAssumption, Claims
    <3>3. Allow(token[p].uid) \/ Reject(token[p].uid)
        BY <2>4 DEF HandleSearch
    <3> QED  BY <3>2, <3>3 DEF LimiterNext
  <2>5. ASSUME NEW skipped, NEW page, HandleAdminUsers(p, skipped, page)
        PROVE  UNCHANGED limiterVars
      BY <2>5 DEF HandleAdminUsers
  <2> QED  BY <1>2, <2>1, <2>2, <2>3, <2>4, <2>5 DEF Read
<1>3. ASSUME NEW p \in Person, NEW mode \in Mode, NEW asked \in AskedLimits, Open(p, mode, asked)
      PROVE  UNCHANGED limiterVars
    BY <1>3 DEF Open
<1>4. ASSUME NEW p \in Person, NEW m \in Message, HandleAdminMessageDelete(p, m)
      PROVE  UNCHANGED limiterVars
    BY <1>4 DEF HandleAdminMessageDelete
<1>5. ASSUME NEW p \in Person, AccountRequest(p) PROVE UNCHANGED limiterVars
    BY <1>5 DEF AccountRequest
<1>6. ASSUME NEW p \in Person, FinishChange(p) PROVE UNCHANGED limiterVars
    BY <1>6 DEF FinishChange
<1>7. ASSUME NEW p \in Person, NEW target \in Account, DeleteUser(p, target)
      PROVE  UNCHANGED limiterVars
    BY <1>7 DEF DeleteUser
<1>8. CASE Start
    BY <1>8 DEF Start
<1>9. CASE Environment
    BY <1>9 DEF Environment, Elapse, SetBack, Forget, LimiterNext
<1> QED  BY <1>1, <1>2, <1>3, <1>4, <1>5, <1>6, <1>7, <1>8, <1>9 DEF Next

\* The composition is a generator of ids.
LEMMA ImplementsSnow == Spec => SnowSpec
<1>1. [Next]_vars => [SnowNext]_snowVars
  <2>1. UNCHANGED vars => UNCHANGED snowVars
      BY DEF vars
  <2> QED  BY <2>1, SnowStep
<1>2. Init => SnowInit
    BY DEF Init, TimelineInit
<1> QED  BY <1>1, <1>2, PTL DEF Spec, SnowSpec

\* The composition is a table of accounts.
LEMMA ImplementsAccounts == Spec => AccountsSpec
<1>1. Spec => []SnowTypeOK
  <2>1. SnowInv => SnowTypeOK
      BY DEF SnowInv
  <2> QED  BY <2>1, ImplementsSnow, SnowInvariant, PTL
<1>2. SnowTypeOK /\ [Next]_vars => [AccountsNext]_accountVars
  <2>1. UNCHANGED vars => UNCHANGED accountVars
      BY DEF vars
  <2> QED  BY <2>1, AccountStep
<1>3. Init => AccountsInit
    BY DEF Init
<1> QED  BY <1>1, <1>2, <1>3, PTL DEF Spec, AccountsSpec

\* The variables of both keep their types.
LEMMA CompositionTypes == Spec => []SnowInv /\ []SnowTypeOK /\ []AccountsTypeOK
<1>1. SnowInv => SnowTypeOK
    BY DEF SnowInv
<1>2. AccountsInv => AccountsTypeOK
    BY DEF AccountsInv
<1> QED  BY <1>1, <1>2, ImplementsSnow, ImplementsAccounts, SnowInvariant, AccountsInvariant, PTL

\* Whatever is written, read and deleted at the same time, the ids of messages
\* increase, passwords stay their owners' and nobody exceeds the rate: the three
\* components are implemented with the variables they share.
THEOREM ComponentsHold == Spec => IdsIncrease /\ []PasswordIsOwners /\ []RateIsBounded
<1>1. Spec => LimiterSpec
  <2>1. AccountsTypeOK /\ [Next]_vars => [LimiterNext]_limiterVars
    <3>1. UNCHANGED vars => UNCHANGED limiterVars
        BY DEF vars
    <3> QED  BY <3>1, LimiterStep
  <2>2. Init => LimiterInit
      BY DEF Init, TimelineInit
  <2> QED  BY <2>1, <2>2, CompositionTypes, PTL DEF Spec, LimiterSpec
<1> QED  BY <1>1, ImplementsSnow, ImplementsAccounts, IdsAreUnique, PasswordsHold,
            RateLimitHolds, PTL

\* Why SavedIsKept holds: a message takes one id, no two messages have the same
\* one other than 0, and a row belongs to a message that was saved.
KeptInv ==
    /\ step \in [Message -> {"limit", "dropped", "id", "stamp", "save", "saved"}]
    /\ \A m \in Message : step[m] \in {"limit", "dropped", "id"} => issued[m] = {}
    /\ \A m \in Message : step[m] \in {"stamp", "save", "saved"} => \E i : issued[m] = {i}
    /\ \A m, n \in Message : m # n => issued[m] \cap issued[n] \subseteq {0}
    /\ \A m \in rows : m \in Message /\ step[m] = "saved"
    /\ SavedIsKept

\* The id of a message is the one it was given.
LEMMA MsgIdIsIssued ==
    ASSUME NEW m, NEW i, issued[m] = {i}
    PROVE  MsgId(m) = i
BY DEF MsgId

\* It stays when nothing is issued.
LEMMA MsgIdStays ==
    ASSUME issued' = issued
    PROVE  \A m \in Message : MsgId(m)' = MsgId(m)
BY DEF MsgId

\* A step that issues no id, inserts no row and moves no handler to "saved".
LEMMA QuietKeeps ==
    ASSUME KeptInv, issued' = issued,
           rows' \subseteq rows, rows \cup removed \subseteq rows' \cup removed',
           step' \in [Message -> {"limit", "dropped", "id", "stamp", "save", "saved"}],
           \A m \in Message :
               \/ step'[m] = step[m]
               \/ step[m] = "limit" /\ step'[m] \in {"id", "dropped"}
               \/ step[m] = "stamp" /\ step'[m] = "save"
    PROVE  KeptInv'
<1>1. \A m \in Message : step'[m] \in {"limit", "dropped", "id"} => issued'[m] = {}
    BY DEF KeptInv
<1>2. \A m \in Message : step'[m] \in {"stamp", "save", "saved"} => \E i : issued'[m] = {i}
    BY Zenon DEF KeptInv
<1>3. \A m, n \in Message : m # n => issued'[m] \cap issued'[n] \subseteq {0}
    BY Zenon DEF KeptInv
<1>4. \A m \in rows' : m \in Message /\ step'[m] = "saved"
    BY Zenon DEF KeptInv
<1>5. SavedIsKept'
    BY MsgIdStays DEF KeptInv, SavedIsKept, Message
<1> QED  BY Zenon, <1>1, <1>2, <1>3, <1>4, <1>5 DEF KeptInv, Message

\* Next gives its caller at most one id.
LEMMA NextGivesOne ==
    ASSUME NEW m \in Caller, NextId(m)
    PROVE  issued' = issued \/ \E i : issued' = [issued EXCEPT ![m] = @ \cup {i}]
<1>1. CASE NextFails(m)
    BY Zenon, <1>1 DEF NextFails
<1>2. CASE NextWaits(m)
    BY <1>2 DEF NextWaits, Wait
<1>3. CASE NextSameMillis(m)
  <2>1. CASE sequence < MaxSeq
      BY Zenon, <1>3, <2>1 DEF NextSameMillis, Issue
  <2>2. CASE ~(sequence < MaxSeq)
      BY <1>3, <2>2 DEF NextSameMillis, Wait
  <2> QED  BY Zenon, <2>1, <2>2
<1>4. CASE NextNewMillis(m)
    BY Zenon, <1>4 DEF NextNewMillis, Issue
<1> QED  BY Zenon, <1>1, <1>2, <1>3, <1>4 DEF NextId

\* The id that TakeId stores is another one than any message has, or 0.
LEMMA TakeIdKeeps ==
    ASSUME SnowInv, KeptInv, NEW m \in Message, TakeId(m), removed' = removed
    PROVE  KeptInv'
<1>1. m \in Caller /\ NextId(m) /\ issued[m] = {} /\ step[m] = "id"
    BY Zenon DEF TakeId, Message, KeptInv
<1>2. rows' = rows /\ step' = [step EXCEPT ![m] = IF issued'[m] = {} THEN "id" ELSE "stamp"]
    BY DEF TakeId, Goes
<1>3. issued \in [Message -> SUBSET Nat]
    BY DEF SnowInv, SnowTypeOK, Message
<1>4. CASE issued' = issued
  <2>1. step' = step
      BY <1>1, <1>2, <1>4 DEF KeptInv
  <2> QED  BY Zenon, <1>2, <1>4, <2>1, QuietKeeps DEF KeptInv
<1>5. CASE \E i : issued' = [issued EXCEPT ![m] = @ \cup {i}]
  <2>1. PICK i : issued' = [issued EXCEPT ![m] = @ \cup {i}]
      BY Zenon, <1>5
  <2>2. issued'[m] = {i} /\ \A n \in Message \ {m} : issued'[n] = issued[n]
      BY <1>1, <1>3, <2>1
  <2>3. i = 0 \/ \A n \in Message : i \notin issued[n]
    <3>1. [SnowNext]_snowVars
        BY <1>1 DEF SnowNext
    <3>2. i = 0 \/ \A n \in Caller : \A old \in issued[n] : i > old
        BY Zenon, <1>1, <2>2, <3>1, SnowSteps
    <3> QED  BY <1>3, <3>2 DEF Message
  <2>4. step' = [step EXCEPT ![m] = "stamp"]
      BY Zenon, <1>2, <2>2
  <2>5. /\ step' \in [Message -> {"limit", "dropped", "id", "stamp", "save", "saved"}]
        /\ step'[m] = "stamp"
        /\ \A n \in Message \ {m} : step'[n] = step[n]
      BY <2>4 DEF KeptInv
  <2>6. \A a, b \in Message : a # b => issued'[a] \cap issued'[b] \subseteq {0}
      BY <2>2, <2>3 DEF KeptInv
  <2>7. SavedIsKept'
    <3> SUFFICES ASSUME NEW n \in Message, step'[n] = "saved"
                 PROVE  n \in rows' \cup removed' \/ MsgId(n)' = 0
        BY Zenon DEF SavedIsKept
    <3>1. n # m /\ step[n] = "saved" /\ issued'[n] = issued[n]
        BY <2>2, <2>5
    <3> QED  BY <1>2, <3>1 DEF KeptInv, SavedIsKept, MsgId
  <2>8. \A n \in rows' : n \in Message /\ step'[n] = "saved"
      BY Zenon, <1>1, <1>2, <2>5 DEF KeptInv
  <2>9. \A n \in Message : step'[n] \in {"limit", "dropped", "id"} => issued'[n] = {}
      BY Zenon, <2>2, <2>5 DEF KeptInv
  <2>10. ASSUME NEW n \in Message, step'[n] \in {"stamp", "save", "saved"}
         PROVE  \E j : issued'[n] = {j}
    <3>1. CASE n = m
        BY <2>2, <3>1
    <3>2. CASE n # m
      <4>1. step[n] \in {"stamp", "save", "saved"} /\ issued'[n] = issued[n]
          BY <2>2, <2>5, <2>10, <3>2
      <4>2. PICK j : issued[n] = {j}
          BY Zenon, <4>1 DEF KeptInv
      <4> QED  BY Zenon, <4>1, <4>2
    <3> QED  BY Zenon, <3>1, <3>2
  <2> QED  BY Zenon, <2>5, <2>6, <2>7, <2>8, <2>9, <2>10 DEF KeptInv, Message
<1> QED  BY Zenon, <1>1, <1>4, <1>5, NextGivesOne

\* INSERT IGNORE leaves the message out only when its id is 0.
LEMMA SaveKeeps ==
    ASSUME KeptInv, NEW m \in Message, Save(m), removed' = removed
    PROVE  KeptInv'
<1>1. step[m] = "save" /\ step' = [step EXCEPT ![m] = "saved"] /\ issued' = issued
    BY DEF Save, Goes, snowVars
<1>2. /\ step' \in [Message -> {"limit", "dropped", "id", "stamp", "save", "saved"}]
      /\ step'[m] = "saved"
      /\ \A n \in Message \ {m} : step'[n] = step[n]
    BY <1>1 DEF KeptInv
<1>3. rows \subseteq rows' /\ rows' \subseteq rows \cup {m}
    BY DEF Save
<1>4. m \in rows' \/ MsgId(m) = 0
  <2> SUFFICES ASSUME m \notin rows' PROVE MsgId(m) = 0
      OBVIOUS
  <2>1. PICK r \in rows : MsgId(r) = MsgId(m)
      BY DEF Save
  <2>2. r \in Message /\ r # m /\ step[r] = "saved"
      BY <1>1 DEF KeptInv
  <2>3. PICK i : issued[m] = {i}
      BY Zenon, <1>1 DEF KeptInv
  <2>4. PICK j : issued[r] = {j}
      BY <2>2 DEF KeptInv
  <2>5. i = j
      BY Zenon, <2>1, <2>3, <2>4, MsgIdIsIssued
  <2>6. i = 0
      BY Zenon, <2>2, <2>3, <2>4, <2>5 DEF KeptInv
  <2> QED  BY Zenon, <2>3, <2>6, MsgIdIsIssued
<1>5. SavedIsKept'
    BY <1>1, <1>2, <1>3, <1>4 DEF KeptInv, SavedIsKept, MsgId
<1> QED  BY Zenon, <1>1, <1>2, <1>3, <1>5 DEF KeptInv

\* Every step of the composition preserves the invariant.
LEMMA KeptSteps ==
    ASSUME SnowInv, KeptInv, Next PROVE KeptInv'
<1> DEFINE Quiet == UNCHANGED <<issued, step, rows, removed>>
<1>1. ASSUME Quiet PROVE KeptInv'
    BY Zenon, <1>1, QuietKeeps DEF KeptInv
<1>2. CASE Post
  <2>1. PICK m \in Message : Admit(m) \/ TakeId(m) \/ Stamp(m) \/ Save(m)
      BY <1>2 DEF Post
  <2>2. removed' = removed
      BY <1>2 DEF Post
  <2>3. CASE Admit(m)
    <3>1. /\ step[m] = "limit"
          /\ step' \in {[step EXCEPT ![m] = "id"], [step EXCEPT ![m] = "dropped"]}
          /\ UNCHANGED <<issued, rows>>
        BY <2>3 DEF Admit, Goes, snowVars
    <3> QED  BY Zenon, <2>2, <3>1, QuietKeeps DEF KeptInv
  <2>4. CASE Stamp(m)
    <3>1. step[m] = "stamp" /\ step' = [step EXCEPT ![m] = "save"] /\ UNCHANGED <<issued, rows>>
        BY <2>4 DEF Stamp, Goes, snowVars
    <3> QED  BY Zenon, <2>2, <3>1, QuietKeeps DEF KeptInv
  <2> QED  BY <2>1, <2>2, <2>3, <2>4, TakeIdKeeps, SaveKeeps
<1>3. ASSUME NEW p \in Person, Read(p) PROVE Quiet
  <2>1. ASSUME Unwritten PROVE Quiet
      BY Zenon, <2>1 DEF Unwritten, snowVars, timelineVars
  <2> QED  BY Zenon, <1>3, <2>1 DEF Read, HandleHistory, HandleAdminMessages, HandleSearchWs,
                             HandleSearch, HandleAdminUsers
<1>4. ASSUME NEW p \in Person, NEW mode \in Mode, NEW asked \in AskedLimits, Open(p, mode, asked)
      PROVE  Quiet
    BY <1>4 DEF Open, snowVars, timelineVars
<1>5. ASSUME NEW p \in Person, NEW m \in Message, HandleAdminMessageDelete(p, m)
      PROVE  KeptInv'
  <2>1. rows' = rows \ {m} /\ removed' = removed \cup {m} /\ UNCHANGED <<issued, step>>
      BY <1>5 DEF HandleAdminMessageDelete, snowVars
  <2> QED  BY Zenon, <2>1, QuietKeeps DEF KeptInv
<1>6. ASSUME NEW p \in Person, AccountRequest(p) PROVE Quiet
    BY <1>6 DEF AccountRequest, snowVars, timelineVars
<1>7. ASSUME NEW p \in Person, FinishChange(p) PROVE Quiet
    BY <1>7 DEF FinishChange, snowVars, timelineVars, archiveVars
<1>8. ASSUME NEW p \in Person, NEW target \in Account, DeleteUser(p, target) PROVE Quiet
    BY <1>8 DEF DeleteUser, snowVars, timelineVars
<1>9. CASE Start
    BY <1>1, <1>9 DEF Start, snowVars, timelineVars
<1>10. CASE Environment
  <2>1. Quiet
      BY <1>10 DEF Environment, Elapse, SetBack, Forget, Tick, StepBack, snowVars, timelineVars
  <2> QED  BY <1>1, <2>1
<1> HIDE DEF Quiet
<1> QED  BY <1>1, <1>2, <1>3, <1>4, <1>5, <1>6, <1>7, <1>8, <1>9, <1>10 DEF Next

\* The invariant of the table holds always.
LEMMA KeptInvariant == Spec => []KeptInv
<1>1. Init => KeptInv
    BY DEF Init, TimelineInit, SnowInit, KeptInv, SavedIsKept, Message
<1>2. SnowInv /\ KeptInv /\ [Next]_vars => KeptInv'
  <2>1. UNCHANGED vars /\ KeptInv => KeptInv'
      BY Zenon, QuietKeeps DEF vars, snowVars, timelineVars, archiveVars, KeptInv
  <2> QED  BY <2>1, KeptSteps
<1> QED  BY <1>1, <1>2, CompositionTypes, PTL DEF Spec

\* A message that was inserted keeps its row until it is deleted, for any number
\* of messages and however the clock is set, unless its id is 0.
THEOREM SavedHolds == Spec => []SavedIsKept
<1>1. KeptInv => SavedIsKept
    BY DEF KeptInv
<1> QED  BY <1>1, KeptInvariant, PTL

-----------------------------------------------------------------------------
(* The readers                                                             *)

Saved == {m \in Message : step[m] = "saved"}

Registered == {u \in Account : Exists(u)}

\* The accounts that come before u in the list of users, wherever ties are put.
Newer(u) == {v \in Registered : Created(v) > Created(u)}

Listing ==
    [reader : Person, mode : Mode, limit : Nat \ {0}, from : Nat, start : Nat,
     owed : SUBSET (Message \cup Account), seen : SUBSET (Message \cup Account),
     ends : SUBSET (Message \cup Account), broken : BOOLEAN, done : BOOLEAN]

\* A listing of one of these kinds, every answer of which was complete.
Whole(modes) == listing # NoListing /\ listing.mode \in modes /\ ~listing.broken

OfSaved ==
    listing # NoListing /\ listing.mode # "users" => listing.owed \cup listing.ends \subseteq Saved

\* What a reader of a history owes and has not seen lies before its position.
HistoryPlace ==
    Whole(ByTime) =>
        \A m \in listing.owed \cap rows :
            /\ Selects(listing.mode, m)
            /\ \/ m \in listing.seen
               \/ ts[m] >= listing.start
               \/ \E e \in listing.ends : ts[e] = ts[m]
               \/ ~listing.done /\ ts[m] < listing.from

\* What a search owes and has not shown has an id below the cursor.
SearchPlace ==
    Whole(Search) =>
        \A m \in listing.owed \cap rows :
            /\ Selects("search", m)
            /\ \/ m \in listing.seen
               \/ \E e \in listing.ends :
                    ts[m] <= ts[e] /\ (MsgId(m) > MsgId(e) \/ MsgId(e) = 0)
               \/ ~listing.done /\ (listing.from > 0 => MsgId(m) < listing.from)

\* A user who is owed and has not been shown comes after the offset, wherever the
\* database puts ties.
UsersPlace ==
    Whole({"users"}) =>
        /\ listing.owed \cup listing.ends \subseteq Registered
        /\ \A u \in listing.owed :
            \/ u \in listing.seen
            \/ \E e \in listing.ends : Created(e) = Created(u)
            \/ ~listing.done /\ Cardinality(Newer(u)) >= listing.from

\* Why HistoryComplete, SearchComplete and UsersListed hold.
ReadersInv ==
    /\ ts \in [Message -> Nat]
    /\ IsFiniteSet(rows)
    /\ IsFiniteSet(Registered)
    /\ listing # NoListing => listing \in Listing
    /\ OfSaved
    /\ HistoryPlace
    /\ SearchPlace
    /\ UsersPlace

INSTANCE FiniteSetTheorems

\* A set of natural numbers has a least element.
LEMMA LeastExists ==
    ASSUME NEW S \in SUBSET Nat, S # {}
    PROVE  \E x \in S : \A y \in S : x <= y
<1>1. \E x \in S : \A y \in S : ~(<<y, x>> \in OpToRel(<, Nat))
    BY NatLessThanWellFounded, WFMin, Zenon
<1>2. \E x \in S : \A y \in S : ~(y < x)
    BY <1>1, Zenon DEF OpToRel
<1> QED  BY <1>2

\* How two numbers compare.
LEMMA Compared ==
    ASSUME NEW a \in Nat, NEW b \in Nat
    PROVE  /\ a < b \/ a = b \/ a > b
           /\ a >= b => b <= a /\ (b = a \/ b < a) /\ ~(b > a)
           /\ ~(a > a)
           /\ a <= b => b >= a
           /\ (b > 0) <=> (b # 0)
OBVIOUS

\* What two comparisons give together, and the lesser of two numbers.
LEMMA Chained ==
    ASSUME NEW a \in Nat, NEW b \in Nat, NEW c \in Nat
    PROVE  /\ a >= b /\ a <= c => b <= c
           /\ a >= b /\ c >= a => c >= b
           /\ a >= b /\ c < b => a > c
           /\ a >= b => ~(a <= b - 1)
           /\ a <= b => Least(a, b) = a
BY DEF Least

\* An addition with a term that is nothing.
LEMMA Added ==
    ASSUME NEW a \in Nat, NEW b \in Nat, NEW c, c = a + b - 0
    PROVE  c = a + b
OBVIOUS

\* A page that leaves a row out is full, and there are more rows than it holds.
LEMMA PageIsFull ==
    ASSUME NEW T, IsFiniteSet(T), NEW S \in SUBSET T, NEW n \in Nat \ {0}, NEW key,
           IsTop(S, T, n, key), S # T
    PROVE  /\ Cardinality(S) = n
           /\ n < Cardinality(T)
           /\ S # {}
           /\ IsFiniteSet(S)
<1>1. IsFiniteSet(S) /\ Cardinality(S) <= Cardinality(T) /\ Cardinality(S) # Cardinality(T)
    BY FS_Subset
<1>2. Cardinality(S) \in Nat /\ Cardinality(T) \in Nat
    BY <1>1, FS_CardinalityType
<1>3. Cardinality(S) = Least(n, Cardinality(T))
    BY DEF IsTop
<1>4. Cardinality(S) = n /\ n < Cardinality(T)
    BY <1>1, <1>2, <1>3 DEF Least
<1>5. S # {}
    BY <1>4, FS_EmptySet
<1> QED  BY <1>1, <1>4, <1>5

\* A page that is not empty has a last row, and Last holds the oldest rows.
LEMMA LastExists ==
    ASSUME NEW page \in SUBSET Message, ts \in [Message -> Nat], page # {}
    PROVE  Last(page) # {}
<1> DEFINE times == {ts[m] : m \in page}
<1>1. times \in SUBSET Nat /\ times # {}
    OBVIOUS
<1>2. \E x \in times : \A y \in times : x <= y
    BY Zenon, <1>1, LeastExists
<1> QED  BY <1>2 DEF Last

\* What a client makes of a complete page.
Extended(page, last, from, done) ==
    /\ listing' \in Listing
    /\ listing'.mode = listing.mode /\ listing'.limit = listing.limit
    /\ listing'.start = listing.start /\ listing'.owed = listing.owed
    /\ listing'.broken = listing.broken /\ listing'.from = from /\ listing'.done = done
    /\ listing'.seen = listing.seen \cup page /\ listing'.ends = listing.ends \cup last

\* A reading that goes on adds the page and remembers where it is.
LEMMA Continues ==
    ASSUME listing \in Listing, NEW page \in SUBSET (Message \cup Account),
           NEW last \in SUBSET (Message \cup Account), NEW from \in Nat, NEW done \in BOOLEAN,
           Continue(page, last, from, done)
    PROVE  Extended(page, last, from, done)
BY Zenon DEF Listing, Continue, Extended

\* What it makes of an incomplete one.
LEMMA CutsShort ==
    ASSUME listing \in Listing, NEW page \in SUBSET (Message \cup Account),
           NEW from \in Nat, NEW done \in BOOLEAN, CutShort(page, from, done)
    PROVE  /\ listing' \in Listing
           /\ listing'.mode = listing.mode /\ listing'.owed = listing.owed
           /\ listing'.ends = listing.ends /\ listing'.broken = TRUE
BY Zenon DEF Listing, CutShort

\* A step that reads.
Still == UNCHANGED <<issued, step, ts, rows, users>>

\* After an incomplete answer nothing is promised.
LEMMA CutShortKeeps ==
    ASSUME ReadersInv, listing # NoListing, Still, NEW page \in SUBSET (Message \cup Account),
           NEW from \in Nat, NEW done \in BOOLEAN, CutShort(page, from, done)
    PROVE  ReadersInv'
<1>1. /\ listing' \in Listing
      /\ listing'.mode = listing.mode /\ listing'.owed = listing.owed
      /\ listing'.ends = listing.ends /\ listing'.broken = TRUE
    BY Zenon, CutsShort DEF ReadersInv
<1>2. ts' \in [Message -> Nat] /\ IsFiniteSet(rows') /\ Registered' = Registered
    BY Zenon DEF ReadersInv, Still, Registered, Exists
<1>3. OfSaved'
    BY <1>1 DEF ReadersInv, OfSaved, Saved, Still
<1>4. HistoryPlace' /\ SearchPlace' /\ UsersPlace'
    BY Zenon, <1>1 DEF HistoryPlace, SearchPlace, UsersPlace, Whole
<1> QED  BY <1>1, <1>2, <1>3, <1>4 DEF ReadersInv

\* The next page of a history begins before the rows of this one.
LEMMA OlderKeeps ==
    ASSUME KeptInv, ReadersInv, NEW p, NEW mode \in ByTime, NEW page \in SUBSET rows,
           Reading(p, mode), TimePage(mode, page), Older(page), Still
    PROVE  ReadersInv'
<1> DEFINE found == {m \in rows : Selects(mode, m) /\ ts[m] < listing.from}
           short == Cardinality(page) < listing.limit
           last == IF short THEN {} ELSE Last(page)
<1>1. listing # NoListing /\ listing \in Listing /\ listing.mode = mode /\ ~listing.done
    BY DEF Reading, ReadersInv
<1>2. listing.limit \in Nat \ {0} /\ listing.from \in Nat /\ ts \in [Message -> Nat]
    BY Zenon, <1>1 DEF Listing, ReadersInv
<1>3. page \in SUBSET Message /\ rows \in SUBSET Message /\ page \subseteq Saved
    BY Zenon DEF KeptInv, Saved
<1>4. page \in SUBSET found /\ IsFiniteSet(found) /\ IsTop(page, found, listing.limit, ts)
  <2>1. found \in SUBSET rows /\ IsFiniteSet(rows)
      BY DEF ReadersInv
  <2> QED  BY <2>1, FS_Subset DEF TimePage
<1>5. page # {} => Before(page) \in {ts[m] : m \in Last(page)}
    BY Zenon, <1>2, <1>3, LastExists DEF Before
<1>6. Before(page) \in Nat
    BY Zenon, <1>2, <1>3, <1>5 DEF Before, Last
<1>7. last \in SUBSET page /\ short \in BOOLEAN
    BY DEF Last
<1>8. Continue(page, last, Before(page), short)
    BY Zenon DEF Older
<1>9. page # found => ~short /\ last = Last(page) /\ page # {}
  <2>1. page # found => Cardinality(page) = listing.limit /\ page # {}
      BY <1>2, <1>4, PageIsFull
  <2>2. ~(listing.limit < listing.limit)
      BY <1>2
  <2>3. page # found => ~short
      BY Zenon, <2>1, <2>2
  <2> QED  BY Zenon, <2>1, <2>3
<1> HIDE DEF short, last
<1>10. /\ listing' \in Listing
       /\ listing'.mode = mode /\ listing'.start = listing.start /\ listing'.owed = listing.owed
       /\ listing'.broken = listing.broken /\ listing'.from = Before(page) /\ listing'.done = short
       /\ listing'.seen = listing.seen \cup page /\ listing'.ends = listing.ends \cup last
  <2>1. page \in SUBSET (Message \cup Account) /\ last \in SUBSET (Message \cup Account)
      BY Zenon, <1>3, <1>7
  <2>2. Extended(page, last, Before(page), short)
      BY Zenon, <1>1, <1>6, <1>7, <1>8, <2>1, Continues
  <2> QED  BY Zenon, <1>1, <2>2 DEF Extended
<1>11. ts' \in [Message -> Nat] /\ IsFiniteSet(rows') /\ Registered' = Registered
    BY DEF ReadersInv, Still, Registered, Exists
<1>12. OfSaved'
    BY Zenon, <1>1, <1>3, <1>7, <1>10 DEF ReadersInv, OfSaved, Saved, Still
<1>13. mode \notin Search /\ mode # "users"
    BY DEF ByTime, Search
<1>14. SearchPlace' /\ UsersPlace'
    BY Zenon, <1>10, <1>13 DEF SearchPlace, UsersPlace, Whole
<1>15. HistoryPlace'
  <2> SUFFICES ASSUME ~listing'.broken, NEW m \in listing'.owed \cap rows'
               PROVE  /\ Selects(mode, m)
                      /\ \/ m \in listing'.seen
                         \/ ts'[m] >= listing'.start
                         \/ \E e \in listing'.ends : ts'[e] = ts'[m]
                         \/ ~listing'.done /\ ts'[m] < listing'.from
      BY Zenon, <1>10 DEF HistoryPlace, Whole
  <2>1. m \in listing.owed \cap rows /\ m \in Message /\ rows' = rows /\ ts' = ts
      BY Zenon, <1>3, <1>10 DEF Still
  <2>2. /\ Selects(mode, m)
        /\ \/ m \in listing.seen
           \/ ts[m] >= listing.start
           \/ \E e \in listing.ends : ts[e] = ts[m]
           \/ ts[m] < listing.from
      BY Zenon, <1>1, <1>10, <2>1 DEF ReadersInv, HistoryPlace, Whole
  <2>3. CASE m \in found /\ m \notin page
    <3>1. ~short /\ last = Last(page) /\ page # {}
        BY Zenon, <1>9, <2>3
    <3>2. PICK e \in Last(page) : Before(page) = ts[e]
        BY Zenon, <1>5, <3>1
    <3>3. e \in page /\ ts[m] <= ts[e]
        BY Zenon, <1>2, <1>3, <1>4, <2>3, <3>2 DEF IsTop, Last
    <3>4. ts[m] = ts[e] \/ ts[m] < ts[e]
      <4>1. ts[m] \in Nat /\ ts[e] \in Nat
          BY Zenon, <1>2, <1>3, <2>1, <3>3
      <4> QED  BY Zenon, <3>3, <4>1, Compared
    <3> QED  BY Zenon, <1>10, <2>1, <2>2, <3>1, <3>2, <3>4
  <2> QED  BY Zenon, <1>10, <2>1, <2>2, <2>3
<1> QED  BY Zenon, <1>10, <1>11, <1>12, <1>14, <1>15 DEF ReadersInv

\* The id of a message that was saved; two of them have the same one only if it is 0.
LEMMA SavedIds ==
    ASSUME SnowTypeOK, KeptInv
    PROVE  /\ \A m \in Saved : MsgId(m) \in Nat
           /\ \A m, n \in Saved : MsgId(m) = MsgId(n) => m = n \/ MsgId(m) = 0
<1>1. ASSUME NEW m \in Saved PROVE issued[m] = {MsgId(m)} /\ MsgId(m) \in Nat
  <2>1. m \in Caller /\ \E i : issued[m] = {i}
      BY <1>1 DEF Saved, KeptInv, Message
  <2> QED  BY Zenon, <2>1, MsgIdIsIssued DEF SnowTypeOK
<1>2. ASSUME NEW m \in Saved, NEW n \in Saved, MsgId(m) = MsgId(n)
      PROVE  m = n \/ MsgId(m) = 0
  <2>1. m # n => issued[m] \cap issued[n] \subseteq {0}
      BY <1>2 DEF Saved, KeptInv
  <2>2. issued[m] = {MsgId(m)} /\ issued[n] = {MsgId(m)}
      BY <1>1, <1>2
  <2> QED  BY Zenon, <2>1, <2>2
<1> QED  BY <1>1, <1>2

\* The cursor of a search leaves behind only rows that the page shows, or on which
\* the order of the pages and the cursor disagree.
LEMMA SearchKeeps ==
    ASSUME SnowTypeOK, KeptInv, ReadersInv, NEW p, NEW mode \in Search,
           NEW page \in SUBSET rows, NEW last \in Message,
           Reading(p, mode), SearchPage(page, last), Still,
           LET cursor == NextCursor(page, last)
           IN  \/ Continue(page, {last} \cap page, cursor, cursor = 0)
               \/ \E sent \in SUBSET page : CutShort(sent, cursor, cursor = 0)
    PROVE  ReadersInv'
<1> DEFINE cursor == NextCursor(page, last)
           end == cursor = 0
           shown == {last} \cap page
<1>1. listing # NoListing /\ listing \in Listing /\ listing.mode = mode /\ ~listing.done
    BY DEF Reading, ReadersInv
<1>2. listing.limit \in Nat \ {0} /\ listing.from \in Nat /\ ts \in [Message -> Nat]
    BY <1>1 DEF Listing, ReadersInv
<1>3. rows \subseteq Saved /\ Saved \subseteq Message
    BY Zenon DEF KeptInv, Saved
<1>4. page \in SUBSET Found /\ Found \subseteq rows /\ IsFiniteSet(Found)
      /\ IsTop(page, Found, listing.limit, ts)
  <2>1. Found \in SUBSET rows /\ IsFiniteSet(rows)
      BY DEF ReadersInv, Found
  <2> QED  BY <2>1, FS_Subset DEF SearchPage
<1>5. page # Found => Cardinality(Found) > listing.limit /\ page # {}
    BY Zenon, <1>2, <1>4, PageIsFull
<1>6. Cardinality(Found) > listing.limit => page # Found
  <2>1. Cardinality(Found) \in Nat
      BY Zenon, <1>4, FS_CardinalityType
  <2> QED  BY <1>2, <1>4, <2>1 DEF IsTop, Least
<1>7. page # {} => last \in page /\ last \in Saved
    BY Zenon, <1>3 DEF SearchPage, Last
<1>8. cursor \in Nat /\ end \in BOOLEAN /\ (page # Found => cursor = MsgId(last))
    BY Zenon, <1>5, <1>6, <1>7, SavedIds DEF NextCursor
<1>9. shown \in SUBSET Saved /\ page \in SUBSET Message
    BY Zenon, <1>3, <1>4
<1>10. Continue(page, shown, cursor, end) \/ \E sent \in SUBSET page : CutShort(sent, cursor, end)
    BY Zenon
<1>11. end <=> cursor = 0
    BY Zenon
<1> HIDE DEF cursor, end
<1>12. CASE \E sent \in SUBSET page : CutShort(sent, cursor, end)
  <2>1. PICK sent \in SUBSET page : CutShort(sent, cursor, end)
      BY <1>12
  <2> QED  BY Zenon, <1>1, <1>8, <1>9, <2>1, CutShortKeeps
<1>13. CASE Continue(page, shown, cursor, end)
  <2>1. /\ listing' \in Listing
        /\ listing'.mode = mode /\ listing'.start = listing.start /\ listing'.owed = listing.owed
        /\ listing'.broken = listing.broken /\ listing'.from = cursor /\ listing'.done = end
        /\ listing'.seen = listing.seen \cup page /\ listing'.ends = listing.ends \cup shown
    <3> HIDE DEF shown
    <3>1. page \in SUBSET (Message \cup Account) /\ shown \in SUBSET (Message \cup Account)
        BY Zenon, <1>3, <1>9
    <3>2. Extended(page, shown, cursor, end)
        BY Zenon, <1>1, <1>8, <1>13, <3>1, Continues
    <3> QED  BY Zenon, <1>1, <3>2 DEF Extended
  <2>2. ts' \in [Message -> Nat] /\ IsFiniteSet(rows') /\ Registered' = Registered
      BY DEF ReadersInv, Still, Registered, Exists
  <2>3. OfSaved'
      BY Zenon, <1>1, <1>9, <2>1 DEF ReadersInv, OfSaved, Saved, Still
  <2>4. mode \notin ByTime /\ mode # "users"
      BY DEF ByTime, Search
  <2>5. HistoryPlace' /\ UsersPlace'
      BY Zenon, <2>1, <2>4 DEF HistoryPlace, UsersPlace, Whole
  <2>6. \A m : MsgId(m)' = MsgId(m)
      BY DEF MsgId, Still
  <2>7. SearchPlace'
    <3> SUFFICES ASSUME ~listing'.broken, NEW m \in listing'.owed \cap rows'
                 PROVE  /\ Selects("search", m)
                        /\ \/ m \in listing'.seen
                           \/ \E e \in listing'.ends :
                                ts[m] <= ts[e] /\ (MsgId(m) > MsgId(e) \/ MsgId(e) = 0)
                           \/ ~listing'.done /\ (listing'.from > 0 => MsgId(m) < listing'.from)
        BY Zenon, <2>1, <2>6 DEF SearchPlace, Whole, Still
    <3>1. m \in listing.owed \cap rows /\ m \in Saved
        BY Zenon, <1>3, <2>1 DEF Still
    <3>2. /\ Selects("search", m)
          /\ \/ m \in listing.seen
             \/ \E e \in listing.ends :
                  ts[m] <= ts[e] /\ (MsgId(m) > MsgId(e) \/ MsgId(e) = 0)
             \/ listing.from > 0 => MsgId(m) < listing.from
        BY Zenon, <1>1, <2>1, <3>1 DEF ReadersInv, SearchPlace, Whole
    <3>3. CASE m \in Found /\ m \notin page
      <4>1. cursor = MsgId(last) /\ last \in page /\ last \in Saved /\ m # last
          BY Zenon, <1>5, <1>7, <1>8, <3>3
      <4>2. ts[last] >= ts[m]
          BY Zenon, <1>4, <3>3, <4>1 DEF IsTop
      <4>3. ts[m] <= ts[last]
          BY Zenon, <1>2, <1>3, <3>1, <4>1, <4>2
      <4>4. MsgId(m) \in Nat /\ MsgId(last) \in Nat
            /\ (MsgId(m) = MsgId(last) => MsgId(last) = 0)
          BY Zenon, <3>1, <4>1, SavedIds
      <4>5. \/ MsgId(m) > MsgId(last) \/ MsgId(last) = 0
            \/ cursor # 0 /\ MsgId(m) < cursor
          BY Zenon, <4>1, <4>4, Compared
      <4>6. last \in listing'.ends
          BY Zenon, <2>1, <4>1
      <4> QED  BY Zenon, <1>11, <2>1, <3>2, <4>3, <4>5, <4>6
    <3>4. m \in Found \/ ~(listing.from > 0 => MsgId(m) < listing.from)
        BY Zenon, <3>1, <3>2 DEF Found
    <3> QED  BY Zenon, <2>1, <3>2, <3>3, <3>4
  <2> QED  BY Zenon, <2>1, <2>2, <2>3, <2>5, <2>7 DEF ReadersInv
<1> QED  BY Zenon, <1>10, <1>12, <1>13

\* A page of users moves the offset past accounts that are all newer than those
\* not yet shown.
LEMMA UsersPageKeeps ==
    ASSUME AccountsTypeOK, ReadersInv, NEW p, NEW skipped \in SUBSET Account,
           NEW page \in SUBSET Account, HandleAdminUsers(p, skipped, page)
    PROVE  ReadersInv'
<1> DEFINE created == [u \in Registered |-> Created(u)]
           rest == Registered \ skipped
           short == Cardinality(page) < listing.limit
           oldest == {u \in page : \A v \in page : Created(u) <= Created(v)}
           next == listing.from + listing.limit
<1>1. listing # NoListing /\ listing \in Listing /\ listing.mode = "users" /\ ~listing.done
    BY DEF HandleAdminUsers, Reading, ReadersInv
<1>2. listing.limit \in Nat \ {0} /\ listing.from \in Nat
    BY Zenon, <1>1 DEF Listing
<1>3. Still
    BY DEF HandleAdminUsers, Unwritten, Still, snowVars, timelineVars, accountVars
<1>4. \A u \in Registered : Created(u) \in Nat
    BY Zenon DEF Registered, Exists, AccountsTypeOK, Created, Row
<1>5. /\ skipped \in SUBSET Registered
      /\ page \in SUBSET rest
      /\ IsTop(skipped, Registered, listing.from, created)
      /\ IsTop(page, rest, listing.limit, created)
    BY DEF HandleAdminUsers, ListUsers, Registered
<1>6. IsFiniteSet(Registered) /\ IsFiniteSet(rest) /\ IsFiniteSet(skipped) /\ IsFiniteSet(page)
  <2>1. IsFiniteSet(Registered) /\ rest \in SUBSET Registered /\ page \in SUBSET Registered
      BY Zenon, <1>5 DEF ReadersInv
  <2> QED  BY Zenon, <1>5, <2>1, FS_Subset
<1>7. \A u \in Registered : created[u] = Created(u)
    OBVIOUS
<1> HIDE DEF created
<1>8. Continue(page, oldest, next, short)
    BY Zenon DEF HandleAdminUsers
<1>9. page # {} => oldest # {}
  <2> SUFFICES ASSUME page # {} PROVE oldest # {}
      OBVIOUS
  <2> DEFINE times == {Created(u) : u \in page}
  <2>1. times \in SUBSET Nat /\ times # {}
      BY Zenon, <1>4, <1>5
  <2>2. \E x \in times : \A y \in times : x <= y
      BY Zenon, <2>1, LeastExists
  <2> QED  BY <2>2
<1>10. \A e \in oldest, v \in page : e \in page /\ Created(e) <= Created(v)
    OBVIOUS
<1>11. oldest \in SUBSET page /\ next \in Nat /\ short \in BOOLEAN
    BY <1>2
<1>12. page # rest => short = FALSE /\ Cardinality(page) = listing.limit /\ page # {}
  <2>1. page # rest => Cardinality(page) = listing.limit /\ page # {}
      BY <1>2, <1>5, <1>6, PageIsFull
  <2> QED  BY <1>2, <2>1
<1>13. next = listing.from + listing.limit
    OBVIOUS
<1> HIDE DEF short, oldest, next
<1>14. /\ listing' \in Listing
       /\ listing'.mode = "users" /\ listing'.owed = listing.owed
       /\ listing'.broken = listing.broken /\ listing'.from = next /\ listing'.done = short
       /\ listing'.seen = listing.seen \cup page /\ listing'.ends = listing.ends \cup oldest
  <2>1. page \in SUBSET (Message \cup Account) /\ oldest \in SUBSET (Message \cup Account)
      BY Zenon, <1>11
  <2>2. Extended(page, oldest, next, short)
      BY Zenon, <1>1, <1>8, <1>11, <2>1, Continues
  <2> QED  BY Zenon, <1>1, <2>2 DEF Extended
<1>15. /\ ts' \in [Message -> Nat] /\ IsFiniteSet(rows') /\ Registered' = Registered
       /\ \A u : Created(u)' = Created(u)
       /\ \A u : Newer(u)' = Newer(u)
    BY Zenon, <1>3 DEF ReadersInv, Still, Registered, Exists, Created, Newer
<1>16. OfSaved' /\ HistoryPlace' /\ SearchPlace'
  <2>1. "users" \notin ByTime \cup Search
      BY DEF ByTime, Search
  <2> QED  BY Zenon, <1>14, <2>1 DEF OfSaved, HistoryPlace, SearchPlace, Whole
<1>17. UsersPlace'
  <2> SUFFICES ASSUME ~listing.broken
               PROVE  /\ listing.owed \cup listing.ends \cup oldest \subseteq Registered
                      /\ \A u \in listing.owed :
                          \/ u \in listing.seen \cup page
                          \/ \E e \in listing.ends \cup oldest : Created(e) = Created(u)
                          \/ ~short /\ Cardinality(Newer(u)) >= next
      BY Zenon, <1>14, <1>15 DEF UsersPlace, Whole
  <2>1. /\ listing.owed \cup listing.ends \subseteq Registered
        /\ \A u \in listing.owed :
            \/ u \in listing.seen
            \/ \E e \in listing.ends : Created(e) = Created(u)
            \/ Cardinality(Newer(u)) >= listing.from
      BY Zenon, <1>1 DEF ReadersInv, UsersPlace, Whole
  <2>2. ASSUME NEW u \in listing.owed, Cardinality(Newer(u)) >= listing.from,
               u \notin page, \A e \in oldest : Created(e) # Created(u)
        PROVE  ~short /\ Cardinality(Newer(u)) >= next
    <3>1. u \in Registered /\ u \notin Newer(u) /\ Newer(u) \in SUBSET Registered
        BY Zenon, <1>4, <2>1, <2>2, Compared DEF Newer
    <3>2. IsFiniteSet(Newer(u)) /\ Cardinality(Newer(u)) <= Cardinality(Registered)
        BY Zenon, <1>6, <3>1, FS_Subset
    <3>3. /\ Cardinality(Newer(u)) \in Nat /\ Cardinality(Registered) \in Nat
          /\ Cardinality(skipped) \in Nat
        BY Zenon, <1>6, <3>2, FS_CardinalityType
    <3>4. Cardinality(skipped) = listing.from
      <4>1. listing.from <= Cardinality(Registered)
          BY Zenon, <1>2, <2>2, <3>2, <3>3, Chained
      <4>2. Cardinality(skipped) = Least(listing.from, Cardinality(Registered))
          BY Zenon, <1>5 DEF IsTop
      <4> QED  BY Zenon, <1>2, <3>3, <4>1, <4>2, Chained
    <3>5. u \notin skipped
      <4> SUFFICES ASSUME u \in skipped PROVE FALSE
          BY Zenon
      <4>1. Newer(u) \in SUBSET (skipped \ {u})
        <5> SUFFICES ASSUME NEW v \in Newer(u), v \notin skipped PROVE FALSE
            BY Zenon, <3>1
        <5>1. v \in Registered /\ Created(v) > Created(u)
            BY DEF Newer
        <5>2. Created(u) >= Created(v)
            BY Zenon, <1>5, <1>7, <3>1, <5>1 DEF IsTop
        <5> QED  BY Zenon, <1>4, <3>1, <5>1, <5>2, Compared
      <4>2. IsFiniteSet(skipped \ {u}) /\ Cardinality(skipped \ {u}) = Cardinality(skipped) - 1
          BY Zenon, <1>6, FS_RemoveElement
      <4>3. Cardinality(Newer(u)) <= Cardinality(skipped) - 1
          BY <4>1, <4>2, FS_Subset
      <4> QED  BY Zenon, <1>2, <2>2, <3>3, <3>4, <4>3, Chained
    <3>6. ~short /\ Cardinality(page) = listing.limit /\ page # {} /\ u \in rest \ page
        BY Zenon, <1>12, <2>2, <3>1, <3>5
    <3>7. PICK e \in oldest : e \in page /\ e \in Registered
        BY Zenon, <1>5, <1>9, <1>10, <3>6
    <3>8. Created(u) < Created(e)
      <4>1. Created(e) >= Created(u)
          BY Zenon, <1>5, <1>7, <3>6, <3>7 DEF IsTop
      <4>2. Created(e) # Created(u) /\ Created(e) \in Nat /\ Created(u) \in Nat
          BY Zenon, <1>4, <2>2, <3>1, <3>7
      <4> QED  BY Zenon, <4>1, <4>2, Compared
    <3>9. skipped \cup page \in SUBSET Newer(u)
      <4>1. ASSUME NEW v \in skipped PROVE v \in Newer(u)
        <5>1. v \in Registered /\ Created(v) >= Created(e)
            BY Zenon, <1>5, <1>7, <3>7 DEF IsTop
        <5>2. Created(v) > Created(u)
            BY Zenon, <1>4, <3>1, <3>7, <3>8, <5>1, Chained
        <5> QED  BY Zenon, <5>1, <5>2 DEF Newer
      <4>2. ASSUME NEW v \in page PROVE v \in Newer(u)
        <5>1. v \in Registered /\ Created(e) <= Created(v)
            BY Zenon, <1>5, <1>10, <3>7
        <5>2. Created(v) >= Created(e)
            BY Zenon, <1>4, <3>7, <5>1, Compared
        <5>3. Created(v) > Created(u)
            BY Zenon, <1>4, <3>1, <3>7, <3>8, <5>1, <5>2, Chained
        <5> QED  BY Zenon, <5>1, <5>3 DEF Newer
      <4> QED  BY Zenon, <4>1, <4>2
    <3>10. Cardinality(skipped \cup page) = next
      <4>1. Cardinality(skipped \cap page) = 0
        <5>1. skipped \cap page = {}
            BY Zenon, <1>5
        <5> QED  BY Zenon, <5>1, FS_EmptySet
      <4>2. Cardinality(skipped \cup page)
              = Cardinality(skipped) + Cardinality(page) - Cardinality(skipped \cap page)
          BY <1>6, FS_Union
      <4>3. Cardinality(skipped \cup page) = listing.from + listing.limit - 0
          BY Zenon, <3>4, <3>6, <4>1, <4>2
      <4> QED  BY Zenon, <1>2, <1>13, <4>3, Added
    <3>11. Cardinality(skipped \cup page) <= Cardinality(Newer(u))
        BY Zenon, <3>2, <3>9, FS_Subset
    <3>12. next \in Nat /\ next <= Cardinality(Newer(u))
      <4>1. IsFiniteSet(skipped \cup page)
          BY Zenon, <3>2, <3>9, FS_Subset
      <4> QED  BY Zenon, <3>10, <3>11, <4>1, FS_CardinalityType
    <3>13. Cardinality(Newer(u)) >= next
        BY Zenon, <3>3, <3>12, Compared
    <3> QED  BY Zenon, <3>6, <3>13
  <2>3. oldest \subseteq Registered
      BY <1>5, <1>11
  <2>4. ASSUME NEW u \in listing.owed
        PROVE  \/ u \in listing.seen \cup page
               \/ \E e \in listing.ends \cup oldest : Created(e) = Created(u)
               \/ ~short /\ Cardinality(Newer(u)) >= next
    <3>1. CASE u \in listing.seen \/ \E e \in listing.ends : Created(e) = Created(u)
        BY Zenon, <3>1
    <3>2. CASE Cardinality(Newer(u)) >= listing.from
      <4>1. CASE u \in page \/ \E e \in oldest : Created(e) = Created(u)
          BY Zenon, <4>1
      <4>2. CASE u \notin page /\ \A e \in oldest : Created(e) # Created(u)
          BY Zenon, <2>2, <3>2, <4>2
      <4> QED  BY Zenon, <4>1, <4>2
    <3> QED  BY Zenon, <2>1, <3>1, <3>2
  <2> QED  BY Zenon, <2>1, <2>3, <2>4
<1> QED  BY Zenon, <1>6, <1>14, <1>15, <1>16, <1>17 DEF ReadersInv

\* A new listing: everything it owes lies ahead of it.
LEMMA OpenKeeps ==
    ASSUME SnowTypeOK, AccountsTypeOK, KeptInv, ReadersInv, NEW p \in Person, NEW mode \in Mode,
           NEW asked \in AskedLimits, Open(p, mode, asked)
    PROVE  ReadersInv'
<1> DEFINE limit == IF mode \in OverHttp THEN ParamLimit(asked) ELSE ClampLimit(asked)
           from == IF mode \in ByTime THEN wall ELSE 0
           owed == IF mode = "users" THEN Registered ELSE {m \in rows : Selects(mode, m)}
<1>1. limit \in Nat \ {0}
  <2>1. asked \in Int /\ DefaultLimit \in Nat /\ MaxLimit \in Nat /\ 0 < DefaultLimit
        /\ DefaultLimit <= MaxLimit
      BY ArchiveAssumption DEF ArchiveAssumption
  <2> QED  BY <2>1 DEF ParamLimit, ClampLimit, Least
<1>2. wall \in Nat /\ from \in Nat
    BY Zenon DEF SnowTypeOK
<1>3. rows \subseteq Saved /\ Saved \subseteq Message
    BY DEF KeptInv, Saved
<1>4. owed \in SUBSET (Message \cup Account)
    BY <1>3 DEF Registered
<1>5. listing' = [reader |-> p, mode |-> mode, limit |-> limit, from |-> from, start |-> wall,
                  owed |-> owed, seen |-> {}, ends |-> {}, broken |-> FALSE, done |-> FALSE]
    BY Zenon DEF Open, Registered
<1>6. Still
    BY DEF Open, Still, snowVars, timelineVars, accountVars
<1>7. /\ mode \in ByTime => from = wall
      /\ mode \notin ByTime => from = 0
      /\ mode = "users" => owed = Registered
      /\ mode # "users" => owed = {m \in rows : Selects(mode, m)}
    OBVIOUS
<1> HIDE DEF limit, from, owed
<1>8. /\ listing' \in Listing
      /\ listing'.mode = mode /\ listing'.from = from /\ listing'.start = wall
      /\ listing'.owed = owed /\ listing'.seen = {} /\ listing'.ends = {}
      /\ listing'.done = FALSE /\ listing'.broken = FALSE
    BY Zenon, <1>1, <1>2, <1>4, <1>5 DEF Listing
<1>9. /\ ts' = ts /\ rows' = rows /\ Registered' = Registered /\ Saved' = Saved
      /\ \A u : Newer(u)' = Newer(u)
    BY Zenon, <1>6 DEF Still, Registered, Exists, Saved, Newer, Created
<1>10. OfSaved'
    BY Zenon, <1>3, <1>7, <1>8, <1>9 DEF OfSaved
<1>11. HistoryPlace'
  <2> SUFFICES ASSUME mode \in ByTime, NEW m \in owed \cap rows
               PROVE  Selects(mode, m) /\ (ts[m] >= wall \/ ts[m] < from)
      BY Zenon, <1>8, <1>9 DEF HistoryPlace, Whole
  <2>1. mode # "users"
      BY DEF ByTime
  <2>2. m \in Message /\ ts[m] \in Nat
      BY <1>3 DEF ReadersInv
  <2> QED  BY <1>2, <1>7, <2>1, <2>2
<1>12. SearchPlace'
  <2> SUFFICES ASSUME mode \in Search, NEW m \in owed \cap rows
               PROVE  Selects("search", m) /\ ~(from > 0)
      BY Zenon, <1>8, <1>9 DEF SearchPlace, Whole
  <2>1. mode # "users" /\ mode \notin ByTime
      BY DEF ByTime, Search
  <2> QED  BY <1>7, <2>1 DEF Selects, Search
<1>13. UsersPlace'
  <2> SUFFICES ASSUME mode = "users", NEW u \in Registered
               PROVE  Cardinality(Newer(u)) >= from
      BY Zenon, <1>7, <1>8, <1>9 DEF UsersPlace, Whole
  <2>1. mode \notin ByTime
      BY DEF ByTime
  <2>2. Newer(u) \in SUBSET Registered /\ IsFiniteSet(Registered)
      BY DEF Newer, ReadersInv
  <2>3. Cardinality(Newer(u)) \in Nat
      BY Zenon, <2>2, FS_Subset, FS_CardinalityType
  <2> QED  BY <1>7, <2>1, <2>3
<1> QED  BY Zenon, <1>8, <1>9, <1>10, <1>11, <1>12, <1>13 DEF ReadersInv

\* Messages that are written and deleted, and accounts that are registered and
\* changed, leave every reader in its place.
LEMMA WritersKeep ==
    ASSUME AccountsTypeOK, ReadersInv, listing' = listing,
           ts' \in [Message -> Nat], IsFiniteSet(rows'), IsFiniteSet(Registered'),
           Saved \subseteq Saved',
           \A m \in Saved : ts'[m] = ts[m] /\ MsgId(m)' = MsgId(m) /\ (m \in rows' => m \in rows),
           Registered \subseteq Registered',
           \A u \in Registered : Created(u)' = Created(u)
    PROVE  ReadersInv'
<1>1. OfSaved'
    BY Zenon DEF ReadersInv, OfSaved
<1>2. HistoryPlace'
  <2> SUFFICES ASSUME Whole(ByTime), NEW m \in listing.owed \cap rows'
               PROVE  /\ Selects(listing.mode, m)
                      /\ \/ m \in listing.seen
                         \/ ts'[m] >= listing.start
                         \/ \E e \in listing.ends : ts'[e] = ts'[m]
                         \/ ~listing.done /\ ts'[m] < listing.from
      BY Zenon DEF HistoryPlace, Whole
  <2>1. listing.owed \cup listing.ends \subseteq Saved
    <3>1. listing.mode # "users"
        BY DEF Whole, ByTime
    <3> QED  BY Zenon, <3>1 DEF ReadersInv, OfSaved, Whole
  <2>2. m \in rows /\ ts'[m] = ts[m] /\ \A e \in listing.ends : ts'[e] = ts[e]
      BY Zenon, <2>1
  <2> QED  BY Zenon, <2>2 DEF ReadersInv, HistoryPlace
<1>3. SearchPlace'
  <2> SUFFICES ASSUME Whole(Search), NEW m \in listing.owed \cap rows'
               PROVE  /\ Selects("search", m)
                      /\ \/ m \in listing.seen
                         \/ \E e \in listing.ends :
                              ts'[m] <= ts'[e] /\ (MsgId(m)' > MsgId(e)' \/ MsgId(e)' = 0)
                         \/ ~listing.done /\ (listing.from > 0 => MsgId(m)' < listing.from)
      BY Zenon DEF SearchPlace, Whole
  <2>1. listing.owed \cup listing.ends \subseteq Saved
    <3>1. listing.mode # "users"
        BY Zenon DEF Whole, Search
    <3>2. listing # NoListing /\ OfSaved
        BY Zenon DEF ReadersInv, Whole
    <3> QED  BY Zenon, <3>1, <3>2 DEF OfSaved
  <2>2. /\ m \in rows /\ ts'[m] = ts[m] /\ MsgId(m)' = MsgId(m)
        /\ \A e \in listing.ends : ts'[e] = ts[e] /\ MsgId(e)' = MsgId(e)
      BY Zenon, <2>1
  <2>3. /\ Selects("search", m)
        /\ \/ m \in listing.seen
           \/ \E e \in listing.ends :
                ts[m] <= ts[e] /\ (MsgId(m) > MsgId(e) \/ MsgId(e) = 0)
           \/ ~listing.done /\ (listing.from > 0 => MsgId(m) < listing.from)
      BY Zenon, <2>2 DEF ReadersInv, SearchPlace
  <2> QED  BY Zenon, <2>2, <2>3
<1>4. UsersPlace'
  <2> SUFFICES ASSUME Whole({"users"})
               PROVE  /\ listing.owed \cup listing.ends \subseteq Registered'
                      /\ \A u \in listing.owed :
                          \/ u \in listing.seen
                          \/ \E e \in listing.ends : Created(e)' = Created(u)'
                          \/ ~listing.done /\ Cardinality(Newer(u)') >= listing.from
      BY Zenon DEF UsersPlace, Whole
  <2>1. /\ listing.owed \cup listing.ends \subseteq Registered
        /\ \A u \in listing.owed :
            \/ u \in listing.seen
            \/ \E e \in listing.ends : Created(e) = Created(u)
            \/ ~listing.done /\ Cardinality(Newer(u)) >= listing.from
      BY Zenon DEF ReadersInv, UsersPlace
  <2>2. ASSUME NEW u \in Registered PROVE Cardinality(Newer(u)') >= Cardinality(Newer(u))
    <3>1. Newer(u) \in SUBSET (Newer(u)') /\ Newer(u)' \in SUBSET Registered'
        BY Zenon, <2>2 DEF Newer
    <3>2. IsFiniteSet(Newer(u)')
        BY Zenon, <3>1, FS_Subset
    <3>3. IsFiniteSet(Newer(u)) /\ Cardinality(Newer(u)) <= Cardinality(Newer(u)')
        BY Zenon, <3>1, <3>2, FS_Subset
    <3>4. Cardinality(Newer(u)) \in Nat /\ Cardinality(Newer(u)') \in Nat
        BY Zenon, <3>2, <3>3, FS_CardinalityType
    <3> QED  BY Zenon, <3>3, <3>4
  <2>3. \A u \in Registered : Cardinality(Newer(u)) \in Nat /\ Cardinality(Newer(u)') \in Nat
    <3> SUFFICES ASSUME NEW u \in Registered
                 PROVE  Cardinality(Newer(u)) \in Nat /\ Cardinality(Newer(u)') \in Nat
        OBVIOUS
    <3>1. Newer(u) \in SUBSET Registered /\ Newer(u)' \in SUBSET Registered'
        BY Zenon DEF Newer
    <3>2. IsFiniteSet(Newer(u)) /\ IsFiniteSet(Newer(u)')
        BY Zenon, <3>1, FS_Subset DEF ReadersInv
    <3> QED  BY Zenon, <3>2, FS_CardinalityType
  <2>4. listing.from \in Nat
      BY DEF ReadersInv, Listing, Whole
  <2>5. ASSUME NEW u \in Registered, Cardinality(Newer(u)) >= listing.from
        PROVE  Cardinality(Newer(u)') >= listing.from
      BY Zenon, <2>2, <2>3, <2>4, <2>5, Chained
  <2>6. listing.owed \cup listing.ends \subseteq Registered'
      BY Zenon, <2>1
  <2>7. ASSUME NEW u \in listing.owed
        PROVE  \/ u \in listing.seen
               \/ \E e \in listing.ends : Created(e)' = Created(u)'
               \/ ~listing.done /\ Cardinality(Newer(u)') >= listing.from
    <3>1. u \in Registered /\ Created(u)' = Created(u)
        BY Zenon, <2>1
    <3>2. ASSUME NEW e \in listing.ends, Created(e) = Created(u)
          PROVE  Created(e)' = Created(u)'
      <4>1. Created(e)' = Created(e)
          BY Zenon, <2>1
      <4> QED  BY Zenon, <3>1, <3>2, <4>1
    <3> QED  BY Zenon, <2>1, <2>5, <3>1, <3>2
  <2> QED  BY Zenon, <2>6, <2>7
<1> QED  BY <1>1, <1>2, <1>3, <1>4 DEF ReadersInv

\* A request that touches no message and at most the account u: it registers u, or
\* changes another field of the row.
LEMMA AccountKeeps ==
    ASSUME AccountsTypeOK, ReadersInv, UNCHANGED <<issued, step, ts, rows, listing>>,
           NEW u \in Account, users' \in [Account -> Row \cup {NoRow}],
           \A v \in Account \ {u} : users'[v] = users[v],
           Exists(u) => Exists(u)' /\ Created(u)' = Created(u)
    PROVE  ReadersInv'
<1>1. Registered \subseteq Registered' /\ Registered' \in SUBSET (Registered \cup {u})
    BY DEF Registered, Exists
<1>2. IsFiniteSet(Registered')
  <2>1. IsFiniteSet(Registered \cup {u})
      BY Zenon, FS_AddElement DEF ReadersInv
  <2> QED  BY Zenon, <1>1, <2>1, FS_Subset
<1>3. \A v \in Registered : Created(v)' = Created(v)
    BY DEF Registered, Exists, Created
<1>4. Saved' = Saved /\ \A m : MsgId(m)' = MsgId(m)
    BY DEF Saved, MsgId
<1>5. ts' \in [Message -> Nat] /\ IsFiniteSet(rows')
    BY DEF ReadersInv
<1> QED  BY Zenon, <1>1, <1>2, <1>3, <1>4, <1>5, WritersKeep

\* Nothing that readers depend on.
LEMMA StillKeeps ==
    ASSUME ReadersInv, Still, listing' = listing
    PROVE  ReadersInv'
<1>1. /\ ts' = ts /\ rows' = rows /\ Registered' = Registered /\ Saved' = Saved
      /\ \A u : Created(u)' = Created(u) /\ Newer(u)' = Newer(u)
      /\ \A m : MsgId(m)' = MsgId(m)
    BY Zenon DEF Still, Registered, Exists, Saved, Newer, Created, MsgId
<1>2. OfSaved' /\ HistoryPlace' /\ SearchPlace'
    BY Zenon, <1>1 DEF ReadersInv, OfSaved, HistoryPlace, SearchPlace, Whole
<1>3. UsersPlace'
    BY Zenon, <1>1 DEF ReadersInv, UsersPlace, Whole
<1> QED  BY Zenon, <1>1, <1>2, <1>3 DEF ReadersInv

\* The handlers of handleChat.
LEMMA PostKeeps ==
    ASSUME SnowTypeOK, AccountsTypeOK, KeptInv, ReadersInv, Post
    PROVE  ReadersInv'
<1>1. PICK m \in Message : Admit(m) \/ TakeId(m) \/ Stamp(m) \/ Save(m)
    BY DEF Post
<1>2. listing' = listing /\ users' = users
    BY DEF Post, accountVars
<1>3. Registered' = Registered /\ \A u : Created(u)' = Created(u)
    BY <1>2 DEF Registered, Exists, Created
<1>4. IsFiniteSet(Registered') /\ IsFiniteSet(rows) /\ ts \in [Message -> Nat]
    BY Zenon, <1>3 DEF ReadersInv
<1>5. step \in [Message -> {"limit", "dropped", "id", "stamp", "save", "saved"}]
    BY DEF KeptInv
<1>6. CASE Admit(m)
  <2>1. /\ step[m] = "limit" /\ \A n \in Message \ {m} : step'[n] = step[n]
        /\ UNCHANGED <<issued, ts, rows>>
      BY <1>5, <1>6 DEF Admit, Goes, snowVars
  <2>2. Saved \subseteq Saved'
      BY Zenon, <2>1 DEF Saved
  <2>3. \A n : MsgId(n)' = MsgId(n)
      BY Zenon, <2>1 DEF MsgId
  <2> QED  BY Zenon, <1>2, <1>3, <1>4, <2>1, <2>2, <2>3, WritersKeep
<1>7. CASE TakeId(m)
  <2>1. /\ step[m] = "id" /\ \A n \in Message \ {m} : step'[n] = step[n]
        /\ UNCHANGED <<ts, rows>> /\ NextId(m)
      BY Zenon, <1>5, <1>7 DEF TakeId, Goes
  <2>2. Saved \subseteq Saved'
      BY <2>1 DEF Saved
  <2>3. \A n \in Message \ {m} : issued'[n] = issued[n]
    <3>1. issued' = issued \/ \E i : issued' = [issued EXCEPT ![m] = @ \cup {i}]
        BY Zenon, <2>1, NextGivesOne DEF Message
    <3> QED  BY <3>1 DEF SnowTypeOK, Message
  <2>4. \A n \in Saved : MsgId(n)' = MsgId(n)
      BY Zenon, <2>1, <2>3 DEF MsgId, Saved
  <2> QED  BY Zenon, <1>2, <1>3, <1>4, <2>1, <2>2, <2>4, WritersKeep
<1>8. CASE Stamp(m)
  <2>1. /\ step[m] = "stamp" /\ \A n \in Message \ {m} : step'[n] = step[n]
        /\ ts' = [ts EXCEPT ![m] = wall] /\ UNCHANGED <<issued, rows>> /\ wall \in Nat
      BY <1>5, <1>8 DEF Stamp, Goes, snowVars, SnowTypeOK
  <2>2. Saved \subseteq Saved' /\ m \notin Saved
      BY Zenon, <2>1 DEF Saved
  <2>3. ts' \in [Message -> Nat] /\ \A n \in Message \ {m} : ts'[n] = ts[n]
      BY Zenon, <1>4, <2>1
  <2>4. \A n \in Saved : MsgId(n)' = MsgId(n) /\ ts'[n] = ts[n]
      BY Zenon, <2>1, <2>2, <2>3 DEF MsgId, Saved
  <2> QED  BY Zenon, <1>2, <1>3, <1>4, <2>1, <2>2, <2>3, <2>4, WritersKeep
<1>9. CASE Save(m)
  <2>1. /\ step[m] = "save" /\ step' = [step EXCEPT ![m] = "saved"]
        /\ rows' \in SUBSET (rows \cup {m}) /\ UNCHANGED <<issued, ts>>
      BY <1>9 DEF Save, Goes, snowVars
  <2>2. Saved \subseteq Saved' /\ m \notin Saved
      BY <1>5, <2>1 DEF Saved
  <2>3. IsFiniteSet(rows')
    <3>1. IsFiniteSet(rows \cup {m})
        BY Zenon, <1>4, FS_AddElement
    <3> QED  BY <2>1, <3>1, FS_Subset
  <2>4. \A n \in Saved : MsgId(n)' = MsgId(n) /\ ts'[n] = ts[n] /\ (n \in rows' => n \in rows)
      BY Zenon, <2>1, <2>2 DEF MsgId
  <2> QED  BY Zenon, <1>2, <1>3, <1>4, <2>1, <2>2, <2>3, <2>4, WritersKeep
<1> QED  BY Zenon, <1>1, <1>6, <1>7, <1>8, <1>9

\* The pages.
LEMMA ReadKeeps ==
    ASSUME SnowTypeOK, AccountsTypeOK, KeptInv, ReadersInv, NEW p \in Person, Read(p)
    PROVE  ReadersInv'
<1>1. ASSUME Unwritten PROVE Still
    BY <1>1 DEF Unwritten, Still, snowVars, timelineVars, accountVars
<1>2. rows \subseteq Message
    BY Zenon DEF KeptInv
<1>3. ASSUME NEW page \in SUBSET rows, NEW mode \in ByTime, HandleHistory(p, mode, page)
      PROVE  ReadersInv'
  <2>1. Still /\ Reading(p, mode) /\ TimePage(mode, page)
      BY <1>1, <1>3 DEF HandleHistory
  <2>2. CASE Older(page)
      BY Zenon, <2>1, <2>2, OlderKeeps
  <2>3. ASSUME NEW sent \in SUBSET page,
               CutShort(sent, Before(sent), Cardinality(sent) < listing.limit)
        PROVE  ReadersInv'
    <3>1. sent \in SUBSET Message /\ listing # NoListing /\ listing.from \in Nat
          /\ ts \in [Message -> Nat]
        BY <1>2, <2>1 DEF Reading, ReadersInv, Listing
    <3>2. sent # {} => Last(sent) # {}
        BY <3>1, LastExists
    <3>3. Before(sent) \in Nat
        BY <3>1, <3>2 DEF Before, Last
    <3> DEFINE short == Cardinality(sent) < listing.limit
    <3>4. CutShort(sent, Before(sent), short) /\ short \in BOOLEAN
        BY <2>3
    <3> HIDE DEF short
    <3> QED  BY Zenon, <2>1, <3>1, <3>3, <3>4, CutShortKeeps
  <2> QED  BY Zenon, <1>3, <2>2, <2>3 DEF HandleHistory
<1>4. ASSUME NEW page \in SUBSET rows, HandleAdminMessages(p, page)
      PROVE  ReadersInv'
  <2>1. "browse" \in ByTime /\ Still
      BY <1>1, <1>4 DEF ByTime, HandleAdminMessages
  <2> QED  BY <1>4, <2>1, OlderKeeps DEF HandleAdminMessages, BrowseMessages
<1>5. ASSUME NEW page \in SUBSET rows, NEW last \in Message, HandleSearchWs(p, page, last)
      PROVE  ReadersInv'
  <2>1. "search" \in Search /\ Still /\ Reading(p, "search") /\ SearchPage(page, last)
      BY <1>1, <1>5 DEF Search, HandleSearchWs
  <2>2. CASE CutShort({}, 0, TRUE)
    <3>1. listing # NoListing
        BY Zenon, <2>1 DEF Reading
    <3> QED  BY Zenon, <2>1, <2>2, <3>1, CutShortKeeps
  <2> QED  BY Zenon, <1>5, <2>1, <2>2, SearchKeeps DEF HandleSearchWs
<1>6. ASSUME NEW page \in SUBSET rows, NEW last \in Message, HandleSearch(p, page, last)
      PROVE  ReadersInv'
  <2>1. "search-http" \in Search /\ Still /\ Reading(p, "search-http")
      BY <1>1, <1>6 DEF Search, HandleSearch
  <2>2. CASE UNCHANGED listing
      BY Zenon, <2>1, <2>2, StillKeeps
  <2> QED  BY Zenon, <1>6, <2>1, <2>2, SearchKeeps DEF HandleSearch
<1>7. ASSUME NEW skipped \in SUBSET Account, NEW page \in SUBSET Account,
             HandleAdminUsers(p, skipped, page)
      PROVE  ReadersInv'
    BY Zenon, <1>7, UsersPageKeeps
<1> QED  BY Zenon, <1>3, <1>4, <1>5, <1>6, <1>7 DEF Read

\* The requests that concern accounts.
LEMMA RequestsKeep ==
    ASSUME SnowTypeOK, AccountsTypeOK, ReadersInv,
           \/ Start
           \/ \E p \in Person : \/ AccountRequest(p) \/ FinishChange(p)
                                \/ \E target \in Account : DeleteUser(p, target)
    PROVE  ReadersInv'
<1>1. UNCHANGED <<issued, step, ts, rows>>
    BY DEF Start, AccountRequest, FinishChange, DeleteUser, snowVars, timelineVars
<1>2. CASE users' = users /\ listing' = listing
    BY <1>1, <1>2, StillKeeps DEF Still
<1>3. ASSUME NEW p \in Person, AccountRequest(p) PROVE ReadersInv'
  <2>1. listing' = listing
      BY Zenon, <1>3 DEF AccountRequest
  <2>2. ASSUME NEW u \in Account, NEW late \in 0 .. MaxLate, late <= wall,
               HandleRegister(p, u, wall - late)
        PROVE  ReadersInv'
    <3>1. NewRow(p, wall - late) \in Row
        BY <2>2 DEF NewRow, Row, Password, Role, SnowTypeOK
    <3>2. ~Exists(u) /\ users' = [users EXCEPT ![u] = NewRow(p, wall - late)]
        BY Zenon, <2>2 DEF HandleRegister
    <3>3. users' \in [Account -> Row \cup {NoRow}] /\ \A v \in Account \ {u} : users'[v] = users[v]
        BY <3>1, <3>2 DEF AccountsTypeOK
    <3> QED  BY Zenon, <1>1, <2>1, <3>2, <3>3, AccountKeeps
  <2>3. CASE users' = users
      BY <1>2, <2>1, <2>3
  <2> QED  BY Zenon, <1>3, <2>2, <2>3 DEF AccountRequest, ChangeCheck, TokenExpires, HandleLogin,
              HandleLoginDev
<1>4. ASSUME NEW p \in Person, FinishChange(p) PROVE ReadersInv'
  <2>1. listing' = listing /\ ChangeUpdate(p)
      BY <1>4 DEF FinishChange, archiveVars
  <2>2. CASE users' = users
      BY <1>2, <2>1, <2>2
  <2>3. CASE /\ Exists(change[p].uid)
             /\ users' = [users EXCEPT ![change[p].uid].password = change[p].new]
    <3>1. PICK u \in Account : u = change[p].uid /\ change[p].new \in Password
        BY <2>1 DEF ChangeUpdate, AccountsTypeOK, Change
    <3> DEFINE r == [users[u] EXCEPT !.password = change[p].new]
    <3>2. users[u] \in Row
        BY <2>3, <3>1 DEF Exists, AccountsTypeOK
    <3>3. r \in Row /\ r.created = users[u].created
        BY <3>1, <3>2 DEF Row
    <3>4. users' = [users EXCEPT ![u] = r]
        BY Zenon, <2>3, <3>1
    <3> HIDE DEF r
    <3>5. users' \in [Account -> Row \cup {NoRow}] /\ users'[u] = r
          /\ \A v \in Account \ {u} : users'[v] = users[v]
        BY <3>1, <3>3, <3>4 DEF AccountsTypeOK
    <3>6. Exists(u)' /\ Created(u)' = Created(u)
        BY Zenon, <3>3, <3>5, AccountsAssumption DEF Exists, Created, AccountsAssumption
    <3> QED  BY Zenon, <1>1, <2>1, <3>1, <3>5, <3>6, AccountKeeps
  <2> QED  BY Zenon, <2>1, <2>2, <2>3 DEF ChangeUpdate
<1>5. CASE Start
  <2>1. PICK u \in Account : Promote(u)
      BY <1>5 DEF Start
  <2> DEFINE r == [users[u] EXCEPT !.role = "admin"]
  <2>2. users[u] \in Row /\ users' = [users EXCEPT ![u] = r] /\ listing' = listing
      BY Zenon, <1>5, <2>1 DEF Start, Promote, Exists, AccountsTypeOK
  <2>3. r \in Row /\ r.created = users[u].created
      BY Zenon, <2>2 DEF Row, Role
  <2> HIDE DEF r
  <2>4. users' \in [Account -> Row \cup {NoRow}] /\ users'[u] = r
        /\ \A v \in Account \ {u} : users'[v] = users[v]
      BY <2>2, <2>3 DEF AccountsTypeOK
  <2>5. Exists(u)' /\ Created(u)' = Created(u)
      BY Zenon, <2>3, <2>4, AccountsAssumption DEF Exists, Created, AccountsAssumption
  <2> QED  BY Zenon, <1>1, <2>1, <2>2, <2>4, <2>5, AccountKeeps
<1>6. ASSUME NEW p \in Person, NEW target \in Account, DeleteUser(p, target) PROVE ReadersInv'
  <2>1. users' = [users EXCEPT ![target] = NoRow]
      BY <1>6 DEF DeleteUser, HandleAdminUserDelete
  <2>2. IsFiniteSet(Registered')
    <3>1. Registered' \in SUBSET Registered
        BY Zenon, <2>1 DEF Registered, Exists, AccountsTypeOK
    <3> QED  BY Zenon, <3>1, FS_Subset DEF ReadersInv
  <2>3. ts' \in [Message -> Nat] /\ IsFiniteSet(rows')
      BY <1>1 DEF ReadersInv
  <2>4. CASE listing # NoListing /\ listing.mode = "users"
    <3>1. listing \in Listing /\ listing' = [listing EXCEPT !.broken = TRUE]
        BY <1>6, <2>4 DEF DeleteUser, ReadersInv
    <3>2. listing' \in Listing /\ listing'.broken = TRUE /\ listing'.mode = "users"
        BY Zenon, <2>4, <3>1 DEF Listing
    <3> QED  BY Zenon, <2>2, <2>3, <3>2 DEF ReadersInv, OfSaved, HistoryPlace, SearchPlace, UsersPlace, Whole
  <2>5. CASE ~(listing # NoListing /\ listing.mode = "users")
    <3>1. listing' = listing
        BY <1>6, <2>5 DEF DeleteUser
    <3>2. UsersPlace'
        BY Zenon, <2>5, <3>1 DEF UsersPlace, Whole
    <3>3. OfSaved' /\ HistoryPlace' /\ SearchPlace'
      <4>1. ts' = ts /\ rows' = rows /\ Saved' = Saved /\ \A m : MsgId(m)' = MsgId(m)
          BY Zenon, <1>1 DEF Saved, MsgId
      <4> QED  BY Zenon, <3>1, <4>1 DEF ReadersInv, OfSaved, HistoryPlace, SearchPlace, Whole
    <3> QED  BY Zenon, <2>2, <2>3, <3>1, <3>2, <3>3 DEF ReadersInv
  <2> QED  BY <2>4, <2>5
<1> QED  BY <1>3, <1>4, <1>5, <1>6

\* Every step of the composition leaves the readers in their places.
LEMMA ReadersSteps ==
    ASSUME SnowTypeOK, AccountsTypeOK, KeptInv, ReadersInv, [Next]_vars PROVE ReadersInv'
<1>1. ASSUME NEW p \in Person, NEW m \in Message, HandleAdminMessageDelete(p, m)
      PROVE  ReadersInv'
  <2>1. rows' = rows \ {m} /\ UNCHANGED <<issued, step, ts, listing, users>>
      BY <1>1 DEF HandleAdminMessageDelete, snowVars, accountVars
  <2>2. /\ Registered' = Registered /\ Saved' = Saved /\ \A u : Created(u)' = Created(u)
        /\ \A n : MsgId(n)' = MsgId(n)
      BY Zenon, <2>1 DEF Registered, Exists, Saved, Created, MsgId
  <2>3. ts' \in [Message -> Nat] /\ IsFiniteSet(rows') /\ IsFiniteSet(Registered')
      BY <2>1, <2>2, FS_RemoveElement DEF ReadersInv
  <2> QED  BY Zenon, <2>1, <2>2, <2>3, WritersKeep
<1>2. CASE Environment
  <2>1. Still /\ listing' = listing
      BY Zenon, <1>2 DEF Environment, Elapse, SetBack, Forget, Tick, StepBack, Still, snowVars,
             timelineVars, accountVars
  <2> QED  BY Zenon, <2>1, StillKeeps
<1>3. CASE UNCHANGED vars
  <2>1. Still /\ listing' = listing
      BY <1>3 DEF vars, Still, snowVars, timelineVars, accountVars, archiveVars
  <2> QED  BY <2>1, StillKeeps
<1> QED  BY Zenon, <1>1, <1>2, <1>3, PostKeeps, ReadKeeps, OpenKeeps, RequestsKeep DEF Next

\* The readers' invariant holds always.
LEMMA ReadersInvariant == Spec => []ReadersInv
<1>1. Spec => []SnowTypeOK /\ []AccountsTypeOK /\ []KeptInv
    BY CompositionTypes, KeptInvariant, PTL
<1>2. Init => ReadersInv
  <2> SUFFICES ASSUME Init PROVE ReadersInv
      OBVIOUS
  <2>1. listing = NoListing /\ rows = {} /\ Registered = {} /\ ts = [m \in Message |-> 0]
      BY DEF Init, TimelineInit, AccountsInit, Registered, Exists
  <2>2. IsFiniteSet(rows) /\ IsFiniteSet(Registered)
      BY <2>1, FS_EmptySet
  <2> QED  BY Zenon, <2>1, <2>2 DEF ReadersInv, OfSaved, HistoryPlace, SearchPlace, UsersPlace, Whole
<1> QED  BY <1>1, <1>2, ReadersSteps, PTL DEF Spec

\* A history that is read to its end, while others write and delete, shows every
\* message that it should, but for those of the millisecond at which a page ended.
THEOREM HistoryHolds == Spec => []HistoryComplete
<1>1. ReadersInv => HistoryComplete
    BY Zenon DEF ReadersInv, HistoryPlace, Whole, HistoryComplete, Finished
<1> QED  BY <1>1, ReadersInvariant, PTL

\* A search that is followed to its end shows every match, but for those on which
\* the order of the pages and the cursor disagree.
THEOREM SearchHolds == Spec => []SearchComplete
<1>1. ReadersInv => SearchComplete
    BY Zenon DEF ReadersInv, SearchPlace, Whole, SearchComplete, Finished
<1> QED  BY <1>1, ReadersInvariant, PTL

\* The list of users that is read to its end shows everyone, whoever registers
\* meanwhile, but for users created in the millisecond at which a page ended.
THEOREM UsersHold == Spec => []UsersListed
<1>1. ReadersInv => UsersListed
    BY DEF ReadersInv, UsersPlace, Whole, UsersListed, Finished
<1> QED  BY <1>1, ReadersInvariant, PTL
=============================================================================
