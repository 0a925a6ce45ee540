-------------------------- MODULE ForwardingProofs --------------------------
(***************************************************************************)
(* How messages get from one gateway to another: for any finite number of  *)
(* gateways, any messages, any limit of the queues and any number of       *)
(* failed Redis calls, a message is lost, and is copied, for the reasons   *)
(* LossHasReason and CopyHasReason name.  Neither is inductive: the        *)
(* invariant counts the handlers that still have the message together with *)
(* its copies, because each of them will make one.                         *)
(***************************************************************************)
EXTENDS Forwarding, Integers, WellFoundedInduction, TLAPS

-----------------------------------------------------------------------------
(* Forwarding: counting the copies of a message                            *)

INSTANCE FiniteSetTheorems

Positions(q, m) == {i \in DOMAIN q : q[i] = m}

\* Two sets of places that a shift maps onto each other are equally large.
LEMMA SameNumber ==
    ASSUME NEW S, NEW T, IsFiniteSet(S), NEW f \in [S -> T],
           \A x, y \in S : f[x] = f[y] => x = y,
           \A y \in T : \E x \in S : f[x] = y
    PROVE  IsFiniteSet(T) /\ Cardinality(T) = Cardinality(S)
<1>1. f \in Bijection(S, T)
    BY DEF Bijection, Injection, Surjection, IsInjective
<1>2. ExistsBijection(S, T)
    BY <1>1 DEF ExistsBijection
<1> QED  BY <1>2, FS_Bijection

\* The copies of a message in a queue can be counted.
LEMMA OccurrencesType ==
    ASSUME NEW q \in Seq(Msg), NEW m
    PROVE  /\ IsFiniteSet(Positions(q, m)) /\ Occurrences(q, m) = Cardinality(Positions(q, m))
           /\ Occurrences(q, m) \in Nat
           /\ Occurrences(q, m) = 0 <=> \A i \in DOMAIN q : q[i] # m
<1>1. Len(q) \in Nat /\ DOMAIN q = 1..Len(q)
    OBVIOUS
<1>2. IsFiniteSet(1..Len(q))
    BY <1>1, FS_Interval
<1>3. IsFiniteSet(Positions(q, m))
  <2>1. Positions(q, m) \in SUBSET (1..Len(q))
      BY <1>1 DEF Positions
  <2> QED  BY <1>2, <2>1, FS_Subset
<1>4. Occurrences(q, m) = Cardinality(Positions(q, m))
    BY DEF Occurrences, Positions
<1>5. Cardinality(Positions(q, m)) = 0 <=> Positions(q, m) = {}
    BY <1>3, FS_EmptySet
<1> QED  BY <1>3, <1>4, <1>5, FS_CardinalityType DEF Positions

\* Append adds one copy of its message.
LEMMA OccurrencesAppend ==
    ASSUME NEW q \in Seq(Msg), NEW x \in Msg, NEW m
    PROVE  Occurrences(Append(q, x), m) = Occurrences(q, m) + IF x = m THEN 1 ELSE 0
<1> DEFINE r == Append(q, x)
<1>1. /\ r \in Seq(Msg) /\ Len(q) \in Nat /\ DOMAIN q = 1..Len(q) /\ DOMAIN r = 1..(Len(q) + 1)
      /\ r[Len(q) + 1] = x /\ \A i \in 1..Len(q) : r[i] = q[i]
    OBVIOUS
<1> HIDE DEF r
<1>2. CASE x = m
  <2>1. Positions(r, m) = Positions(q, m) \cup {Len(q) + 1}
      BY <1>1, <1>2 DEF Positions
  <2>2. Len(q) + 1 \notin Positions(q, m)
      BY <1>1 DEF Positions
  <2>3. Cardinality(Positions(r, m)) = Cardinality(Positions(q, m)) + 1
      BY Zenon, <2>1, <2>2, OccurrencesType, FS_AddElement
  <2> QED  BY Zenon, <1>1, <1>2, <2>3, OccurrencesType DEF r
<1>3. CASE x # m
  <2>1. Positions(r, m) = Positions(q, m)
      BY <1>1, <1>3 DEF Positions
  <2>2. Occurrences(r, m) = Occurrences(q, m) /\ Occurrences(q, m) \in Nat
      BY <1>1, <2>1, OccurrencesType
  <2> QED  BY <1>3, <2>2 DEF r
<1> QED  BY <1>2, <1>3

\* Cutting a queue in two loses no copy and makes none.
LEMMA OccurrencesSplit ==
    ASSUME NEW q \in Seq(Msg), NEW k \in 0..Len(q), NEW m
    PROVE  /\ SubSeq(q, 1, k) \in Seq(Msg) /\ SubSeq(q, k + 1, Len(q)) \in Seq(Msg)
           /\ Len(SubSeq(q, 1, k)) = k /\ Len(SubSeq(q, k + 1, Len(q))) = Len(q) - k
           /\ Occurrences(SubSeq(q, 1, k), m) + Occurrences(SubSeq(q, k + 1, Len(q)), m)
                = Occurrences(q, m)
<1> DEFINE a == SubSeq(q, 1, k)
           b == SubSeq(q, k + 1, Len(q))
<1>0. Len(q) \in Nat /\ k \in Nat /\ k <= Len(q) /\ DOMAIN q = 1..Len(q)
    OBVIOUS
<1>1. a \in Seq(Msg) /\ Len(a) = k /\ DOMAIN a = 1..k /\ \A i \in 1..k : a[i] = q[i]
    BY <1>0
<1>2. /\ b \in Seq(Msg) /\ Len(b) = Len(q) - k /\ DOMAIN b = 1..(Len(q) - k)
      /\ \A i \in 1..(Len(q) - k) : b[i] = q[k + i]
  <2>1. b = [i \in 1..(Len(q) - (k + 1) + 1) |-> q[i + (k + 1) - 1]]
      BY <1>0
  <2>2. Len(q) - (k + 1) + 1 = Len(q) - k /\ Len(q) - k \in Nat
      BY <1>0
  <2>3. \A i \in 1..(Len(q) - k) : i + (k + 1) - 1 = k + i /\ k + i \in 1..Len(q)
      BY <1>0
  <2>4. b = [i \in 1..(Len(q) - k) |-> q[k + i]]
      BY <2>1, <2>2, <2>3
  <2> HIDE DEF b
  <2> QED  BY <2>2, <2>3, <2>4
<1> HIDE DEF a, b
<1> DEFINE late == {i \in Positions(q, m) : i > k}
<1>3. Cardinality(late) = Cardinality(Positions(b, m)) /\ IsFiniteSet(late)
  <2> DEFINE f == [i \in Positions(b, m) |-> k + i]
  <2>1. f \in [Positions(b, m) -> late]
      BY <1>0, <1>2 DEF Positions
  <2>2. \A i, j \in Positions(b, m) : f[i] = f[j] => i = j
      BY <1>0, <1>2 DEF Positions
  <2>3. ASSUME NEW j \in late PROVE \E i \in Positions(b, m) : f[i] = j
    <3>1. j \in 1..Len(q) /\ q[j] = m /\ j > k
        BY <1>0 DEF Positions
    <3>2. j - k \in 1..(Len(q) - k) /\ k + (j - k) = j
        BY <1>0, <3>1
    <3>3. j - k \in Positions(b, m)
        BY <1>2, <3>1, <3>2 DEF Positions
    <3> QED  BY <3>2, <3>3
  <2>4. IsFiniteSet(Positions(b, m))
      BY <1>2, OccurrencesType
  <2> HIDE DEF f, late
  <2> QED  BY <2>1, <2>2, <2>3, <2>4, SameNumber
<1>4. Positions(q, m) = Positions(a, m) \cup late /\ Positions(a, m) \cap late = {}
    BY <1>0, <1>1 DEF Positions
<1>5. IsFiniteSet(Positions(a, m)) /\ Cardinality(Positions(a, m)) \in Nat /\ Cardinality(late) \in Nat
    BY <1>1, <1>3, OccurrencesType, FS_CardinalityType
<1>6. Cardinality(Positions(q, m)) = Cardinality(Positions(a, m)) + Cardinality(late)
  <2> HIDE DEF late
  <2>1. Cardinality(Positions(a, m) \cap late) = 0
      BY Zenon, <1>4, FS_EmptySet
  <2>2. Cardinality(Positions(a, m) \cup late)
          = Cardinality(Positions(a, m)) + Cardinality(late) - Cardinality(Positions(a, m) \cap late)
      BY <1>3, <1>5, FS_Union
  <2> QED  BY <1>4, <1>5, <2>1, <2>2
<1>7. Occurrences(a, m) + Occurrences(b, m) = Occurrences(q, m)
    BY <1>1, <1>2, <1>3, <1>6, OccurrencesType
<1> QED  BY <1>1, <1>2, <1>7 DEF a, b

\* A full list gives up its oldest messages: what it keeps and what it cuts off
\* is what there was.
LEMMA KeptAndCut ==
    ASSUME NEW q \in Seq(Msg)
    PROVE  /\ Kept(q) \in Seq(Msg) /\ Len(Kept(q)) <= OfflineMaxSize /\ Cut(q) \in Seq(Msg)
           /\ \A m : Occurrences(Kept(q), m) + Occurrences(Cut(q), m) = Occurrences(q, m)
<1> DEFINE k == IF Len(q) > OfflineMaxSize THEN Len(q) - OfflineMaxSize ELSE 0
<1>1. Len(q) \in Nat /\ OfflineMaxSize \in Nat
    BY ForwardingAssumption DEF ForwardingAssumption
<1>2. k \in 0..Len(q) /\ Len(q) - k <= OfflineMaxSize
    BY <1>1
<1>3. Kept(q) = SubSeq(q, k + 1, Len(q)) /\ Cut(q) = SubSeq(q, 1, k)
    BY <1>1 DEF Kept, Cut
<1> HIDE DEF k
<1>4. \A m : Occurrences(Kept(q), m) \in Nat /\ Occurrences(Cut(q), m) \in Nat
    BY Zenon, <1>2, <1>3, OccurrencesSplit, OccurrencesType
<1> QED  BY <1>2, <1>3, <1>4, OccurrencesSplit

\* Only one queue in the memory of the gateways changes at a time.
LEMMA MemoryChange ==
    ASSUME FwdTypeOK, NEW g \in Gateway, NEW r \in Seq(Msg), Len(r) <= OfflineMaxSize,
           hubq' = [hubq EXCEPT ![g] = r], NEW m
    PROVE  /\ Cardinality(InMemory(m)) \in Nat /\ Cardinality(InMemory(m)') \in Nat
           /\ Cardinality(InMemory(m)') + Occurrences(hubq[g], m)
                = Cardinality(InMemory(m)) + Occurrences(r, m)
<1> DEFINE Cells == Gateway \X (1..OfflineMaxSize)
           Of(q) == {p \in Cells : p[1] = g /\ p[2] \in Positions(q, m)}
           other == {p \in InMemory(m) : p[1] # g}
<1>1. /\ OfflineMaxSize \in Nat /\ hubq[g] \in Seq(Msg) /\ Len(hubq[g]) <= OfflineMaxSize
      /\ hubq'[g] = r /\ \A h \in Gateway \ {g} : hubq'[h] = hubq[h]
    BY ForwardingAssumption DEF ForwardingAssumption, FwdTypeOK
<1>2. IsFiniteSet(Cells)
  <2>1. IsFiniteSet(1..OfflineMaxSize)
      BY <1>1, FS_Interval
  <2> QED  BY <2>1, ForwardingAssumption, FS_Product DEF ForwardingAssumption
<1>3. ASSUME NEW q \in Seq(Msg), Len(q) <= OfflineMaxSize
      PROVE  /\ IsFiniteSet(Of(q)) /\ Cardinality(Of(q)) = Occurrences(q, m)
             /\ \A p \in Cells : p \in Of(q) <=> p[1] = g /\ p[2] <= Len(q) /\ q[p[2]] = m
  <2> DEFINE f == [i \in Positions(q, m) |-> <<g, i>>]
  <2>1. Len(q) \in Nat /\ DOMAIN q = 1..Len(q) /\ Positions(q, m) \subseteq 1..OfflineMaxSize
      BY <1>1, <1>3 DEF Positions
  <2>2. f \in [Positions(q, m) -> Of(q)]
      BY <2>1
  <2>3. \A i, j \in Positions(q, m) : f[i] = f[j] => i = j
      OBVIOUS
  <2>4. ASSUME NEW p \in Of(q) PROVE \E i \in Positions(q, m) : f[i] = p
    <3>1. p = <<p[1], p[2]>> /\ p[1] = g /\ p[2] \in Positions(q, m)
        OBVIOUS
    <3> QED  BY <3>1
  <2>5. IsFiniteSet(Positions(q, m))
      BY OccurrencesType
  <2>6. \A p \in Cells : p \in Of(q) <=> p[1] = g /\ p[2] <= Len(q) /\ q[p[2]] = m
      BY <2>1 DEF Positions
  <2> HIDE DEF f, Of
  <2>7. IsFiniteSet(Of(q)) /\ Cardinality(Of(q)) = Cardinality(Positions(q, m))
      BY <2>2, <2>3, <2>4, <2>5, SameNumber
  <2> QED  BY <2>6, <2>7, OccurrencesType
<1>4. \A p \in Cells : p[1] \in Gateway
    OBVIOUS
<1>5. InMemory(m) = {p \in Cells : p[2] <= Len(hubq[p[1]]) /\ hubq[p[1]][p[2]] = m}
    BY DEF InMemory
<1>6. InMemory(m)' = {p \in Cells : p[2] <= Len(hubq'[p[1]]) /\ hubq'[p[1]][p[2]] = m}
    BY DEF InMemory
<1>7. /\ IsFiniteSet(Of(hubq[g])) /\ Cardinality(Of(hubq[g])) = Occurrences(hubq[g], m)
      /\ \A p \in Cells : p \in Of(hubq[g]) <=> p[1] = g /\ p[2] <= Len(hubq[g]) /\ hubq[g][p[2]] = m
    BY Zenon, <1>1, <1>3
<1>8. /\ IsFiniteSet(Of(r)) /\ Cardinality(Of(r)) = Occurrences(r, m)
      /\ \A p \in Cells : p \in Of(r) <=> p[1] = g /\ p[2] <= Len(r) /\ r[p[2]] = m
    BY <1>3
<1>9. Of(hubq[g]) \subseteq Cells /\ Of(r) \subseteq Cells
    OBVIOUS
<1> HIDE DEF Cells, Of
<1>10. InMemory(m) = other \cup Of(hubq[g]) /\ other \cap Of(hubq[g]) = {}
    BY <1>5, <1>7, <1>9
<1>11. InMemory(m)' = other \cup Of(r) /\ other \cap Of(r) = {}
  <2>1. \A p \in Cells : p[1] # g => (p \in InMemory(m)' <=> p \in InMemory(m))
      BY <1>1, <1>4, <1>5, <1>6
  <2>2. \A p \in Cells : p[1] = g => (p \in InMemory(m)' <=> p \in Of(r))
      BY <1>1, <1>6, <1>8
  <2> QED  BY <1>5, <1>6, <1>8, <1>9, <2>1, <2>2
<1>12. IsFiniteSet(other) /\ Cardinality(other) \in Nat
  <2>1. other \in SUBSET Cells
      BY <1>5
  <2>2. IsFiniteSet(other)
      BY <1>2, <2>1, FS_Subset
  <2> QED  BY <2>2, FS_CardinalityType
<1> HIDE DEF other
<1>13. ASSUME NEW S, IsFiniteSet(S), other \cap S = {}
       PROVE  Cardinality(other \cup S) = Cardinality(other) + Cardinality(S) /\ Cardinality(S) \in Nat
  <2>1. Cardinality(other \cap S) = 0
      BY Zenon, <1>13, FS_EmptySet
  <2>2. Cardinality(S) \in Nat
      BY <1>13, FS_CardinalityType
  <2>3. Cardinality(other \cup S) = Cardinality(other) + Cardinality(S) - Cardinality(other \cap S)
      BY <1>12, <1>13, FS_Union
  <2> QED  BY <1>12, <2>1, <2>2, <2>3
<1>14. /\ Cardinality(InMemory(m)) = Cardinality(other) + Occurrences(hubq[g], m)
       /\ Occurrences(hubq[g], m) \in Nat
    BY <1>7, <1>10, <1>13
<1>15. /\ Cardinality(InMemory(m)') = Cardinality(other) + Occurrences(r, m)
       /\ Occurrences(r, m) \in Nat
    BY <1>8, <1>11, <1>13
<1> QED  BY <1>12, <1>14, <1>15

\* The copies in memory can be counted.
LEMMA MemoryType ==
    ASSUME FwdTypeOK, NEW m
    PROVE  Cardinality(InMemory(m)) \in Nat
<1>1. IsFiniteSet(1..OfflineMaxSize)
    BY ForwardingAssumption, FS_Interval DEF ForwardingAssumption
<1>2. IsFiniteSet(Gateway \X (1..OfflineMaxSize))
    BY <1>1, ForwardingAssumption, FS_Product DEF ForwardingAssumption
<1>3. InMemory(m) \in SUBSET (Gateway \X (1..OfflineMaxSize))
    BY DEF InMemory
<1>4. IsFiniteSet(InMemory(m))
    BY <1>2, <1>3, FS_Subset
<1> QED  BY <1>4, FS_CardinalityType

\* StoreOffline adds its message to a list and trims the list.
LEMMA ListTakes ==
    ASSUME NEW l \in Seq(Msg), NEW m \in Msg
    PROVE  LET q == Append(l, m) IN
           /\ Kept(q) \in Seq(Msg) /\ Len(Kept(q)) <= OfflineMaxSize /\ Cut(q) \in Seq(Msg)
           /\ \A x \in Msg : /\ Occurrences(Kept(q), x) \in Nat /\ Occurrences(Cut(q), x) \in Nat
                             /\ Occurrences(l, x) \in Nat
                             /\ Occurrences(Kept(q), x) + Occurrences(Cut(q), x)
                                  = Occurrences(l, x) + IF m = x THEN 1 ELSE 0
<1> DEFINE q == Append(l, m)
<1>1. q \in Seq(Msg)
    OBVIOUS
<1>2. \A x \in Msg : Occurrences(q, x) = Occurrences(l, x) + IF m = x THEN 1 ELSE 0
    BY OccurrencesAppend
<1> HIDE DEF q
<1>3. Kept(q) \in Seq(Msg) /\ Len(Kept(q)) <= OfflineMaxSize /\ Cut(q) \in Seq(Msg)
    BY <1>1, KeptAndCut
<1>4. \A x \in Msg : Occurrences(Kept(q), x) + Occurrences(Cut(q), x) = Occurrences(q, x)
    BY <1>1, KeptAndCut
<1>5. \A x \in Msg : /\ Occurrences(Kept(q), x) \in Nat /\ Occurrences(Cut(q), x) \in Nat
                     /\ Occurrences(l, x) \in Nat
    BY <1>3, OccurrencesType
<1> QED  BY <1>2, <1>3, <1>4, <1>5 DEF q

\* Adding the messages of a list to a count.
LEMMA CountInType ==
    ASSUME NEW bag \in [Msg -> Nat], NEW q \in Seq(Msg)
    PROVE  /\ CountIn(bag, q) \in [Msg -> Nat]
           /\ \A x \in Msg : CountIn(bag, q)[x] = bag[x] + Occurrences(q, x)
<1>1. \A x \in Msg : Occurrences(q, x) \in Nat
    BY OccurrencesType
<1> QED  BY <1>1 DEF CountIn

\* The variables StoreOffline may change keep their types.
StoreTypes ==
    /\ redisq \in Seq(Msg) /\ Len(redisq) <= OfflineMaxSize
    /\ hubq \in [Gateway -> Seq(Msg)]
    /\ \A g \in Gateway : Len(hubq[g]) <= OfflineMaxSize
    /\ trimmed \in [Msg -> Nat] /\ doubled \in [Msg -> Nat]
    /\ faults \in 0..MaxFaults

\* StoreOffline makes one copy of its message, and a second one when a Redis call
\* took effect unnoticed.
LEMMA StoreAdds ==
    ASSUME FwdTypeOK, NEW g \in Gateway, NEW m \in Msg, StoreOffline(g, m), got' = got
    PROVE  /\ StoreTypes'
           /\ \E d \in {0, 1} :
                /\ doubled' = [doubled EXCEPT ![m] = @ + d]
                /\ \A x \in Msg : Copies(x)' = Copies(x) + IF m = x THEN 1 + d ELSE 0
<1>0. /\ redisq \in Seq(Msg) /\ hubq \in [Gateway -> Seq(Msg)] /\ hubq[g] \in Seq(Msg)
      /\ got \in [Msg -> Nat] /\ trimmed \in [Msg -> Nat] /\ doubled \in [Msg -> Nat]
      /\ faults \in 0..MaxFaults /\ MaxFaults \in Nat
    BY ForwardingAssumption DEF FwdTypeOK, ForwardingAssumption
<1> DEFINE q == Append(redisq, m)
           r == Append(Kept(q), m)
           l == Append(hubq[g], m)
<1>1. /\ Kept(q) \in Seq(Msg) /\ Len(Kept(q)) <= OfflineMaxSize /\ Cut(q) \in Seq(Msg)
      /\ \A x \in Msg : /\ Occurrences(Kept(q), x) \in Nat /\ Occurrences(Cut(q), x) \in Nat
                        /\ Occurrences(redisq, x) \in Nat
                        /\ Occurrences(Kept(q), x) + Occurrences(Cut(q), x)
                             = Occurrences(redisq, x) + IF m = x THEN 1 ELSE 0
    BY <1>0, ListTakes
<1>2. /\ Kept(r) \in Seq(Msg) /\ Len(Kept(r)) <= OfflineMaxSize /\ Cut(r) \in Seq(Msg)
      /\ \A x \in Msg : /\ Occurrences(Kept(r), x) \in Nat /\ Occurrences(Cut(r), x) \in Nat
                        /\ Occurrences(Kept(r), x) + Occurrences(Cut(r), x)
                             = Occurrences(Kept(q), x) + IF m = x THEN 1 ELSE 0
  <2> HIDE DEF q
  <2> QED  BY <1>1, ListTakes
<1>3. /\ Kept(l) \in Seq(Msg) /\ Len(Kept(l)) <= OfflineMaxSize /\ Cut(l) \in Seq(Msg)
      /\ \A x \in Msg : /\ Occurrences(Kept(l), x) \in Nat /\ Occurrences(Cut(l), x) \in Nat
                        /\ Occurrences(hubq[g], x) \in Nat
                        /\ Occurrences(Kept(l), x) + Occurrences(Cut(l), x)
                             = Occurrences(hubq[g], x) + IF m = x THEN 1 ELSE 0
    BY <1>0, ListTakes
<1>4. \A x \in Msg : Cardinality(InMemory(x)) \in Nat
    BY MemoryType
<1>5. hubq' = hubq => \A x \in Msg : InMemory(x)' = InMemory(x)
    BY DEF InMemory
<1>6. hubq' = [hubq EXCEPT ![g] = Kept(l)] =>
        \A x \in Msg : /\ Cardinality(InMemory(x)') \in Nat
                       /\ Cardinality(InMemory(x)') + Occurrences(hubq[g], x)
                            = Cardinality(InMemory(x)) + Occurrences(Kept(l), x)
  <2> HIDE DEF l
  <2> QED  BY Zenon, <1>3, MemoryChange
<1>7. \A x \in Msg : /\ got'[x] = got[x] /\ got[x] \in Nat /\ trimmed[x] \in Nat
                     /\ Copies(x) = got[x] + Occurrences(redisq, x) + trimmed[x] + Cardinality(InMemory(x))
                     /\ Copies(x)' = got'[x] + Occurrences(redisq', x) + trimmed'[x]
                                       + Cardinality(InMemory(x)')
    BY <1>0 DEF Copies, Occurrences
<1>8. CountIn(trimmed, Cut(q)) \in [Msg -> Nat]
      /\ \A x \in Msg : CountIn(trimmed, Cut(q))[x] = trimmed[x] + Occurrences(Cut(q), x)
    BY Zenon, <1>0, <1>1, CountInType
<1>9. CountIn(trimmed, Cut(l)) \in [Msg -> Nat]
      /\ \A x \in Msg : CountIn(trimmed, Cut(l))[x] = trimmed[x] + Occurrences(Cut(l), x)
    BY Zenon, <1>0, <1>3, CountInType
<1>10. ASSUME NEW bag \in [Msg -> Nat], NEW c \in Seq(Msg)
       PROVE  CountIn(bag, c) \in [Msg -> Nat]
              /\ \A x \in Msg : CountIn(bag, c)[x] = bag[x] + Occurrences(c, x)
    BY CountInType
<1>11. ASSUME Fault PROVE faults' \in 0..MaxFaults
    BY <1>0, <1>11 DEF Fault
<1> HIDE DEF q, r, l
<1>12. \A x \in Msg : /\ got[x] \in Nat /\ trimmed[x] \in Nat /\ Occurrences(redisq, x) \in Nat
                      /\ Cardinality(InMemory(x)) \in Nat
    BY <1>0, <1>1, <1>4
<1>13. [doubled EXCEPT ![m] = @ + 1] \in [Msg -> Nat]
    BY <1>0
<1> DEFINE One1(x) == IF m = x THEN 1 ELSE 0
<1>14. \A x \in Msg : One1(x) \in Nat /\ (IF m = x THEN 1 + 0 ELSE 0) = One1(x)
                      /\ (IF m = x THEN 1 + 1 ELSE 0) = One1(x) + One1(x)
    OBVIOUS
<1>15. \A x \in Msg :
          /\ Occurrences(Kept(q), x) + Occurrences(Cut(q), x) = Occurrences(redisq, x) + One1(x)
          /\ Occurrences(Kept(r), x) + Occurrences(Cut(r), x) = Occurrences(Kept(q), x) + One1(x)
          /\ Occurrences(Kept(l), x) + Occurrences(Cut(l), x) = Occurrences(hubq[g], x) + One1(x)
    BY <1>1, <1>2, <1>3
<1> HIDE DEF One1
<1>16. CASE /\ redisq' = Kept(q) /\ trimmed' = CountIn(trimmed, Cut(q))
            /\ UNCHANGED <<hubq, doubled, faults>>
  <2>1. StoreTypes'
      BY Zenon, <1>1, <1>8, <1>16 DEF StoreTypes, FwdTypeOK
  <2>2. ASSUME NEW x \in Msg PROVE Copies(x)' = Copies(x) + One1(x)
    <3>1. InMemory(x)' = InMemory(x) /\ trimmed'[x] = trimmed[x] + Occurrences(Cut(q), x)
        BY <1>5, <1>8, <1>16
    <3>2. Copies(x)' = got[x] + Occurrences(Kept(q), x) + (trimmed[x] + Occurrences(Cut(q), x))
                         + Cardinality(InMemory(x))
        BY <1>7, <1>16, <3>1
    <3>3. Occurrences(Kept(q), x) \in Nat /\ Occurrences(Cut(q), x) \in Nat
        BY <1>1
    <3> QED  BY <1>7, <1>12, <1>14, <1>15, <3>2, <3>3
  <2>3. doubled' = [doubled EXCEPT ![m] = @ + 0]
      BY <1>0, <1>16
  <2> QED  BY <1>14, <2>1, <2>2, <2>3
<1>17. CASE /\ Fault /\ redisq' = Kept(r) /\ trimmed' = CountIn(CountIn(trimmed, Cut(q)), Cut(r))
            /\ doubled' = [doubled EXCEPT ![m] = @ + 1] /\ UNCHANGED hubq
  <2>1. trimmed' \in [Msg -> Nat]
        /\ \A x \in Msg : trimmed'[x] = trimmed[x] + Occurrences(Cut(q), x) + Occurrences(Cut(r), x)
    <3>1. PICK f, c : f = CountIn(trimmed, Cut(q)) /\ c = Cut(r) /\ trimmed' = CountIn(f, c)
        BY Zenon, <1>17
    <3>2. f \in [Msg -> Nat] /\ c \in Seq(Msg) /\ \A x \in Msg : f[x] = trimmed[x] + Occurrences(Cut(q), x)
        BY Zenon, <1>2, <1>8, <3>1
    <3>3. CountIn(f, c) \in [Msg -> Nat] /\ \A x \in Msg : CountIn(f, c)[x] = f[x] + Occurrences(c, x)
        BY Zenon, <1>10, <3>2
    <3> QED  BY Zenon, <3>1, <3>2, <3>3
  <2>2. faults' \in 0..MaxFaults
      BY <1>11, <1>17
  <2>3. StoreTypes'
      BY Zenon, <1>2, <1>13, <1>17, <2>1, <2>2 DEF StoreTypes, FwdTypeOK
  <2>4. ASSUME NEW x \in Msg PROVE Copies(x)' = Copies(x) + (One1(x) + One1(x))
    <3>1. InMemory(x)' = InMemory(x)
        BY <1>5, <1>17
    <3>2. Copies(x)' = got[x] + Occurrences(Kept(r), x)
                         + (trimmed[x] + Occurrences(Cut(q), x) + Occurrences(Cut(r), x))
                         + Cardinality(InMemory(x))
        BY <1>7, <1>17, <2>1, <3>1
    <3>3. /\ Occurrences(Kept(q), x) \in Nat /\ Occurrences(Cut(q), x) \in Nat
          /\ Occurrences(Kept(r), x) \in Nat /\ Occurrences(Cut(r), x) \in Nat
        BY <1>1, <1>2
    <3> QED  BY <1>7, <1>12, <1>14, <1>15, <3>2, <3>3
  <2> QED  BY <1>14, <1>17, <2>3, <2>4
<1>18. CASE /\ Fault /\ hubq' = [hubq EXCEPT ![g] = Kept(l)]
            /\ trimmed' = CountIn(trimmed, Cut(l)) /\ UNCHANGED <<redisq, doubled>>
  <2>1. faults' \in 0..MaxFaults
      BY <1>11, <1>18
  <2>2. StoreTypes'
      BY Zenon, <1>0, <1>3, <1>9, <1>18, <2>1 DEF StoreTypes, FwdTypeOK
  <2>3. ASSUME NEW x \in Msg PROVE Copies(x)' = Copies(x) + One1(x)
    <3>1. trimmed'[x] = trimmed[x] + Occurrences(Cut(l), x)
        BY <1>9, <1>18
    <3>2. /\ Cardinality(InMemory(x)') \in Nat
          /\ Cardinality(InMemory(x)') + Occurrences(hubq[g], x)
               = Cardinality(InMemory(x)) + Occurrences(Kept(l), x)
        BY <1>6, <1>18
    <3>3. Copies(x)' = got[x] + Occurrences(redisq, x) + (trimmed[x] + Occurrences(Cut(l), x))
                         + Cardinality(InMemory(x)')
        BY <1>7, <1>18, <3>1
    <3>4. /\ Occurrences(hubq[g], x) \in Nat /\ Occurrences(Cut(l), x) \in Nat
          /\ Occurrences(Kept(l), x) \in Nat
        BY <1>3
    <3>5. /\ got[x] \in Nat /\ trimmed[x] \in Nat /\ Occurrences(redisq, x) \in Nat
          /\ Cardinality(InMemory(x)) \in Nat /\ One1(x) \in Nat
          /\ Occurrences(Kept(l), x) + Occurrences(Cut(l), x) = Occurrences(hubq[g], x) + One1(x)
        BY Zenon, <1>12, <1>14, <1>15
    <3>6. Copies(x) = got[x] + Occurrences(redisq, x) + trimmed[x] + Cardinality(InMemory(x))
        BY <1>7
    <3> QED  BY <3>2, <3>3, <3>4, <3>5, <3>6
  <2>4. doubled' = [doubled EXCEPT ![m] = @ + 0]
      BY <1>0, <1>18
  <2> QED  BY <1>14, <2>2, <2>3, <2>4
<1>19. CASE /\ Fault /\ hubq' = [hubq EXCEPT ![g] = Kept(l)] /\ redisq' = Kept(q)
            /\ trimmed' = CountIn(CountIn(trimmed, Cut(l)), Cut(q))
            /\ doubled' = [doubled EXCEPT ![m] = @ + 1]
  <2>1. trimmed' \in [Msg -> Nat]
        /\ \A x \in Msg : trimmed'[x] = trimmed[x] + Occurrences(Cut(l), x) + Occurrences(Cut(q), x)
    <3>1. PICK f, c : f = CountIn(trimmed, Cut(l)) /\ c = Cut(q) /\ trimmed' = CountIn(f, c)
        BY Zenon, <1>19
    <3>2. f \in [Msg -> Nat] /\ c \in Seq(Msg) /\ \A x \in Msg : f[x] = trimmed[x] + Occurrences(Cut(l), x)
        BY Zenon, <1>1, <1>9, <3>1
    <3>3. CountIn(f, c) \in [Msg -> Nat] /\ \A x \in Msg : CountIn(f, c)[x] = f[x] + Occurrences(c, x)
        BY Zenon, <1>10, <3>2
    <3> QED  BY Zenon, <3>1, <3>2, <3>3
  <2>2. faults' \in 0..MaxFaults
      BY <1>11, <1>19
  <2>3. hubq' \in [Gateway -> Seq(Msg)] /\ \A h \in Gateway : Len(hubq'[h]) <= OfflineMaxSize
      BY Zenon, <1>0, <1>3, <1>19 DEF FwdTypeOK
  <2>4. StoreTypes'
      BY Zenon, <1>1, <1>13, <1>19, <2>1, <2>2, <2>3 DEF StoreTypes
  <2>5. ASSUME NEW x \in Msg PROVE Copies(x)' = Copies(x) + (One1(x) + One1(x))
    <3>1. /\ Cardinality(InMemory(x)') \in Nat
          /\ Cardinality(InMemory(x)') + Occurrences(hubq[g], x)
               = Cardinality(InMemory(x)) + Occurrences(Kept(l), x)
        BY <1>6, <1>19
    <3>2. Copies(x)' = got[x] + Occurrences(Kept(q), x)
                         + (trimmed[x] + Occurrences(Cut(l), x) + Occurrences(Cut(q), x))
                         + Cardinality(InMemory(x)')
        BY <1>7, <1>19, <2>1
    <3>3. /\ Occurrences(Kept(q), x) \in Nat /\ Occurrences(Cut(q), x) \in Nat
          /\ Occurrences(hubq[g], x) \in Nat /\ Occurrences(Cut(l), x) \in Nat
          /\ Occurrences(Kept(l), x) \in Nat
        BY Zenon, <1>1, <1>3
    <3>4. /\ got[x] \in Nat /\ trimmed[x] \in Nat /\ Occurrences(redisq, x) \in Nat
          /\ Cardinality(InMemory(x)) \in Nat /\ One1(x) \in Nat
          /\ Occurrences(Kept(l), x) + Occurrences(Cut(l), x) = Occurrences(hubq[g], x) + One1(x)
          /\ Occurrences(Kept(q), x) + Occurrences(Cut(q), x) = Occurrences(redisq, x) + One1(x)
        BY Zenon, <1>12, <1>14, <1>15
    <3>5. Copies(x) = got[x] + Occurrences(redisq, x) + trimmed[x] + Cardinality(InMemory(x))
        BY <1>7
    <3>6. Cardinality(InMemory(x)') + Occurrences(Cut(l), x) = Cardinality(InMemory(x)) + One1(x)
        BY <3>1, <3>3, <3>4
    <3>7. got[x] + (Occurrences(Kept(q), x) + Occurrences(Cut(q), x)) + trimmed[x]
            + (Cardinality(InMemory(x)') + Occurrences(Cut(l), x))
          = got[x] + (Occurrences(redisq, x) + One1(x)) + trimmed[x]
              + (Cardinality(InMemory(x)) + One1(x))
        BY <3>4, <3>6
    <3> QED  BY <3>1, <3>2, <3>3, <3>4, <3>5, <3>7
  <2> QED  BY <1>14, <1>19, <2>4, <2>5
<1> QED  BY <1>16, <1>17, <1>18, <1>19 DEF StoreOffline, StoreInRedis, StoreInMemory, q, r, l

-----------------------------------------------------------------------------
(* The inductive invariant                                                 *)

\* The sender's gateway, and the owner, still have to place m.
SenderHas(m) == send[m] \in {"new", "push", "route", "forward", "store"}
OwnerHas(m) == serve[m].at \in {"get", "push", "store"}

One(b) == IF b THEN 1 ELSE 0

\* An RPC that is waited for has not been given up, and every RPC has a target.
CallsOnce(m) ==
    /\ send[m] \notin {"store", "done"} => m \notin timedOut
    /\ serve[m].at # "none" => serve[m].gw \in Gateway

\* Every handler that still has the message may make one copy of it, and GiveUp
\* lets a second handler have it.
CopiesBounded(m) ==
    Copies(m) + One(SenderHas(m)) + One(OwnerHas(m)) <= 1 + doubled[m] + One(m \in timedOut)

\* A message without a copy is still with a handler that cannot lose it, or has
\* gone in one of the ways LossHasReason names.
NotLost(m) ==
    \/ Copies(m) > 0
    \/ m \in raced \cup vanished
    \/ SenderHas(m)
    \/ OwnerHas(m) /\ m \notin timedOut

InOrder(m) == CallsOnce(m) /\ CopiesBounded(m) /\ NotLost(m)

ForwardingInv == FwdTypeOK /\ \A m \in Msg : InOrder(m)

\* What the steps do to the bound, as sums: c copies, a sender and an owner that have
\* the message or not (s, o), e doubled calls and a call given up or not (t).
LEMMA Bounds ==
    ASSUME NEW c \in Nat, NEW e \in Nat, NEW s \in {0, 1}, NEW o \in {0, 1}, NEW t \in {0, 1}
    PROVE  /\ c + 0 + o <= 1 + e + 0 => c + 1 + o <= 1 + e + 1
           /\ c + 1 + o <= 1 + e => c + 0 + o <= 1 + e + 0 /\ c + 0 + 1 <= 1 + e + 0
           /\ c + 1 + o <= 1 + e + t => c + 1 + 0 + o <= 1 + e + t
           /\ \A b \in Nat : b <= c /\ c + s + o <= 1 + e + t => b + s + o <= 1 + e + t
           /\ c + s + o <= 1 + e + t => c <= 1 + e + t
           /\ c + 0 = c
OBVIOUS

\* CopiesBounded after a step.
LEMMA BoundedNext ==
    ASSUME NEW m, Copies(m)' + One(SenderHas(m)') + One(OwnerHas(m)') <= 1 + doubled'[m] + One(m \in timedOut')
    PROVE  CopiesBounded(m)'
BY Zenon DEF CopiesBounded, One

\* All copies can be counted.
LEMMA CopiesType ==
    ASSUME FwdTypeOK, NEW m \in Msg
    PROVE  /\ got[m] \in Nat /\ Occurrences(redisq, m) \in Nat /\ trimmed[m] \in Nat
           /\ Cardinality(InMemory(m)) \in Nat /\ Copies(m) \in Nat /\ doubled[m] \in Nat
<1>1. got[m] \in Nat /\ Occurrences(redisq, m) \in Nat /\ trimmed[m] \in Nat /\ doubled[m] \in Nat
    BY OccurrencesType DEF FwdTypeOK
<1> QED  BY <1>1, MemoryType DEF Copies

\* The sum a step leaves behind.
LEMMA CopiesNext ==
    \A m : Copies(m)' = got'[m] + Occurrences(redisq', m) + trimmed'[m] + Cardinality(InMemory(m)')
BY DEF Copies, Occurrences

\* A step that touches no copy.
LEMMA SameCopies ==
    ASSUME UNCHANGED <<redisq, hubq, trimmed>>, NEW m
    PROVE  Copies(m)' = got'[m] + Occurrences(redisq, m) + trimmed[m] + Cardinality(InMemory(m))
<1>1. InMemory(m)' = InMemory(m)
    BY DEF InMemory
<1> QED  BY <1>1, CopiesNext

\* Client.Send hands one copy to a connection.
LEMMA SendAdds ==
    ASSUME FwdTypeOK, NEW m \in Msg, got' = [got EXCEPT ![m] = @ + 1], UNCHANGED <<redisq, hubq, trimmed>>,
           NEW x \in Msg
    PROVE  Copies(x)' = Copies(x) + IF m = x THEN 1 ELSE 0
<1>1. got'[x] = got[x] + IF m = x THEN 1 ELSE 0
    BY CopiesType DEF FwdTypeOK
<1>2. Copies(x)' = got'[x] + Occurrences(redisq, x) + trimmed[x] + Cardinality(InMemory(x))
    BY SameCopies
<1>3. Copies(x) = got[x] + Occurrences(redisq, x) + trimmed[x] + Cardinality(InMemory(x))
    BY DEF Copies
<1> QED  BY <1>1, <1>2, <1>3, CopiesType

\* The drains of handleOffline: the shared list, the memory of a gateway, and a
\* shared list whose messages vanish.
LEMMA EmptyList == \A m : Occurrences(<<>>, m) = 0
<1>1. <<>> \in Seq(Msg) /\ DOMAIN <<>> = {}
    OBVIOUS
<1> QED  BY Zenon, <1>1, OccurrencesType

\* Draining the list of Redis counts its entries as fetched, and changes no
\* number of copies.
LEMMA DrainKeeps ==
    ASSUME FwdTypeOK, got' = CountIn(got, redisq), redisq' = <<>>, UNCHANGED <<hubq, trimmed>>,
           NEW x \in Msg
    PROVE  Copies(x)' = Copies(x)
<1>1. got'[x] = got[x] + Occurrences(redisq, x)
    BY Zenon, CountInType DEF FwdTypeOK
<1>2. InMemory(x)' = InMemory(x) /\ Occurrences(redisq', x) = 0
    BY EmptyList DEF InMemory
<1>3. Copies(x)' = got'[x] + Occurrences(redisq', x) + trimmed[x] + Cardinality(InMemory(x))
    BY <1>2, CopiesNext
<1>4. Copies(x) = got[x] + Occurrences(redisq, x) + trimmed[x] + Cardinality(InMemory(x))
    BY DEF Copies
<1> QED  BY <1>1, <1>2, <1>3, <1>4, CopiesType

\* The sums before and after a drain of a memory.
LEMMA DrainSum ==
    ASSUME NEW a \in Nat, NEW b \in Nat, NEW c \in Nat, NEW p \in Nat, NEW q \in Nat, NEW r \in Nat,
           NEW t \in Nat, NEW d, NEW e, a + c = p + r, d = a + b + t + c, e = p + q + t + r
    PROVE  d + q = e + b /\ d \in Nat
BY SMT

\* Draining a queue in memory, with the list of Redis kept or gone.
LEMMA MemoryDrainKeeps ==
    ASSUME FwdTypeOK, NEW g \in Gateway, got' = CountIn(got, hubq[g]), hubq' = [hubq EXCEPT ![g] = <<>>],
           UNCHANGED trimmed, redisq' = redisq \/ redisq' = <<>>, NEW x \in Msg
    PROVE  /\ Copies(x)' \in Nat /\ Copies(x)' <= Copies(x)
           /\ redisq' = redisq \/ Occurrences(redisq, x) = 0 => Copies(x)' = Copies(x)
<1>0. hubq[g] \in Seq(Msg) /\ <<>> \in Seq(Msg) /\ Len(<<>>) <= OfflineMaxSize
    BY ForwardingAssumption DEF FwdTypeOK, ForwardingAssumption
<1>1. got'[x] = got[x] + Occurrences(hubq[g], x) /\ Occurrences(hubq[g], x) \in Nat
    <2>1. got \in [Msg -> Nat]
        BY DEF FwdTypeOK
    <2>2. CountIn(got, hubq[g])[x] = got[x] + Occurrences(hubq[g], x)
        BY <1>0, <2>1, CountInType
    <2> QED  BY <1>0, <2>2, OccurrencesType
<1>2. /\ Cardinality(InMemory(x)') \in Nat
      /\ Cardinality(InMemory(x)') + Occurrences(hubq[g], x) = Cardinality(InMemory(x)) + Occurrences(<<>>, x)
    BY Zenon, <1>0, MemoryChange
<1>3. Occurrences(<<>>, x) = 0
    BY EmptyList
<1>4. /\ Occurrences(redisq', x) \in Nat /\ Occurrences(redisq', x) <= Occurrences(redisq, x)
      /\ redisq' = redisq \/ Occurrences(redisq, x) = 0 => Occurrences(redisq', x) = Occurrences(redisq, x)
    BY <1>3, CopiesType
<1>5. Copies(x)' = got'[x] + Occurrences(redisq', x) + trimmed[x] + Cardinality(InMemory(x)')
    BY CopiesNext
<1>6. Copies(x) = got[x] + Occurrences(redisq, x) + trimmed[x] + Cardinality(InMemory(x))
    BY DEF Copies
<1>7. PICK a, b : a = got'[x] /\ b = Occurrences(redisq', x)
    OBVIOUS
<1>8. /\ got[x] \in Nat /\ Occurrences(redisq, x) \in Nat /\ trimmed[x] \in Nat
      /\ Cardinality(InMemory(x)) \in Nat /\ Copies(x) \in Nat
    BY CopiesType
<1>9. a = got[x] + Occurrences(hubq[g], x) /\ Copies(x)' = a + b + trimmed[x] + Cardinality(InMemory(x)')
    BY <1>1, <1>5, <1>7
<1>10. /\ b \in Nat /\ b <= Occurrences(redisq, x)
       /\ redisq' = redisq \/ Occurrences(redisq, x) = 0 => b = Occurrences(redisq, x)
    BY <1>4, <1>7
<1>11. a + Cardinality(InMemory(x)') = got[x] + Cardinality(InMemory(x)) /\ a \in Nat
    BY <1>1, <1>2, <1>3, <1>8, <1>9
<1>12. Copies(x)' + Occurrences(redisq, x) = Copies(x) + b /\ Copies(x)' \in Nat
    <2>1. PICK c, d : c = Cardinality(InMemory(x)') /\ d = Copies(x)'
        OBVIOUS
    <2>2. c \in Nat /\ a + c = got[x] + Cardinality(InMemory(x)) /\ d = a + b + trimmed[x] + c
        BY Zenon, <1>2, <1>9, <1>11, <2>1
    <2>3. d + Occurrences(redisq, x) = Copies(x) + b /\ d \in Nat
        <3>1. a \in Nat /\ b \in Nat /\ c \in Nat
            BY Zenon, <1>10, <1>11, <2>2
        <3>2. PICK p, q, r, t, e : /\ p = got[x] /\ q = Occurrences(redisq, x) /\ t = trimmed[x]
                                   /\ r = Cardinality(InMemory(x)) /\ e = Copies(x)
            OBVIOUS
        <3>3. /\ p \in Nat /\ q \in Nat /\ r \in Nat /\ t \in Nat
              /\ e = p + q + t + r
            BY <1>6, <1>8, <3>2
        <3>4. a + c = p + r /\ d = a + b + t + c
            BY <2>2, <3>2
        <3>5. d + q = e + b /\ d \in Nat
            BY <3>1, <3>3, <3>4, DrainSum
        <3> QED  BY Zenon, <3>2, <3>5
    <2> QED  BY <2>1, <2>3
<1> QED  BY <1>8, <1>10, <1>12

\* The list of Redis is gone: there are fewer copies only of what it held.
LEMMA VanishKeeps ==
    ASSUME FwdTypeOK, redisq' = <<>>, UNCHANGED <<hubq, trimmed, got>>, NEW x \in Msg
    PROVE  /\ Copies(x)' \in Nat /\ Copies(x)' <= Copies(x)
           /\ Occurrences(redisq, x) = 0 => Copies(x)' = Copies(x)
<1>1. InMemory(x)' = InMemory(x) /\ Occurrences(redisq', x) = 0
    BY EmptyList DEF InMemory
<1>2. Copies(x)' = got[x] + Occurrences(redisq', x) + trimmed[x] + Cardinality(InMemory(x))
    BY <1>1, CopiesNext
<1>3. Copies(x) = got[x] + Occurrences(redisq, x) + trimmed[x] + Cardinality(InMemory(x))
    BY DEF Copies
<1>4. PICK a, b, c, d, p, q : /\ a = got[x] /\ b = Occurrences(redisq, x) /\ c = trimmed[x]
                              /\ d = Cardinality(InMemory(x)) /\ p = Copies(x) /\ q = Copies(x)'
    BY Zenon
<1>5. a \in Nat /\ b \in Nat /\ c \in Nat /\ d \in Nat /\ p = a + b + c + d /\ q = a + 0 + c + d
    BY Zenon, <1>1, <1>2, <1>3, <1>4, CopiesType
<1>6. q \in Nat /\ q <= p /\ (b = 0 => q = p)
    BY <1>5
<1> QED  BY Zenon, <1>4, <1>6

-----------------------------------------------------------------------------
(* The invariant, one action at a time                                     *)

\* What a message needs to stay in order when a step is not about it.
LEMMA Untouched ==
    ASSUME NEW x \in Msg, InOrder(x), Copies(x)' = Copies(x), send'[x] = send[x], serve'[x] = serve[x],
           doubled'[x] = doubled[x], x \in timedOut' <=> x \in timedOut,
           x \in raced \cup vanished => x \in raced' \cup vanished'
    PROVE  InOrder(x)'
<1>1. CallsOnce(x)'
    BY DEF InOrder, CallsOnce
<1>2. CopiesBounded(x)'
    BY DEF InOrder, CopiesBounded, One, SenderHas, OwnerHas
<1>3. NotLost(x)'
    BY DEF InOrder, NotLost, SenderHas, OwnerHas
<1> QED  BY Zenon, <1>1, <1>2, <1>3 DEF InOrder

\* A step of a handler of m concerns m alone.
LEMMA HandlerStep ==
    ASSUME ForwardingInv, NEW m \in Msg, FwdTypeOK', InOrder(m)',
           \A x \in Msg \ {m} :
               /\ Copies(x)' = Copies(x) /\ send'[x] = send[x] /\ serve'[x] = serve[x]
               /\ doubled'[x] = doubled[x] /\ (x \in timedOut' <=> x \in timedOut)
               /\ x \in raced \cup vanished => x \in raced' \cup vanished'
    PROVE  ForwardingInv'
<1>1. ASSUME NEW x \in Msg, x # m
      PROVE  InOrder(x)'
    <2>1. InOrder(x) /\ x \in Msg \ {m}
        BY <1>1 DEF ForwardingInv
    <2>2. /\ Copies(x)' = Copies(x) /\ send'[x] = send[x] /\ serve'[x] = serve[x]
          /\ doubled'[x] = doubled[x] /\ (x \in timedOut' <=> x \in timedOut)
          /\ x \in raced \cup vanished => x \in raced' \cup vanished'
        BY <2>1
    <2> QED  BY <2>1, <2>2, Untouched
<1> QED  BY <1>1 DEF ForwardingInv

\* Steps of the sender's handler that make no copy: Begin, a failed push, the
\* lookup of the owner, the ends of Forward, the answer and its timeout.
LEMMA SenderMoves ==
    ASSUME ForwardingInv, NEW m \in Msg,
           Begin(m) \/ RouteOrStore(m) \/ Forward(m) \/ Answered(m) \/ GiveUp(m)
    PROVE  ForwardingInv'
<1>0. FwdTypeOK /\ InOrder(m) /\ From[m] \in Gateway
    BY ForwardingAssumption DEF ForwardingInv, ForwardingAssumption
<1>1. /\ UNCHANGED <<online, redisq, hubq, got, trimmed, doubled, vanished, faults, ring>>
      /\ \E w \in {"push", "route", "store", "forward", "done", "wait"} : send' = [send EXCEPT ![m] = w]
    BY Zenon DEF Begin, RouteOrStore, Forward, Answered, GiveUp, SendAt
<1>2. \A x \in Msg : Copies(x)' = Copies(x)
    BY <1>1, SameCopies DEF Copies
<1>3. serve' = serve \/ serve' = [serve EXCEPT ![m] = [at |-> "get", gw |-> ring[From[m]]]]
    BY Zenon DEF Begin, RouteOrStore, Forward, Answered, GiveUp, SendAt
<1>4. /\ raced' = raced \/ raced' = raced \cup {m}
      /\ timedOut' = timedOut \/ timedOut' = timedOut \cup {m}
    BY DEF Begin, RouteOrStore, Forward, Answered, GiveUp, SendAt
<1>5. FwdTypeOK'
    <2>1. /\ send' \in [Msg -> {"new", "push", "route", "forward", "wait", "store", "done"}]
          /\ raced' \cup timedOut' \cup vanished' \subseteq Msg
        BY <1>0, <1>1, <1>4 DEF FwdTypeOK
    <2>2. ring[From[m]] \in Gateway
        BY <1>0 DEF FwdTypeOK
    <2>3. serve' \in [Msg -> [at : {"none", "get", "push", "store", "answered"}, gw : Gateway \cup {"none"}]]
        <3>1. [at |-> "get", gw |-> ring[From[m]]]
                  \in [at : {"none", "get", "push", "store", "answered"}, gw : Gateway \cup {"none"}]
            BY <2>2
        <3> QED  BY Zenon, <1>0, <1>3, <3>1 DEF FwdTypeOK
    <2> QED  BY Zenon, <1>0, <1>1, <2>1, <2>3 DEF FwdTypeOK
<1>6. InOrder(m)'
    <2>0. /\ send \in [Msg -> {"new", "push", "route", "forward", "wait", "store", "done"}]
          /\ serve \in [Msg -> [at : {"none", "get", "push", "store", "answered"}, gw : Gateway \cup {"none"}]]
          /\ ring \in [Gateway -> Gateway]
        BY Zenon, <1>0 DEF FwdTypeOK
    <2>1. Copies(m)' = Copies(m) /\ Copies(m) \in Nat /\ doubled' = doubled /\ doubled[m] \in Nat
        BY Zenon, <1>0, <1>1, <1>2, CopiesType
    <2>2. CASE Begin(m) \/ RouteOrStore(m)
        <3>1. serve' = serve /\ SenderHas(m) /\ SenderHas(m)' /\ m \notin timedOut /\ timedOut' = timedOut
            BY Zenon, <1>0, <2>0, <2>2 DEF Begin, RouteOrStore, SendAt, SenderHas, InOrder, CallsOnce
        <3> QED  BY <1>0, <2>1, <3>1 DEF InOrder, CallsOnce, CopiesBounded, NotLost, One, OwnerHas
    <2>3. CASE Forward(m)
        <3>0. SenderHas(m) /\ m \notin timedOut /\ timedOut' = timedOut
            BY <1>0, <2>3 DEF Forward, SenderHas, InOrder, CallsOnce
        <3>1. Copies(m) + 1 + One(OwnerHas(m)) <= 1 + doubled[m]
            <4>1. One(SenderHas(m)) = 1 /\ One(m \in timedOut) = 0 /\ One(OwnerHas(m)) \in {0, 1}
                BY Zenon, <3>0 DEF One
            <4>2. Copies(m) + One(SenderHas(m)) + One(OwnerHas(m)) <= 1 + doubled[m] + One(m \in timedOut)
                BY Zenon, <1>0 DEF InOrder, CopiesBounded
            <4> QED  BY <2>1, <4>1, <4>2
        <3>2. CASE send'[m] = "done"
            <4>1. serve' = serve /\ m \in raced'
                BY Zenon, <2>0, <2>3, <3>2 DEF Forward, SendAt
            <4>2. CallsOnce(m)' /\ NotLost(m)'
                BY Zenon, <1>0, <3>2, <4>1 DEF InOrder, CallsOnce, NotLost
            <4>3. ~SenderHas(m)'
                BY <3>2 DEF SenderHas
            <4>4. /\ One(SenderHas(m)') = 0 /\ One(m \in timedOut') = 0
                  /\ One(OwnerHas(m)') = One(OwnerHas(m)) /\ One(OwnerHas(m)) \in {0, 1}
                BY Zenon, <3>0, <4>1, <4>3 DEF One, OwnerHas
            <4>5. CopiesBounded(m)'
                BY Zenon, <2>1, <3>1, <4>4, Bounds, BoundedNext
            <4> QED  BY Zenon, <4>2, <4>5 DEF InOrder
        <3>3. CASE send'[m] = "wait"
            <4>1. serve'[m].at = "get" /\ serve'[m].gw \in Gateway
                BY <1>0, <2>0, <2>3, <3>3 DEF Forward, SendAt
            <4>2. ~SenderHas(m)' /\ OwnerHas(m)'
                BY Zenon, <3>3, <4>1 DEF SenderHas, OwnerHas
            <4>3. CallsOnce(m)' /\ NotLost(m)'
                BY Zenon, <3>0, <4>1, <4>2 DEF CallsOnce, NotLost
            <4>4. /\ One(SenderHas(m)') = 0 /\ One(m \in timedOut') = 0 /\ One(OwnerHas(m)') = 1
                  /\ One(OwnerHas(m)) \in {0, 1}
                BY Zenon, <3>0, <4>2 DEF One
            <4>5. CopiesBounded(m)'
                BY Zenon, <2>1, <3>1, <4>4, Bounds, BoundedNext
            <4> QED  BY Zenon, <4>3, <4>5 DEF InOrder
        <3>4. CASE send'[m] = "store"
            <4>1. serve' = serve /\ SenderHas(m)'
                BY <2>0, <2>3, <3>4 DEF Forward, SendAt, SenderHas
            <4> QED  BY Zenon, <1>0, <2>1, <3>0, <3>1, <4>1
                        DEF InOrder, CallsOnce, CopiesBounded, NotLost, One, OwnerHas
        <3> QED  BY Zenon, <2>0, <2>3, <3>2, <3>3, <3>4 DEF Forward, SendAt
    <2>4. CASE Answered(m)
        <3>1. /\ serve' = serve /\ ~SenderHas(m) /\ ~SenderHas(m)' /\ timedOut' = timedOut /\ raced' = raced
              /\ send'[m] = "done" /\ vanished' = vanished
            BY Zenon, <2>0, <2>4 DEF Answered, SendAt, SenderHas
        <3> QED  BY Zenon, <1>0, <2>1, <3>1 DEF InOrder, CallsOnce, CopiesBounded, NotLost, One, OwnerHas
    <2>5. CASE GiveUp(m)
        <3>1. /\ serve' = serve /\ ~SenderHas(m) /\ SenderHas(m)' /\ m \notin timedOut /\ m \in timedOut'
              /\ send'[m] = "store"
            BY <1>0, <2>0, <2>5 DEF GiveUp, SendAt, SenderHas, InOrder, CallsOnce
        <3>2. CallsOnce(m)' /\ NotLost(m)'
            BY Zenon, <1>0, <3>1 DEF InOrder, CallsOnce, NotLost
        <3>3. /\ One(SenderHas(m)) = 0 /\ One(m \in timedOut) = 0
              /\ One(SenderHas(m)') = 1 /\ One(m \in timedOut') = 1
              /\ One(OwnerHas(m)') = One(OwnerHas(m)) /\ One(OwnerHas(m)) \in {0, 1}
            BY Zenon, <3>1 DEF One, OwnerHas
        <3>4. Copies(m) + 0 + One(OwnerHas(m)) <= 1 + doubled[m] + 0
            BY Zenon, <1>0, <3>3 DEF InOrder, CopiesBounded
        <3>5. CopiesBounded(m)'
            BY Zenon, <2>1, <3>3, <3>4, Bounds, BoundedNext
        <3> QED  BY Zenon, <3>2, <3>5 DEF InOrder
    <2> QED  BY Zenon, <2>2, <2>3, <2>4, <2>5
<1>7. \A x \in Msg \ {m} : send'[x] = send[x] /\ serve'[x] = serve[x]
    BY <1>0, <1>1, <1>3 DEF FwdTypeOK
<1> QED  BY <1>1, <1>2, <1>4, <1>5, <1>6, <1>7, HandlerStep

\* Push and PeerPush: the handler is done with a copy handed to the connection, or
\* goes on to store the message.
LEMMA SenderPushes ==
    ASSUME ForwardingInv, NEW m \in Msg, Push(m)
    PROVE  ForwardingInv'
<1>0. FwdTypeOK /\ InOrder(m)
    BY DEF ForwardingInv
<1>1. /\ UNCHANGED <<ring, online, serve, redisq, hubq, trimmed, raced, timedOut, doubled, vanished, faults>>
      /\ \/ got' = [got EXCEPT ![m] = @ + 1] /\ send' = [send EXCEPT ![m] = "done"]
         \/ got' = got /\ send' = [send EXCEPT ![m] = "store"]
      /\ send[m] = "push"
    BY DEF Push, SendAt
<1>2. FwdTypeOK'
    <2>1. got' \in [Msg -> Nat]
        <3>1. got \in [Msg -> Nat] /\ got[m] + 1 \in Nat
            <4>1. got \in [Msg -> Nat]
                BY Zenon, <1>0 DEF FwdTypeOK
            <4> QED  BY <4>1
        <3> QED  BY <1>1, <3>1
    <2>2. send' \in [Msg -> {"new", "push", "route", "forward", "wait", "store", "done"}]
        BY Zenon, <1>0, <1>1 DEF FwdTypeOK
    <2> QED  BY <1>0, <1>1, <2>1, <2>2 DEF FwdTypeOK
<1>3. send \in [Msg -> {"new", "push", "route", "forward", "wait", "store", "done"}]
    BY Zenon, <1>0 DEF FwdTypeOK
<1>4. /\ SenderHas(m) /\ m \notin timedOut /\ Copies(m) \in Nat /\ doubled[m] \in Nat
      /\ Copies(m) + One(SenderHas(m)) + One(OwnerHas(m)) <= 1 + doubled[m] + One(m \in timedOut)
    BY Zenon, <1>0, <1>1, CopiesType DEF SenderHas, InOrder, CallsOnce, CopiesBounded
<1>5. CASE got' # got
    <2>1. \A x \in Msg : Copies(x)' = Copies(x) + IF m = x THEN 1 ELSE 0
        BY Zenon, <1>0, <1>1, <1>5, SendAdds
    <2>2. Copies(m)' = Copies(m) + 1 /\ send'[m] = "done" /\ ~SenderHas(m)' /\ OwnerHas(m)' = OwnerHas(m)
        BY Zenon, <1>1, <1>3, <1>5, <2>1 DEF SenderHas, OwnerHas
    <2>3. InOrder(m)'
        <3>1. CallsOnce(m)'
            BY Zenon, <1>0, <1>1, <2>2 DEF InOrder, CallsOnce
        <3>2. NotLost(m)'
            <4>1. Copies(m)' > 0
                BY <1>4, <2>2
            <4> QED  BY Zenon, <4>1 DEF NotLost
        <3>3. /\ One(SenderHas(m)) = 1 /\ One(SenderHas(m)') = 0
              /\ One(OwnerHas(m)') = One(OwnerHas(m)) /\ One(OwnerHas(m)) \in {0, 1}
              /\ One(m \in timedOut') = One(m \in timedOut) /\ One(m \in timedOut) \in {0, 1}
            BY Zenon, <1>1, <1>4, <2>2 DEF One
        <3>4. CopiesBounded(m)'
            <4>1. Copies(m) + 1 + One(OwnerHas(m)) <= 1 + doubled[m] + One(m \in timedOut)
                BY Zenon, <1>4, <3>3
            <4>2. Copies(m) + 1 + 0 + One(OwnerHas(m)) <= 1 + doubled[m] + One(m \in timedOut)
                BY Zenon, <1>4, <3>3, <4>1, Bounds
            <4> QED  BY Zenon, <1>1, <2>2, <3>3, <4>2, BoundedNext
        <3> QED  BY Zenon, <3>1, <3>2, <3>4 DEF InOrder
    <2>4. \A x \in Msg \ {m} : Copies(x)' = Copies(x) /\ send'[x] = send[x]
        <3>1. \A x \in Msg \ {m} : Copies(x)' = Copies(x) + 0 /\ Copies(x) \in Nat
            BY Zenon, <1>0, <2>1, CopiesType
        <3>2. \A c \in Nat : c + 0 = c
            OBVIOUS
        <3>3. \A x \in Msg \ {m} : send'[x] = send[x]
            BY Zenon, <1>1, <1>3
        <3> QED  BY Zenon, <3>1, <3>2, <3>3
    <2> QED  BY Zenon, <1>1, <1>2, <2>3, <2>4, HandlerStep
<1>6. CASE got' = got
    <2>1. \A x \in Msg : Copies(x)' = Copies(x)
        BY <1>1, <1>6, SameCopies DEF Copies
    <2>2. send'[m] \in {"store", "done"} /\ OwnerHas(m)' = OwnerHas(m)
        BY <1>1, <1>3 DEF OwnerHas
    <2>3. send' = [send EXCEPT ![m] = "store"]
        <3>1. got[m] \in Nat /\ got \in [Msg -> Nat]
            BY <1>0 DEF FwdTypeOK
        <3>2. [got EXCEPT ![m] = @ + 1][m] # got[m]
            BY <3>1
        <3> QED  BY <1>1, <1>6, <3>2
    <2>4. SenderHas(m)' /\ send'[m] = "store"
        BY Zenon, <1>3, <2>3 DEF SenderHas
    <2>5. InOrder(m)'
        BY Zenon, <1>0, <1>1, <1>4, <2>1, <2>2, <2>4 DEF InOrder, CallsOnce, CopiesBounded, NotLost, One
    <2>6. \A x \in Msg \ {m} : send'[x] = send[x]
        BY <1>1, <1>3
    <2> QED  BY Zenon, <1>1, <1>2, <2>1, <2>5, <2>6, HandlerStep
<1> QED  BY <1>5, <1>6

\* PeerGet, PeerPush and CallLost.
LEMMA OwnerMoves ==
    ASSUME ForwardingInv, NEW m \in Msg, PeerGet(m) \/ PeerPush(m) \/ CallLost(m)
    PROVE  ForwardingInv'
<1>0. FwdTypeOK /\ InOrder(m)
    BY DEF ForwardingInv
<1>1. /\ UNCHANGED <<ring, online, send, redisq, hubq, trimmed, raced, timedOut, doubled, vanished, faults>>
      /\ OwnerHas(m)
      /\ \/ got' = got /\ serve' = [serve EXCEPT ![m].at = "push"]
         \/ got' = got /\ serve' = [serve EXCEPT ![m].at = "store"]
         \/ got' = [got EXCEPT ![m] = @ + 1] /\ serve' = [serve EXCEPT ![m].at = "answered"]
         \/ got' = got /\ serve' = [serve EXCEPT ![m].at = "answered"] /\ m \in timedOut
    BY DEF PeerGet, PeerPush, CallLost, ServeAt, OwnerHas
<1>2. serve \in [Msg -> [at : {"none", "get", "push", "store", "answered"}, gw : Gateway \cup {"none"}]]
    BY <1>0 DEF FwdTypeOK
<1>3. serve' \in [Msg -> [at : {"none", "get", "push", "store", "answered"}, gw : Gateway \cup {"none"}]]
    BY <1>1, <1>2
<1>4. FwdTypeOK'
    <2>1. got' \in [Msg -> Nat]
        <3>1. got \in [Msg -> Nat] /\ got[m] + 1 \in Nat
            <4>1. got \in [Msg -> Nat]
                BY Zenon, <1>0 DEF FwdTypeOK
            <4> QED  BY <4>1
        <3> QED  BY <1>1, <3>1
    <2> QED  BY <1>0, <1>1, <1>3, <2>1 DEF FwdTypeOK
<1>5. /\ Copies(m) \in Nat /\ doubled[m] \in Nat /\ serve[m].at # "none" /\ serve'[m].gw = serve[m].gw
      /\ SenderHas(m)' = SenderHas(m)
      /\ Copies(m) + One(SenderHas(m)) + 1 <= 1 + doubled[m] + One(m \in timedOut)
    <2>1. Copies(m) \in Nat /\ doubled[m] \in Nat
        BY <1>0, CopiesType
    <2>2. serve[m].at # "none" /\ serve'[m].gw = serve[m].gw /\ SenderHas(m)' = SenderHas(m)
        BY <1>1, <1>2 DEF OwnerHas, SenderHas
    <2>3. One(OwnerHas(m)) = 1
        BY <1>1 DEF One
    <2> QED  BY Zenon, <1>0, <2>1, <2>2, <2>3 DEF InOrder, CopiesBounded
<1>6. CallsOnce(m)'
    BY <1>0, <1>1, <1>5 DEF InOrder, CallsOnce
<1>7. \A x \in Msg \ {m} : serve'[x] = serve[x]
    BY <1>1, <1>2
<1>8. CASE got' = [got EXCEPT ![m] = @ + 1] /\ serve' = [serve EXCEPT ![m].at = "answered"]
    <2>1. \A x \in Msg : Copies(x)' = Copies(x) + IF m = x THEN 1 ELSE 0
        BY Zenon, <1>0, <1>1, <1>8, SendAdds
    <2>2. Copies(m)' = Copies(m) + 1 /\ ~OwnerHas(m)'
        BY <1>2, <1>8, <2>1 DEF OwnerHas
    <2>3. InOrder(m)'
        BY <1>1, <1>5, <1>6, <2>2 DEF InOrder, CopiesBounded, NotLost, One
    <2>4. \A x \in Msg \ {m} : Copies(x)' = Copies(x)
        BY <1>0, <2>1, CopiesType
    <2> QED  BY <1>1, <1>4, <1>7, <2>3, <2>4, HandlerStep
<1>9. CASE got' = got
    <2>1. \A x \in Msg : Copies(x)' = Copies(x)
        BY <1>1, <1>9, SameCopies DEF Copies
    <2>2. OwnerHas(m)' \/ m \in timedOut
        <3>1. got[m] \in Nat /\ got \in [Msg -> Nat]
            BY <1>0 DEF FwdTypeOK
        <3>2. [got EXCEPT ![m] = @ + 1][m] # got[m]
            BY <3>1
        <3>3. \/ serve' = [serve EXCEPT ![m].at = "push"] \/ serve' = [serve EXCEPT ![m].at = "store"]
              \/ m \in timedOut
            BY <1>1, <1>9, <3>2
        <3> QED  BY <1>2, <3>3 DEF OwnerHas
    <2>3. InOrder(m)'
        <3>1. CopiesBounded(m)'
            BY <1>1, <1>5, <2>1 DEF CopiesBounded, One
        <3>2. NotLost(m)'
            BY <1>0, <1>1, <1>5, <2>1, <2>2 DEF InOrder, NotLost
        <3> QED  BY <1>6, <3>1, <3>2 DEF InOrder
    <2> QED  BY Zenon, <1>1, <1>4, <1>7, <2>1, <2>3, HandlerStep
<1> QED  BY <1>1, <1>8, <1>9

\* StoreLocally and PeerStore: the handler is done, with one copy stored, or two.
LEMMA StoreSteps ==
    ASSUME ForwardingInv, NEW m \in Msg, NEW g \in Gateway, StoreOffline(g, m), got' = got,
           UNCHANGED <<ring, online, raced, timedOut, vanished>>,
           send' \in [Msg -> {"new", "push", "route", "forward", "wait", "store", "done"}],
           serve' \in [Msg -> [at : {"none", "get", "push", "store", "answered"}, gw : Gateway \cup {"none"}]],
           \A x \in Msg \ {m} : send'[x] = send[x] /\ serve'[x] = serve[x],
           CallsOnce(m)',
           One(SenderHas(m)') + One(OwnerHas(m)') + 1 = One(SenderHas(m)) + One(OwnerHas(m))
    PROVE  ForwardingInv'
<1>0. FwdTypeOK /\ InOrder(m)
    BY DEF ForwardingInv
<1>1. StoreTypes'
    BY Zenon, <1>0, StoreAdds
<1>2. PICK d \in {0, 1} : /\ doubled' = [doubled EXCEPT ![m] = @ + d]
                          /\ \A x \in Msg : Copies(x)' = Copies(x) + IF m = x THEN 1 + d ELSE 0
    BY <1>0, StoreAdds
<1>3. FwdTypeOK'
    BY Zenon, <1>0, <1>1 DEF FwdTypeOK, StoreTypes
<1>4. \A x \in Msg \ {m} : Copies(x)' = Copies(x) /\ doubled'[x] = doubled[x]
    <2>1. doubled \in [Msg -> Nat]
        BY <1>0 DEF FwdTypeOK
    <2> QED  BY <1>0, <1>2, <2>1, CopiesType
<1>5. /\ Copies(m) \in Nat /\ doubled[m] \in Nat /\ doubled'[m] = doubled[m] + d
      /\ Copies(m)' = Copies(m) + 1 + d
    <2>1. Copies(m) \in Nat /\ doubled[m] \in Nat /\ doubled \in [Msg -> Nat]
        BY Zenon, <1>0, CopiesType DEF FwdTypeOK
    <2>2. PICK c, e : c = Copies(m)' /\ e = Copies(m)
        BY Zenon
    <2>3. c = e + (1 + d) /\ e \in Nat
        BY Zenon, <1>2, <2>1, <2>2
    <2>4. c = e + 1 + d
        BY <2>3
    <2>5. doubled'[m] = doubled[m] + d
        BY Zenon, <1>2, <2>1
    <2> QED  BY Zenon, <2>1, <2>2, <2>4, <2>5
<1>6. CopiesBounded(m)'
    <2>1. /\ One(SenderHas(m)) \in {0, 1} /\ One(OwnerHas(m)) \in {0, 1} /\ One(m \in timedOut) \in {0, 1}
          /\ One(SenderHas(m)') \in {0, 1} /\ One(OwnerHas(m)') \in {0, 1}
        BY Zenon DEF One
    <2>2. Copies(m) + One(SenderHas(m)) + One(OwnerHas(m)) <= 1 + doubled[m] + One(m \in timedOut)
        BY Zenon, <1>0 DEF InOrder, CopiesBounded
    <2>3. PICK c, e, s, o, t, v, w : /\ c = Copies(m) /\ e = doubled[m] /\ t = One(m \in timedOut)
                                     /\ s = One(SenderHas(m)) /\ o = One(OwnerHas(m))
                                     /\ v = One(SenderHas(m)') /\ w = One(OwnerHas(m)')
        BY Zenon
    <2>4. /\ c \in Nat /\ e \in Nat /\ t \in {0, 1} /\ s \in {0, 1} /\ o \in {0, 1}
          /\ v \in {0, 1} /\ w \in {0, 1} /\ v + w + 1 = s + o /\ c + s + o <= 1 + e + t
        BY Zenon, <1>5, <2>1, <2>2, <2>3
    <2>5. c + 1 + d + v + w <= 1 + (e + d) + t
        BY <2>4
    <2>6. Copies(m)' + One(SenderHas(m)') + One(OwnerHas(m)') <= 1 + doubled'[m] + One(m \in timedOut)
        BY Zenon, <1>5, <2>3, <2>5
    <2> QED  BY Zenon, <2>6, BoundedNext
<1>7. NotLost(m)'
    BY <1>5 DEF NotLost
<1> QED  BY Zenon, <1>3, <1>4, <1>6, <1>7, HandlerStep DEF InOrder

\* The sender or the peer stores the message.
LEMMA StoresKeep ==
    ASSUME ForwardingInv, NEW m \in Msg, StoreLocally(m) \/ PeerStore(m)
    PROVE  ForwardingInv'
<1>0. FwdTypeOK /\ InOrder(m) /\ CallsOnce(m) /\ From[m] \in Gateway
    BY ForwardingAssumption DEF ForwardingInv, InOrder, ForwardingAssumption
<1>1. /\ send \in [Msg -> {"new", "push", "route", "forward", "wait", "store", "done"}]
      /\ serve \in [Msg -> [at : {"none", "get", "push", "store", "answered"}, gw : Gateway \cup {"none"}]]
    BY <1>0 DEF FwdTypeOK
<1>2. CASE StoreLocally(m)
    <2>1. /\ send[m] = "store" /\ StoreOffline(From[m], m) /\ send' = [send EXCEPT ![m] = "done"]
          /\ UNCHANGED <<ring, online, serve, got, raced, timedOut, vanished>>
        BY <1>2 DEF StoreLocally, SendAt
    <2>2. /\ send' \in [Msg -> {"new", "push", "route", "forward", "wait", "store", "done"}]
          /\ send'[m] = "done" /\ \A x \in Msg \ {m} : send'[x] = send[x]
        BY Zenon, <1>1, <2>1
    <2>3. CallsOnce(m)'
        BY Zenon, <1>0, <2>1, <2>2 DEF CallsOnce
    <2>4. One(SenderHas(m)') + One(OwnerHas(m)') + 1 = One(SenderHas(m)) + One(OwnerHas(m))
        BY <2>1, <2>2 DEF One, SenderHas, OwnerHas
    <2> QED  BY Zenon, <1>0, <1>1, <2>1, <2>2, <2>3, <2>4, StoreSteps
<1>3. CASE PeerStore(m)
    <2>1. /\ serve[m].at = "store" /\ StoreOffline(serve[m].gw, m)
          /\ serve' = [serve EXCEPT ![m].at = "answered"]
          /\ UNCHANGED <<ring, online, send, got, raced, timedOut, vanished>>
        BY <1>3 DEF PeerStore, ServeAt
    <2>2. serve' \in [Msg -> [at : {"none", "get", "push", "store", "answered"}, gw : Gateway \cup {"none"}]]
        BY <1>1, <2>1
    <2>3. /\ serve'[m].at = "answered" /\ serve'[m].gw = serve[m].gw
          /\ \A x \in Msg \ {m} : serve'[x] = serve[x]
        BY <1>1, <2>1
    <2>4. serve[m].gw \in Gateway
        BY <1>0, <2>1 DEF CallsOnce
    <2>5. CallsOnce(m)'
        BY <1>0, <2>1, <2>3, <2>4 DEF CallsOnce
    <2>6. One(SenderHas(m)') + One(OwnerHas(m)') + 1 = One(SenderHas(m)) + One(OwnerHas(m))
        BY <2>1, <2>3 DEF One, SenderHas, OwnerHas
    <2>7. PICK g \in Gateway : g = serve[m].gw
        BY <2>4
    <2>8. StoreOffline(g, m)
        BY <2>1, <2>7
    <2> QED  BY Zenon, <1>1, <2>1, <2>2, <2>3, <2>5, <2>6, <2>8, StoreSteps
<1> QED  BY <1>2, <1>3

\* The three drains of handleOffline: a message that loses a copy has vanished.
LEMMA DrainSteps ==
    ASSUME ForwardingInv, FwdTypeOK', UNCHANGED <<send, serve, raced, timedOut, doubled>>,
           vanished \subseteq vanished',
           \A x \in Msg : /\ Copies(x)' \in Nat /\ Copies(x)' <= Copies(x)
                          /\ x \in vanished' \/ Copies(x)' = Copies(x)
    PROVE  ForwardingInv'
<1>1. SUFFICES ASSUME NEW x \in Msg
               PROVE  InOrder(x)'
    BY DEF ForwardingInv
<1>2. /\ FwdTypeOK /\ InOrder(x) /\ Copies(x)' \in Nat /\ Copies(x)' <= Copies(x)
      /\ x \in vanished' \/ Copies(x)' = Copies(x)
    BY DEF ForwardingInv
<1>3. Copies(x) \in Nat /\ doubled[x] \in Nat
    BY Zenon, <1>2, CopiesType
<1>4. CallsOnce(x)'
    BY Zenon, <1>2 DEF InOrder, CallsOnce
<1>5. CopiesBounded(x)'
    <2>1. /\ One(SenderHas(x)) \in {0, 1} /\ One(OwnerHas(x)) \in {0, 1} /\ One(x \in timedOut) \in {0, 1}
          /\ Copies(x) + One(SenderHas(x)) + One(OwnerHas(x)) <= 1 + doubled[x] + One(x \in timedOut)
        BY Zenon, <1>2 DEF InOrder, CopiesBounded, One
    <2>2. Copies(x)' + One(SenderHas(x)) + One(OwnerHas(x)) <= 1 + doubled[x] + One(x \in timedOut)
        BY Zenon, <1>2, <1>3, <2>1, Bounds
    <2>3. /\ One(SenderHas(x)') = One(SenderHas(x)) /\ One(OwnerHas(x)') = One(OwnerHas(x))
          /\ doubled' = doubled /\ timedOut' = timedOut
        BY Zenon DEF SenderHas, OwnerHas
    <2> QED  BY Zenon, <2>2, <2>3, BoundedNext
<1>6. NotLost(x)'
    BY <1>2 DEF InOrder, NotLost, SenderHas, OwnerHas
<1> QED  BY <1>4, <1>5, <1>6 DEF InOrder

\* A recipient fetches, from Redis or from memory.
LEMMA FetchesKeep ==
    ASSUME ForwardingInv, NEW g \in Gateway, Fetch(g) \/ FetchFails(g) \/ FetchRepeated(g)
    PROVE  ForwardingInv'
<1>0. /\ FwdTypeOK /\ redisq \in Seq(Msg) /\ hubq \in [Gateway -> Seq(Msg)] /\ got \in [Msg -> Nat]
      /\ hubq[g] \in Seq(Msg) /\ <<>> \in Seq(Msg) /\ Len(<<>>) = 0 /\ OfflineMaxSize \in Nat
      /\ MaxFaults \in Nat /\ faults \in 0..MaxFaults
    BY ForwardingAssumption DEF ForwardingInv, FwdTypeOK, ForwardingAssumption
<1>1. CASE Fetch(g)
    <2>1. \A x \in Msg : Copies(x)' = Copies(x)
        BY <1>0, <1>1, DrainKeeps DEF Fetch
    <2>2. got' \in [Msg -> Nat]
        BY Zenon, <1>0, <1>1, CountInType DEF Fetch
    <2>3. FwdTypeOK'
        <3>1. Len(<<>>) <= OfflineMaxSize /\ <<>> \in Seq(Msg)
            <4>1. OfflineMaxSize \in Nat
                BY Zenon, <1>0
            <4> QED  BY <4>1
        <3> QED  BY Zenon, <1>0, <1>1, <2>2, <3>1 DEF Fetch, FwdTypeOK
    <2>4. \A x \in Msg : Copies(x)' \in Nat /\ Copies(x)' <= Copies(x)
        BY <1>0, <2>1, CopiesType
    <2> QED  BY Zenon, <1>1, <2>1, <2>3, <2>4, DrainSteps DEF Fetch
<1>2. CASE FetchFails(g)
    <2>1. /\ UNCHANGED <<ring, online, send, serve, trimmed, raced, timedOut, doubled>>
          /\ got' = CountIn(got, hubq[g]) /\ hubq' = [hubq EXCEPT ![g] = <<>>]
          /\ faults < MaxFaults /\ faults' = faults + 1
          /\ \/ redisq' = redisq /\ vanished' = vanished
             \/ redisq' = <<>> /\ vanished' = vanished \cup {m \in Msg : Occurrences(redisq, m) > 0}
        BY <1>2 DEF FetchFails, Fault
    <2>2. got' \in [Msg -> Nat]
        BY <1>0, <2>1, CountInType
    <2>3. hubq' \in [Gateway -> Seq(Msg)] /\ \A h \in Gateway : Len(hubq'[h]) <= OfflineMaxSize
        BY <1>0, <2>1 DEF FwdTypeOK
    <2>4. redisq' \in Seq(Msg) /\ Len(redisq') <= OfflineMaxSize /\ faults' \in 0..MaxFaults
        <3>1. Len(redisq) <= OfflineMaxSize
            BY <1>0 DEF FwdTypeOK
        <3>2. redisq' \in Seq(Msg) /\ Len(redisq') <= OfflineMaxSize
            <4>1. CASE redisq' = redisq
                BY <1>0, <3>1, <4>1
            <4>2. CASE redisq' = <<>>
                BY <1>0, <4>2
            <4> QED  BY <2>1, <4>1, <4>2
        <3>3. faults' \in 0..MaxFaults
            BY <1>0, <2>1
        <3> QED  BY <3>2, <3>3
    <2>5. FwdTypeOK'
        BY Zenon, <1>0, <2>1, <2>2, <2>3, <2>4 DEF FwdTypeOK
    <2>6. ASSUME NEW x \in Msg
          PROVE  /\ Copies(x)' \in Nat /\ Copies(x)' <= Copies(x)
                 /\ x \in vanished' \/ Copies(x)' = Copies(x)
        <3>1. /\ Copies(x)' \in Nat /\ Copies(x)' <= Copies(x)
              /\ redisq' = redisq \/ Occurrences(redisq, x) = 0 => Copies(x)' = Copies(x)
            BY Zenon, <1>0, <2>1, MemoryDrainKeeps
        <3>2. Occurrences(redisq, x) \in Nat
            BY Zenon, <1>0, CopiesType
        <3>3. x \in vanished' \/ redisq' = redisq \/ Occurrences(redisq, x) = 0
            BY <2>1, <3>2
        <3> QED  BY <3>1, <3>3
    <2> QED  BY <2>1, <2>5, <2>6, DrainSteps
<1>3. CASE FetchRepeated(g)
    <2>1. /\ UNCHANGED <<ring, online, send, serve, hubq, got, trimmed, raced, timedOut, doubled>>
          /\ faults < MaxFaults /\ faults' = faults + 1 /\ redisq' = <<>>
          /\ vanished' = vanished \cup {m \in Msg : Occurrences(redisq, m) > 0}
        BY <1>3 DEF FetchRepeated, Fault
    <2>2. redisq' \in Seq(Msg) /\ Len(redisq') <= OfflineMaxSize /\ faults' \in 0..MaxFaults
        BY <1>0, <2>1
    <2>3. FwdTypeOK'
        BY Zenon, <1>0, <2>1, <2>2 DEF FwdTypeOK
    <2>4. ASSUME NEW x \in Msg
          PROVE  /\ Copies(x)' \in Nat /\ Copies(x)' <= Copies(x)
                 /\ x \in vanished' \/ Copies(x)' = Copies(x)
        <3>1. /\ Copies(x)' \in Nat /\ Copies(x)' <= Copies(x)
              /\ Occurrences(redisq, x) = 0 => Copies(x)' = Copies(x)
            BY Zenon, <1>0, <2>1, VanishKeeps
        <3>2. Occurrences(redisq, x) \in Nat
            BY <1>0, CopiesType
        <3> QED  BY <2>1, <3>1, <3>2
    <2> QED  BY <2>1, <2>3, <2>4, DrainSteps
<1> QED  BY <1>1, <1>2, <1>3

\* The user's connections and the rings change nothing that the invariant is about.
LEMMA SurroundingsKeep ==
    ASSUME ForwardingInv,
           \/ \E g \in Gateway : ConnectOrLeave(g)
           \/ \E g, o \in Gateway : RingChanges(g, o)
           \/ UNCHANGED fwdVars
    PROVE  ForwardingInv'
<1>1. /\ UNCHANGED <<send, serve, redisq, hubq, got, trimmed, raced, timedOut, doubled, vanished, faults>>
      /\ ring' \in [Gateway -> Gateway] /\ online' \subseteq Gateway
    <2>0. ring \in [Gateway -> Gateway] /\ online \subseteq Gateway
        BY DEF ForwardingInv, FwdTypeOK
    <2>1. ASSUME NEW g \in Gateway, ConnectOrLeave(g)
          PROVE  <1>1!:
        BY <2>0, <2>1 DEF ConnectOrLeave
    <2>2. ASSUME NEW g \in Gateway, NEW o \in Gateway, RingChanges(g, o)
          PROVE  <1>1!:
        BY <2>0, <2>2 DEF RingChanges
    <2>3. CASE UNCHANGED fwdVars
        BY Zenon, <2>0, <2>3 DEF fwdVars
    <2> QED  BY Zenon, <2>1, <2>2, <2>3
<1>2. FwdTypeOK'
    BY Zenon, <1>1 DEF ForwardingInv, FwdTypeOK
<1>3. \A x \in Msg : Copies(x)' = Copies(x)
    BY Zenon, <1>1, SameCopies DEF Copies
<1>4. \A x \in Msg : Copies(x)' \in Nat /\ Copies(x)' <= Copies(x)
    BY <1>3, CopiesType DEF ForwardingInv
<1> QED  BY Zenon, <1>1, <1>2, <1>3, <1>4, DrainSteps

-----------------------------------------------------------------------------
(* What holds of forwarding                                                *)

\* The invariant holds at the start.
LEMMA ForwardingStart == FwdInit => ForwardingInv
<1> SUFFICES ASSUME FwdInit
             PROVE  ForwardingInv
    OBVIOUS
<1>0. /\ <<>> \in Seq(Msg) /\ Len(<<>>) = 0 /\ OfflineMaxSize \in Nat /\ 0 \in 0..MaxFaults
      /\ From \in [Msg -> Gateway]
    BY ForwardingAssumption DEF ForwardingAssumption
<1>1. FwdTypeOK
    BY <1>0 DEF FwdInit, FwdTypeOK, NoCall
<1>2. ASSUME NEW m \in Msg
      PROVE  InOrder(m)
    <2>1. InMemory(m) = {}
        BY <1>0 DEF FwdInit, InMemory
    <2>2. Copies(m) = 0 /\ doubled[m] = 0
        <3>1. Occurrences(redisq, m) = 0 /\ Cardinality(InMemory(m)) = 0
            BY <2>1, EmptyList, FS_EmptySet DEF FwdInit
        <3>2. got[m] = 0 /\ trimmed[m] = 0 /\ doubled[m] = 0
            BY DEF FwdInit
        <3> QED  BY <3>1, <3>2 DEF Copies
    <2>3. send[m] = "new" /\ serve[m].at = "none" /\ m \notin timedOut
        BY DEF FwdInit, NoCall
    <2> QED  BY <2>2, <2>3 DEF InOrder, CallsOnce, CopiesBounded, NotLost, SenderHas, OwnerHas, One
<1> QED  BY <1>1, <1>2 DEF ForwardingInv

\* Every step of the specification keeps the invariant.
LEMMA ForwardingStep == ForwardingInv /\ [FwdNext]_fwdVars => ForwardingInv'
<1> SUFFICES ASSUME ForwardingInv, [FwdNext]_fwdVars
             PROVE  ForwardingInv'
    OBVIOUS
<1>1. ASSUME NEW m \in Msg, Begin(m) \/ SendStep(m) \/ ServeStep(m) \/ CallLost(m)
      PROVE  ForwardingInv'
    BY Zenon, <1>1, SenderMoves, SenderPushes, OwnerMoves, StoresKeep DEF SendStep, ServeStep
<1>2. ASSUME NEW g \in Gateway, Fetch(g) \/ FetchFails(g) \/ FetchRepeated(g)
      PROVE  ForwardingInv'
    BY <1>2, FetchesKeep
<1> QED  BY <1>1, <1>2, SurroundingsKeep DEF FwdNext

\* For any number of gateways, messages and faults, any limit of the queues and any
\* changes of the rings: the invariant of routeOrStoreOffline, ForwardMessage and the
\* offline store.
THEOREM ForwardingInvariant == FwdSpec => []ForwardingInv
<1>1. FwdInit => ForwardingInv
    BY ForwardingStart
<1>2. ForwardingInv /\ [FwdNext]_fwdVars => ForwardingInv'
    BY ForwardingStep
<1> QED  BY <1>1, <1>2, PTL DEF FwdSpec

\* A message that both gateways are done with is with the user, in a queue or cut off
\* a full one, unless Forward took its own gateway for the owner or the answer of a
\* drain was lost.
THEOREM LossesHaveReasons == FwdSpec => []LossHasReason
<1>1. ForwardingInv => LossHasReason
    BY DEF ForwardingInv, InOrder, NotLost, LossHasReason, Settled, SenderHas, OwnerHas
<1> QED  BY <1>1, ForwardingInvariant, PTL

\* There is one copy of a message: one more for an RPC that was given up, and one for
\* each Redis call that took effect unnoticed.
THEOREM CopiesHaveReasons == FwdSpec => []CopyHasReason
<1>1. ASSUME ForwardingInv, NEW m \in Msg
      PROVE  Copies(m) <= 1 + doubled[m] + (IF m \in timedOut THEN 1 ELSE 0)
    <2>1. /\ Copies(m) \in Nat /\ doubled[m] \in Nat
          /\ Copies(m) + One(SenderHas(m)) + One(OwnerHas(m)) <= 1 + doubled[m] + One(m \in timedOut)
        BY <1>1, CopiesType DEF ForwardingInv, InOrder, CopiesBounded
    <2>2. One(SenderHas(m)) \in {0, 1} /\ One(OwnerHas(m)) \in {0, 1} /\ One(m \in timedOut) \in {0, 1}
        BY Zenon DEF One
    <2>3. Copies(m) <= 1 + doubled[m] + One(m \in timedOut)
        BY Zenon, <2>1, <2>2, Bounds
    <2> QED  BY Zenon, <2>3 DEF One
<1>2. ForwardingInv => CopyHasReason
    BY <1>1 DEF CopyHasReason
<1> QED  BY <1>2, ForwardingInvariant, PTL

=============================================================================
