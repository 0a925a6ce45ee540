--------------------------- MODULE DeliveryProofs ---------------------------
(***************************************************************************)
(* Delivery for any users, connections, handlers, messages and sizes of    *)
(* the offline queue: every step keeps DeliveryInv, and the properties     *)
(* follow from it.                                                         *)
(*                                                                         *)
(* ExactlyOnePlace counts copies; what the steps keep is that one place    *)
(* holds the message for a recipient and no other does (OnePlace), and     *)
(* that no queue holds anything twice (NoTwice).  Every step that hands a  *)
(* message over takes it out of one place and puts it into one.            *)
(***************************************************************************)
EXTENDS Delivery, Integers, TLAPS

Number == 1..MaxId

Chatting == {"lookup", "push", "store", "mark", "finish"}
Draining == {"drain", "requeue"}
Placing == {"lookup", "push", "store"}

ChatTask == [at : Chatting, conn : Conn, id : Number, todo : SUBSET Uid, uid : Uid,
             target : Conn \cup {NoConn}, err : BOOLEAN]
DrainTask == [at : Draining, conn : Conn, batch : Seq(Number)]

\* Everything a step reads has the form the step expects.
Shape ==
    /\ clients \in [Uid -> Conn \cup {NoConn}]
    /\ origin \in Seq([key : Key, conn : Conn]) /\ Len(origin) <= MaxId
    /\ offq \in [Uid -> Seq(Number)]
    /\ sendq \in [Conn -> Seq(Number)]
    /\ wire \in [Conn -> Seq(Number)]
    /\ task \in [Handler -> {Idle} \cup ChatTask \cup DrainTask]
    /\ dropped \subseteq Uid \X Number
    /\ \A u \in Uid : Len(offq[u]) <= OfflineMaxSize

\* The ids in use have been handed out.
Known ==
    /\ seen \in [Key -> Number \cup {0}]
    /\ \A k \in Key : seen[k] <= Len(origin)
    /\ acked \cup submitted \cup failed \cup unrouted \subseteq Ids
    /\ \A h \in Handler : task[h].at \in Chatting => task[h].id \in Ids

\* What a handler has looked up stays true of it: a connection serves one user.
Targets ==
    /\ \A u \in Uid : clients[u] # NoConn => Owner[clients[u]] = u
    /\ \A h \in Handler :
          /\ task[h].at \in {"push", "store"} => task[h].uid \notin task[h].todo
          /\ task[h].at = "push" => task[h].target \in Conn /\ Owner[task[h].target] = task[h].uid
          /\ task[h].at \in Draining => task[h].batch # <<>>

-----------------------------------------------------------------------------
(* Places                                                                  *)

In(q, i) == \E j \in DOMAIN q : q[j] = i
Once(q) == \A j, k \in DOMAIN q : q[j] = q[k] => j = k

Place == ({"offline", "dropped"} \X {"user"}) \cup ({"buffer", "wire"} \X Conn)
         \cup ({"batch", "hand"} \X Handler)

\* Place p holds message i for user u.
Holds(p, u, i) ==
    \/ p[1] = "offline" /\ In(offq[u], i)
    \/ p[1] = "dropped" /\ <<u, i>> \in dropped
    \/ p[1] = "buffer" /\ Owner[p[2]] = u /\ In(sendq[p[2]], i)
    \/ p[1] = "wire" /\ Owner[p[2]] = u /\ In(wire[p[2]], i)
    \/ p[1] = "batch" /\ In(Batch(p[2], u), i)
    \/ p[1] = "hand" /\ InHand(p[2], u, i)

\* Nothing is anywhere for somebody it is not for.
Addressed ==
    \A p \in Place, u \in Uid, i \in Number :
        Holds(p, u, i) => i \in Ids /\ u \in Recipients(i)

OnePlace ==
    \A u \in Uid, i \in Ids :
        u \in Recipients(i) => \E p \in Place : \A r \in Place : Holds(r, u, i) <=> r = p

NoTwice ==
    /\ \A u \in Uid : Once(offq[u])
    /\ \A c \in Conn : Once(sendq[c]) /\ Once(wire[c])
    /\ \A h \in Handler : task[h].at \in Draining => Once(task[h].batch)

PlacesInv == Addressed /\ OnePlace /\ NoTwice

-----------------------------------------------------------------------------
(* Ids                                                                     *)

\* A message that is still being placed is neither acknowledged nor marked, and no
\* other handler works on it.
Unsettled ==
    \A g \in Handler : task[g].at \in Placing =>
        /\ task[g].id \notin acked
        /\ \A k \in Key : seen[k] # task[g].id

OneHandler ==
    \A g, h \in Handler :
        task[g].at \in Chatting /\ task[h].at \in Chatting /\ task[g].id = task[h].id => g = h

\* RetryHasReason, of message i alone: a retry of it would have a reason.
Excused(i) ==
    i \in failed \/ origin[i].key \in forgotten \/ origin[i].conn \in Pooled

\* Until a message is excused it is marked or being handled, so that a retry is
\* either suppressed or not read.
Watched ==
    \A i \in Ids :
        \/ Excused(i)
        \/ seen[origin[i].key] # 0
        \/ \E h \in Handler : task[h].at \in Chatting /\ task[h].id = i

Handling ==
    \A h \in Handler : task[h].at \in Chatting =>
        /\ task[h].conn = origin[task[h].id].conn
        /\ task[h].err => task[h].id \in failed
        /\ task[h].at = "finish" =>
              Excused(task[h].id) \/ seen[origin[task[h].id].key] # 0

IdsInv == Unsettled /\ OneHandler /\ Watched /\ Handling /\ RetryHasReason

DeliveryInv == Shape /\ Known /\ Targets /\ PlacesInv /\ IdsInv

-----------------------------------------------------------------------------
(* Queues                                                                  *)

\* No message is in an empty queue.
LEMMA EmptyHolds == \A i : ~In(<<>>, i)
<1>1. DOMAIN <<>> = {}
    OBVIOUS
<1> QED  BY Zenon, <1>1 DEF In

\* Client.Send appends to the buffer of one connection.
LEMMA PutTyped ==
    ASSUME NEW S, NEW q \in [Conn -> Seq(S)], NEW c \in Conn, NEW x \in S
    PROVE  [q EXCEPT ![c] = Append(@, x)] \in [Conn -> Seq(S)]
<1>1. Append(q[c], x) \in Seq(S)
    OBVIOUS
<1> QED  BY Zenon, <1>1

\* Receive gives the message it appends the next number.
LEMMA NextNumber ==
    ASSUME NEW S, NEW q \in Seq(S), NEW e \in S
    PROVE  /\ Len(q) \in Nat /\ Len(Append(q, e)) = Len(q) + 1 /\ Append(q, e)[Len(q) + 1] = e
           /\ \A i \in 1..Len(q) : Append(q, e)[i] = q[i]
           /\ 1..(Len(q) + 1) = 1..Len(q) \cup {Len(q) + 1} /\ Len(q) + 1 \notin 1..Len(q)
OBVIOUS

\* A new id below the bound is one of the numbers.
LEMMA InRange ==
    ASSUME NEW n \in Nat, n + 1 <= MaxId
    PROVE  n + 1 \in Number
BY DeliveryAssumption DEF DeliveryAssumption, Number

\* What appending to a queue and taking its head leave in it.
LEMMA AppendHolds ==
    ASSUME NEW S, NEW q \in Seq(S), NEW x \in S
    PROVE  /\ Append(q, x) \in Seq(S) /\ Len(Append(q, x)) = Len(q) + 1
           /\ \A i : In(Append(q, x), i) <=> In(q, i) \/ i = x
           /\ Once(q) /\ ~In(q, x) => Once(Append(q, x))
<1> DEFINE longer == Append(q, x)
<1>1. /\ longer \in Seq(S) /\ Len(longer) = Len(q) + 1 /\ Len(q) \in Nat
      /\ DOMAIN longer = 1..Len(q) + 1 /\ DOMAIN q = 1..Len(q)
      /\ \A j \in 1..Len(q) : longer[j] = q[j]
      /\ longer[Len(q) + 1] = x
    OBVIOUS
<1> HIDE DEF longer
<1>2. \A j \in DOMAIN longer : j \in DOMAIN q \/ j = Len(q) + 1
    BY <1>1
<1>3. DOMAIN q \subseteq DOMAIN longer /\ Len(q) + 1 \in DOMAIN longer
    BY <1>1
<1>4. \A i : In(longer, i) <=> In(q, i) \/ i = x
    BY <1>1, <1>2, <1>3 DEF In
<1>5. Once(q) /\ ~In(q, x) => Once(longer)
    BY <1>1, <1>2 DEF Once, In
<1> QED  BY <1>1, <1>4, <1>5 DEF longer

\* What taking the head of a queue leaves in it.
LEMMA TailHolds ==
    ASSUME NEW S, NEW q \in Seq(S), q # <<>>, Once(q)
    PROVE  /\ Head(q) \in S /\ In(q, Head(q))
           /\ Tail(q) \in Seq(S) /\ Len(Tail(q)) = Len(q) - 1 /\ Len(q) \in Nat \ {0}
           /\ \A i : In(Tail(q), i) <=> In(q, i) /\ i # Head(q)
           /\ Once(Tail(q))
<1> DEFINE rest == Tail(q)
<1>1. /\ rest \in Seq(S) /\ Len(rest) = Len(q) - 1 /\ Len(q) \in Nat \ {0}
      /\ DOMAIN rest = 1..Len(q) - 1 /\ DOMAIN q = 1..Len(q)
      /\ \A j \in DOMAIN rest : rest[j] = q[j + 1]
      /\ Head(q) = q[1] /\ 1 \in DOMAIN q /\ Head(q) \in S
    OBVIOUS
<1> HIDE DEF rest
<1>2. \A j \in DOMAIN rest : j + 1 \in DOMAIN q /\ j + 1 # 1
    BY <1>1
<1>3. \A j \in DOMAIN q : j = 1 \/ (j - 1 \in DOMAIN rest /\ rest[j - 1] = q[j])
  <2> SUFFICES ASSUME NEW j \in DOMAIN q, j # 1
               PROVE  j - 1 \in DOMAIN rest /\ rest[j - 1] = q[j]
      OBVIOUS
  <2>1. j - 1 \in DOMAIN rest /\ (j - 1) + 1 = j
      BY <1>1
  <2> QED  BY <1>1, <2>1
<1>4. In(q, Head(q))
    BY <1>1 DEF In
<1>5. \A i : In(rest, i) => In(q, i) /\ i # Head(q)
    BY <1>1, <1>2 DEF In, Once
<1>6. \A i : In(q, i) /\ i # Head(q) => In(rest, i)
    BY <1>1, <1>3 DEF In
<1>7. Once(rest)
  <2> SUFFICES ASSUME NEW j \in DOMAIN rest, NEW k \in DOMAIN rest, rest[j] = rest[k]
               PROVE  j = k
      BY DEF Once
  <2>1. j + 1 = k + 1
      BY <1>1, <1>2 DEF Once
  <2>2. j \in Int /\ k \in Int
      BY <1>1
  <2> QED  BY <2>1, <2>2
<1> QED  BY <1>1, <1>4, <1>5, <1>6, <1>7 DEF rest

\* StoreOffline puts i into the queue of u; cut, empty or one message, leaves it.
LEMMA StoreHolds ==
    ASSUME Shape, NoTwice, NEW u \in Uid, NEW i \in Number, StoreOffline(u, i), ~In(offq[u], i)
    PROVE  /\ offq' \in [Uid -> Seq(Number)]
           /\ \A w \in Uid : Len(offq'[w]) <= OfflineMaxSize /\ Once(offq'[w])
           /\ \A w \in Uid \ {u} : offq'[w] = offq[w]
           /\ \E cut \in SUBSET Number :
                 /\ dropped' = dropped \cup ({u} \X cut)
                 /\ \A j \in cut : In(offq[u], j)
                 /\ \A j \in Number : In(offq'[u], j) <=> (In(offq[u], j) /\ j \notin cut) \/ j = i
<1> DEFINE old == offq[u]
           q == Append(old, i)
           excess == IF Len(q) > OfflineMaxSize THEN Len(q) - OfflineMaxSize ELSE 0
           new == SubSeq(q, excess + 1, Len(q))
<1>1. /\ old \in Seq(Number) /\ Len(old) <= OfflineMaxSize /\ Once(old) /\ ~In(old, i)
      /\ OfflineMaxSize \in Nat \ {0} /\ offq \in [Uid -> Seq(Number)]
      /\ \A w \in Uid : Len(offq[w]) <= OfflineMaxSize /\ Once(offq[w])
    BY DeliveryAssumption DEF DeliveryAssumption, Shape, NoTwice
<1>2. offq' = [offq EXCEPT ![u] = new] /\ dropped' = dropped \cup {<<u, q[j]>> : j \in 1..excess}
    BY DEF StoreOffline
<1> HIDE DEF old
<1>3. /\ q \in Seq(Number) /\ Len(q) = Len(old) + 1 /\ Len(old) \in Nat /\ Once(q)
      /\ \A j : In(q, j) <=> In(old, j) \/ j = i
    BY <1>1, AppendHolds
<1>4. ASSUME NEW cut \in SUBSET Number,
             new \in Seq(Number), Len(new) <= OfflineMaxSize, Once(new),
             {<<u, q[j]>> : j \in 1..excess} = {u} \X cut,
             \A j \in cut : In(old, j),
             \A j \in Number : In(new, j) <=> (In(old, j) /\ j \notin cut) \/ j = i
      PROVE  /\ offq' \in [Uid -> Seq(Number)]
             /\ \A w \in Uid : Len(offq'[w]) <= OfflineMaxSize /\ Once(offq'[w])
             /\ \A w \in Uid \ {u} : offq'[w] = offq[w]
             /\ \E c \in SUBSET Number :
                   /\ dropped' = dropped \cup ({u} \X c)
                   /\ \A j \in c : In(offq[u], j)
                   /\ \A j \in Number : In(offq'[u], j) <=> (In(offq[u], j) /\ j \notin c) \/ j = i
  <2> HIDE DEF new, excess, q
  <2>1. offq'[u] = new /\ \A w \in Uid \ {u} : offq'[w] = offq[w]
      BY <1>1, <1>2
  <2> QED  BY Zenon, <1>1, <1>2, <1>4, <2>1 DEF old
<1>5. CASE Len(q) <= OfflineMaxSize
  <2> DEFINE none == {}
  <2>1. excess = 0
      BY <1>1, <1>3, <1>5
  <2>2. new = q
    <3> HIDE DEF q
    <3>1. SubSeq(q, 1, Len(q)) = q
        BY <1>3
    <3> QED  BY <2>1, <3>1
  <2>3. {<<u, q[j]>> : j \in 1..excess} = {u} \X none
    <3> HIDE DEF q, excess
    <3> QED  BY <2>1
  <2>4. \A j \in Number : In(new, j) <=> (In(old, j) /\ j \notin none) \/ j = i
      BY Zenon, <1>3, <2>2
  <2>5. none \in SUBSET Number /\ \A j \in none : In(old, j)
      OBVIOUS
  <2> HIDE DEF q, excess, new, none
  <2> QED  BY Zenon, <1>3, <1>4, <1>5, <2>2, <2>3, <2>4, <2>5
<1>6. CASE Len(q) > OfflineMaxSize
  <2>1. excess = 1 /\ old # <<>> /\ Len(q) = OfflineMaxSize + 1
      BY <1>1, <1>3, <1>6
  <2>2. new = Tail(q) /\ q # <<>>
    <3> HIDE DEF q
    <3>1. q # <<>> /\ SubSeq(q, 2, Len(q)) = Tail(q)
        BY <1>1, <1>3, <2>1
    <3> QED  BY <2>1, <3>1
  <2>3. q[1] = Head(old) /\ Head(q) = q[1]
      BY <1>1, <2>1
  <2>4. /\ new \in Seq(Number) /\ Len(new) = Len(q) - 1 /\ Once(new)
        /\ \A j : In(new, j) <=> In(q, j) /\ j # Head(q)
    <3> HIDE DEF q, new
    <3> QED  BY <1>3, <2>2, TailHolds
  <2>5. Head(old) \in Number /\ In(old, Head(old))
      BY <1>1, <2>1, TailHolds
  <2>6. {<<u, q[j]>> : j \in 1..excess} = {u} \X {Head(old)}
    <3> HIDE DEF q, excess
    <3>1. 1..excess = {1}
        BY <2>1
    <3> QED  BY <2>3, <3>1
  <2>7. \A j \in Number : In(new, j) <=> (In(old, j) /\ j \notin {Head(old)}) \/ j = i
    <3> HIDE DEF q, new
    <3> QED  BY <1>1, <1>3, <2>3, <2>4, <2>5
  <2>8. Len(new) <= OfflineMaxSize
    <3> HIDE DEF q, new
    <3> QED  BY <1>1, <2>1, <2>4
  <2> HIDE DEF q, excess, new
  <2> QED  BY Zenon, <1>4, <2>4, <2>5, <2>6, <2>7, <2>8
<1> QED
  <2> HIDE DEF q, new, excess
  <2>1. Len(q) <= OfflineMaxSize \/ Len(q) > OfflineMaxSize
      BY <1>1, <1>3
  <2> QED  BY <1>5, <1>6, <2>1, Zenon

-----------------------------------------------------------------------------
(* Handing over                                                            *)

\* A step leaves message i for u where it is,
Same(u, i) == \A r \in Place : Holds(r, u, i)' <=> Holds(r, u, i)

\* or takes it out of p and puts it into s.
Moved(p, s, u, i) ==
    /\ p \in Place /\ s \in Place /\ Holds(p, u, i)
    /\ \A r \in Place : Holds(r, u, i)' <=> r = s \/ (Holds(r, u, i) /\ r # p)

\* The ids handed out are in the range of ids.
LEMMA IdsNumbers ==
    ASSUME Shape
    PROVE  Ids \subseteq Number
BY DeliveryAssumption DEF DeliveryAssumption, Shape, Ids, Number

\* A step that only hands messages over keeps every message in one place.
LEMMA PlacesKeep ==
    ASSUME Shape, Addressed, OnePlace, UNCHANGED <<origin, unrouted>>,
           \A u \in Uid, i \in Number : Same(u, i) \/ \E p, s : Moved(p, s, u, i)
    PROVE  Addressed' /\ OnePlace'
<1>1. Ids' = Ids /\ \A i : Recipients(i)' = Recipients(i)
    BY DEF Ids, Recipients
<1>2. Addressed'
  <2> SUFFICES ASSUME NEW r \in Place, NEW u \in Uid, NEW i \in Number, Holds(r, u, i)'
               PROVE  i \in Ids /\ u \in Recipients(i)
      BY <1>1 DEF Addressed, Place
  <2>1. CASE Same(u, i)
      BY <2>1 DEF Same, Addressed
  <2>2. CASE \E p, s : Moved(p, s, u, i)
      BY <2>2 DEF Moved, Addressed
  <2> QED  BY <2>1, <2>2
<1>3. OnePlace'
  <2> SUFFICES ASSUME NEW u \in Uid, NEW i \in Ids, u \in Recipients(i)
               PROVE  \E p \in Place : \A r \in Place : Holds(r, u, i)' <=> r = p
      BY <1>1 DEF OnePlace, Place
  <2>1. PICK p \in Place : \A r \in Place : Holds(r, u, i) <=> r = p
      BY DEF OnePlace
  <2>2. i \in Number
      BY IdsNumbers
  <2>3. CASE Same(u, i)
      BY <2>1, <2>3 DEF Same
  <2>4. ASSUME NEW q, NEW s, Moved(q, s, u, i) PROVE \A r \in Place : Holds(r, u, i)' <=> r = s
      BY <2>1, <2>4 DEF Moved
  <2> QED  BY Zenon, <2>2, <2>3, <2>4 DEF Moved
<1> QED  BY <1>2, <1>3

\* A place is one of six kinds.
LEMMA PlaceKinds ==
    ASSUME NEW p \in Place
    PROVE  \/ p = <<"offline", "user">>
           \/ p = <<"dropped", "user">>
           \/ \E c \in Conn : p = <<"buffer", c>> \/ p = <<"wire", c>>
           \/ \E h \in Handler : p = <<"batch", h>> \/ p = <<"hand", h>>
BY DEF Place

\* What the six kinds hold.
LEMMA HoldsKinds ==
    ASSUME NEW u, NEW i
    PROVE  /\ Holds(<<"offline", "user">>, u, i) <=> In(offq[u], i)
           /\ Holds(<<"dropped", "user">>, u, i) <=> <<u, i>> \in dropped
           /\ \A c : Holds(<<"buffer", c>>, u, i) <=> Owner[c] = u /\ In(sendq[c], i)
           /\ \A c : Holds(<<"wire", c>>, u, i) <=> Owner[c] = u /\ In(wire[c], i)
           /\ \A h : Holds(<<"batch", h>>, u, i) <=> In(Batch(h, u), i)
           /\ \A h : Holds(<<"hand", h>>, u, i) <=> InHand(h, u, i)
BY DEF Holds

\* The same after a step: what each kind of place holds.
LEMMA HoldsKindsNext ==
    ASSUME NEW u, NEW i
    PROVE  /\ Holds(<<"offline", "user">>, u, i)' <=> In(offq'[u], i)
           /\ Holds(<<"dropped", "user">>, u, i)' <=> <<u, i>> \in dropped'
           /\ \A c : Holds(<<"buffer", c>>, u, i)' <=> Owner[c] = u /\ In(sendq'[c], i)
           /\ \A c : Holds(<<"wire", c>>, u, i)' <=> Owner[c] = u /\ In(wire'[c], i)
           /\ \A h : Holds(<<"batch", h>>, u, i)' <=> In(Batch(h, u), i)'
           /\ \A h : Holds(<<"hand", h>>, u, i)' <=> InHand(h, u, i)'
BY DEF Holds, In

\* Nothing that i's places are made of has changed.
LEMMA SameHolds ==
    ASSUME NEW u, NEW i,
           In(offq'[u], i) <=> In(offq[u], i),
           <<u, i>> \in dropped' <=> <<u, i>> \in dropped,
           \A c \in Conn : Owner[c] = u => /\ In(sendq'[c], i) <=> In(sendq[c], i)
                                           /\ In(wire'[c], i) <=> In(wire[c], i),
           \A h \in Handler : /\ In(Batch(h, u), i)' <=> In(Batch(h, u), i)
                              /\ InHand(h, u, i)' <=> InHand(h, u, i)
    PROVE  Same(u, i)
BY PlaceKinds, HoldsKinds, HoldsKindsNext DEF Same

\* The same for a message that is handed over from p to s.
LEMMA MovedHolds ==
    ASSUME NEW u, NEW i, NEW p \in Place, NEW s \in Place, Holds(p, u, i),
           In(offq'[u], i) <=>
               s = <<"offline", "user">> \/ (In(offq[u], i) /\ p # <<"offline", "user">>),
           <<u, i>> \in dropped' <=>
               s = <<"dropped", "user">> \/ (<<u, i>> \in dropped /\ p # <<"dropped", "user">>),
           \A c \in Conn :
               /\ Owner[c] = u /\ In(sendq'[c], i) <=>
                     s = <<"buffer", c>> \/ (Owner[c] = u /\ In(sendq[c], i) /\ p # <<"buffer", c>>)
               /\ Owner[c] = u /\ In(wire'[c], i) <=>
                     s = <<"wire", c>> \/ (Owner[c] = u /\ In(wire[c], i) /\ p # <<"wire", c>>),
           \A h \in Handler :
               /\ In(Batch(h, u), i)' <=>
                     s = <<"batch", h>> \/ (In(Batch(h, u), i) /\ p # <<"batch", h>>)
               /\ InHand(h, u, i)' <=>
                     s = <<"hand", h>> \/ (InHand(h, u, i) /\ p # <<"hand", h>>)
    PROVE  Moved(p, s, u, i)
<1> SUFFICES ASSUME NEW r \in Place
             PROVE  Holds(r, u, i)' <=> r = s \/ (Holds(r, u, i) /\ r # p)
    BY DEF Moved
<1>1. CASE r = <<"offline", "user">> \/ r = <<"dropped", "user">>
    BY <1>1, HoldsKinds, HoldsKindsNext
<1>2. ASSUME NEW c \in Conn, r = <<"buffer", c>> \/ r = <<"wire", c>>
      PROVE  Holds(r, u, i)' <=> r = s \/ (Holds(r, u, i) /\ r # p)
    BY <1>2, HoldsKinds, HoldsKindsNext
<1>3. ASSUME NEW h \in Handler, r = <<"batch", h>> \/ r = <<"hand", h>>
      PROVE  Holds(r, u, i)' <=> r = s \/ (Holds(r, u, i) /\ r # p)
    BY <1>3, HoldsKinds, HoldsKindsNext
<1> QED  BY <1>1, <1>2, <1>3, PlaceKinds

\* A handler whose task stays keeps what it has in hand.
LEMMA TaskHolds ==
    ASSUME NEW h \in Handler, task'[h] = task[h]
    PROVE  \A u, i : /\ In(Batch(h, u), i)' <=> In(Batch(h, u), i)
                     /\ InHand(h, u, i)' <=> InHand(h, u, i)
BY DEF Batch, InHand, In

\* Steps of connections and handlers that leave every message where it is.
LEMMA CalmKeeps ==
    ASSUME Shape, PlacesInv, UNCHANGED <<origin, unrouted, offq, dropped, sendq, wire>>,
           \A h \in Handler : \A u \in Uid, i \in Number :
               /\ In(Batch(h, u), i)' <=> In(Batch(h, u), i)
               /\ InHand(h, u, i)' <=> InHand(h, u, i),
           \A h \in Handler : task'[h].at \in Draining =>
               task[h].at \in Draining /\ task'[h].batch = task[h].batch
    PROVE  PlacesInv'
<1>1. \A u \in Uid, i \in Number : Same(u, i)
    BY Zenon, SameHolds
<1>2. Addressed' /\ OnePlace'
    BY <1>1, PlacesKeep DEF PlacesInv
<1>3. NoTwice'
    BY DEF PlacesInv, NoTwice, Once
<1> QED  BY <1>2, <1>3 DEF PlacesInv

\* A writer moves the oldest message of its buffer to the wire.
LEMMA FlushPlaces ==
    ASSUME Shape, PlacesInv, NEW c \in Conn, Flush(c), UNCHANGED <<task, routerVars>>
    PROVE  PlacesInv'
<1>0. PICK x, o, p, s : /\ x = Head(sendq[c]) /\ o = Owner[c]
                        /\ p = <<"buffer", c>> /\ s = <<"wire", c>>
    BY Zenon
<1>1. /\ sendq[c] # <<>> /\ sendq' = [sendq EXCEPT ![c] = Tail(@)]
      /\ wire' = [wire EXCEPT ![c] = Append(@, x)]
      /\ UNCHANGED <<task, origin, unrouted, offq, dropped>>
    BY <1>0 DEF Flush, routerVars
<1>2. /\ sendq \in [Conn -> Seq(Number)] /\ wire \in [Conn -> Seq(Number)] /\ o \in Uid
      /\ \A d \in Conn : Once(sendq[d]) /\ Once(wire[d])
    BY <1>0, DeliveryAssumption DEF DeliveryAssumption, Shape, PlacesInv, NoTwice
<1>3. /\ x \in Number /\ In(sendq[c], x) /\ Once(Tail(sendq[c]))
      /\ \A i : In(Tail(sendq[c]), i) <=> In(sendq[c], i) /\ i # x
    BY <1>0, <1>1, <1>2, TailHolds
<1>4. ~In(wire[c], x)
  <2>1. Holds(<<"buffer", c>>, o, x) /\ <<"buffer", c>> \in Place /\ <<"wire", c>> \in Place
      BY Zenon, <1>0, <1>3, HoldsKinds DEF Place
  <2>2. ~Holds(<<"wire", c>>, o, x)
      BY <1>2, <1>3, <2>1 DEF PlacesInv, Addressed, OnePlace
  <2> QED  BY Zenon, <1>0, <2>2, HoldsKinds
<1>5. /\ \A i : In(Append(wire[c], x), i) <=> In(wire[c], i) \/ i = x
      /\ Once(Append(wire[c], x))
    BY <1>2, <1>3, <1>4, AppendHolds
<1>6. /\ sendq'[c] = Tail(sendq[c]) /\ wire'[c] = Append(wire[c], x)
      /\ \A d \in Conn \ {c} : sendq'[d] = sendq[d] /\ wire'[d] = wire[d]
    BY <1>1, <1>2
<1>7. \A h \in Handler : \A u, i : /\ In(Batch(h, u), i)' <=> In(Batch(h, u), i)
                                   /\ InHand(h, u, i)' <=> InHand(h, u, i)
    BY <1>1, TaskHolds
<1>8. ASSUME NEW u \in Uid, NEW i \in Number, ~(u = o /\ i = x) PROVE Same(u, i)
  <2>1. \A d \in Conn : Owner[d] = u => /\ In(sendq'[d], i) <=> In(sendq[d], i)
                                        /\ In(wire'[d], i) <=> In(wire[d], i)
      BY Zenon, <1>0, <1>3, <1>5, <1>6, <1>8
  <2> QED  BY <1>1, <1>7, <2>1, SameHolds
<1>9. Moved(p, s, o, x)
  <2>1. p \in Place /\ s \in Place /\ Holds(p, o, x)
      BY Zenon, <1>0, <1>3, HoldsKinds DEF Place
  <2>2. \A d \in Conn :
            /\ Owner[d] = o /\ In(sendq'[d], x) <=>
                  s = <<"buffer", d>> \/ (Owner[d] = o /\ In(sendq[d], x) /\ p # <<"buffer", d>>)
            /\ Owner[d] = o /\ In(wire'[d], x) <=>
                  s = <<"wire", d>> \/ (Owner[d] = o /\ In(wire[d], x) /\ p # <<"wire", d>>)
      BY Zenon, <1>0, <1>3, <1>5, <1>6
  <2>3. s # <<"offline", "user">> /\ s # <<"dropped", "user">>
        /\ p # <<"offline", "user">> /\ p # <<"dropped", "user">>
      BY <1>0
  <2>4. \A h : s # <<"batch", h>> /\ s # <<"hand", h>> /\ p # <<"batch", h>> /\ p # <<"hand", h>>
      BY <1>0
  <2>5. /\ In(offq'[o], x) <=> s = <<"offline", "user">> \/ (In(offq[o], x) /\ p # <<"offline", "user">>)
        /\ <<o, x>> \in dropped' <=>
              s = <<"dropped", "user">> \/ (<<o, x>> \in dropped /\ p # <<"dropped", "user">>)
      BY <1>1, <2>3
  <2>6. \A h \in Handler :
            /\ In(Batch(h, o), x)' <=> s = <<"batch", h>> \/ (In(Batch(h, o), x) /\ p # <<"batch", h>>)
            /\ InHand(h, o, x)' <=> s = <<"hand", h>> \/ (InHand(h, o, x) /\ p # <<"hand", h>>)
      BY <1>7, <2>4
  <2> QED  BY <2>1, <2>2, <2>5, <2>6, MovedHolds
<1>10. Addressed' /\ OnePlace'
    BY <1>1, <1>8, <1>9, PlacesKeep DEF PlacesInv
<1>11. NoTwice'
  <2>1. \A d \in Conn : Once(sendq'[d]) /\ Once(wire'[d])
      BY Zenon, <1>2, <1>3, <1>5, <1>6
  <2> QED  BY <1>1, <2>1 DEF PlacesInv, NoTwice, Once
<1> QED  BY <1>10, <1>11 DEF PlacesInv

\* A handler lets go of message x for u, which it held at place p, and of nothing else.
Released(p, u, x) ==
    \A g \in Handler : \A w \in Uid, i \in Number :
        /\ In(Batch(g, w), i)' <=> In(Batch(g, w), i) /\ ~(p = <<"batch", g>> /\ w = u /\ i = x)
        /\ InHand(g, w, i)' <=> InHand(g, w, i) /\ ~(p = <<"hand", g>> /\ w = u /\ i = x)

BatchesOnce == \A g \in Handler : task[g].at \in Draining => Once(task[g].batch)

\* What one place holds no other does.
LEMMA OnlyThere ==
    ASSUME Shape, Addressed, OnePlace, NEW p \in Place, NEW s \in Place, NEW u \in Uid, NEW x \in Number,
           Holds(p, u, x), p # s
    PROVE  ~Holds(s, u, x)
BY DEF Addressed, OnePlace

\* A handler puts a message into the buffer of one of the user's connections.
LEMMA PutPlaces ==
    ASSUME Shape, PlacesInv, NEW h \in Handler, NEW c \in Conn, NEW u \in Uid, NEW x \in Number,
           NEW p \in {<<"hand", h>>, <<"batch", h>>}, Holds(p, u, x), Owner[c] = u,
           Put(c, x), Released(p, u, x), BatchesOnce',
           UNCHANGED <<origin, unrouted, offq, dropped, wire>>
    PROVE  PlacesInv'
<1>0. PICK s : s = <<"buffer", c>>
    BY Zenon
<1>1. /\ p \in Place /\ s \in Place /\ p # s
      /\ p # <<"offline", "user">> /\ p # <<"dropped", "user">>
      /\ s # <<"offline", "user">> /\ s # <<"dropped", "user">>
      /\ \A d : p # <<"buffer", d>> /\ p # <<"wire", d>> /\ s # <<"wire", d>>
      /\ \A g : s # <<"batch", g>> /\ s # <<"hand", g>>
    BY <1>0 DEF Place
<1>2. sendq \in [Conn -> Seq(Number)] /\ \A d \in Conn : Once(sendq[d])
    BY DEF Shape, PlacesInv, NoTwice
<1>3. ~In(sendq[c], x)
  <2>1. ~Holds(s, u, x)
      BY <1>1, OnlyThere DEF PlacesInv
  <2> QED  BY Zenon, <1>0, <2>1, HoldsKinds
<1>4. /\ sendq'[c] = Append(sendq[c], x) /\ Once(sendq'[c])
      /\ \A i : In(sendq'[c], i) <=> In(sendq[c], i) \/ i = x
      /\ \A d \in Conn \ {c} : sendq'[d] = sendq[d]
  <2>1. sendq'[c] = Append(sendq[c], x) /\ \A d \in Conn \ {c} : sendq'[d] = sendq[d]
      BY Zenon, <1>2 DEF Put
  <2> QED  BY <1>2, <1>3, <2>1, AppendHolds
<1>5. ASSUME NEW w \in Uid, NEW i \in Number, ~(w = u /\ i = x) PROVE Same(w, i)
  <2>1. \A d \in Conn : Owner[d] = w => /\ In(sendq'[d], i) <=> In(sendq[d], i)
                                        /\ In(wire'[d], i) <=> In(wire[d], i)
      BY Zenon, <1>4, <1>5
  <2>2. \A g \in Handler : /\ In(Batch(g, w), i)' <=> In(Batch(g, w), i)
                           /\ InHand(g, w, i)' <=> InHand(g, w, i)
      BY <1>5 DEF Released
  <2> QED  BY <2>1, <2>2, SameHolds
<1>6. Moved(p, s, u, x)
  <2>1. \A d \in Conn :
            /\ Owner[d] = u /\ In(sendq'[d], x) <=>
                  s = <<"buffer", d>> \/ (Owner[d] = u /\ In(sendq[d], x) /\ p # <<"buffer", d>>)
            /\ Owner[d] = u /\ In(wire'[d], x) <=>
                  s = <<"wire", d>> \/ (Owner[d] = u /\ In(wire[d], x) /\ p # <<"wire", d>>)
      BY Zenon, <1>0, <1>1, <1>4
  <2>2. /\ In(offq'[u], x) <=> s = <<"offline", "user">> \/ (In(offq[u], x) /\ p # <<"offline", "user">>)
        /\ <<u, x>> \in dropped' <=>
              s = <<"dropped", "user">> \/ (<<u, x>> \in dropped /\ p # <<"dropped", "user">>)
      BY <1>1
  <2>3. \A g \in Handler :
            /\ In(Batch(g, u), x)' <=> s = <<"batch", g>> \/ (In(Batch(g, u), x) /\ p # <<"batch", g>>)
            /\ InHand(g, u, x)' <=> s = <<"hand", g>> \/ (InHand(g, u, x) /\ p # <<"hand", g>>)
      BY <1>1 DEF Released
  <2> QED  BY Zenon, <1>1, <2>1, <2>2, <2>3, MovedHolds
<1>7. Addressed' /\ OnePlace'
    BY <1>5, <1>6, PlacesKeep DEF PlacesInv
<1>8. NoTwice'
  <2>1. \A d \in Conn : Once(sendq'[d])
      BY Zenon, <1>2, <1>4
  <2> QED  BY <2>1 DEF PlacesInv, NoTwice, BatchesOnce, Once
<1> QED  BY <1>7, <1>8 DEF PlacesInv

\* A handler stores a message offline; a full queue loses its oldest one.
LEMMA StorePlaces ==
    ASSUME Shape, PlacesInv, NEW h \in Handler, NEW u \in Uid, NEW x \in Number,
           NEW p \in {<<"hand", h>>, <<"batch", h>>}, Holds(p, u, x),
           StoreOffline(u, x), Released(p, u, x), BatchesOnce',
           UNCHANGED <<origin, unrouted, sendq, wire>>
    PROVE  PlacesInv' /\ offq' \in [Uid -> Seq(Number)] /\ dropped' \subseteq Uid \X Number
           /\ \A w \in Uid : Len(offq'[w]) <= OfflineMaxSize
<1>0. PICK s, t : s = <<"offline", "user">> /\ t = <<"dropped", "user">>
    BY Zenon
<1>1. /\ p \in Place /\ s \in Place /\ t \in Place /\ p # s /\ p # t /\ s # t
      /\ \A d : /\ p # <<"buffer", d>> /\ p # <<"wire", d>>
                /\ s # <<"buffer", d>> /\ s # <<"wire", d>>
                /\ t # <<"buffer", d>> /\ t # <<"wire", d>>
      /\ \A g : s # <<"batch", g>> /\ s # <<"hand", g>> /\ t # <<"batch", g>> /\ t # <<"hand", g>>
    BY <1>0 DEF Place
<1>2. ~In(offq[u], x) /\ <<u, x>> \notin dropped
  <2>1. ~Holds(s, u, x) /\ ~Holds(t, u, x)
      BY <1>1, OnlyThere DEF PlacesInv
  <2> QED  BY <1>0, <2>1, HoldsKinds
<1>3. /\ offq' \in [Uid -> Seq(Number)]
      /\ \A w \in Uid : Len(offq'[w]) <= OfflineMaxSize /\ Once(offq'[w])
      /\ \A w \in Uid \ {u} : offq'[w] = offq[w]
    BY <1>2, StoreHolds DEF PlacesInv
<1>4. PICK cut \in SUBSET Number :
          /\ dropped' = dropped \cup ({u} \X cut)
          /\ \A j \in cut : In(offq[u], j)
          /\ \A j \in Number : In(offq'[u], j) <=> (In(offq[u], j) /\ j \notin cut) \/ j = x
    BY Zenon, <1>2, StoreHolds DEF PlacesInv
<1>5. x \notin cut
    BY <1>2, <1>4
<1>6. ASSUME NEW w \in Uid, NEW i \in Number, ~(w = u /\ (i = x \/ i \in cut)) PROVE Same(w, i)
  <2>1. /\ In(offq'[w], i) <=> In(offq[w], i)
        /\ <<w, i>> \in dropped' <=> <<w, i>> \in dropped
      BY <1>3, <1>4, <1>6
  <2>2. \A g \in Handler : /\ In(Batch(g, w), i)' <=> In(Batch(g, w), i)
                           /\ InHand(g, w, i)' <=> InHand(g, w, i)
      BY <1>6 DEF Released
  <2> QED  BY Zenon, <2>1, <2>2, SameHolds
<1>7. Moved(p, s, u, x)
  <2>1. \A d \in Conn :
            /\ Owner[d] = u /\ In(sendq'[d], x) <=>
                  s = <<"buffer", d>> \/ (Owner[d] = u /\ In(sendq[d], x) /\ p # <<"buffer", d>>)
            /\ Owner[d] = u /\ In(wire'[d], x) <=>
                  s = <<"wire", d>> \/ (Owner[d] = u /\ In(wire[d], x) /\ p # <<"wire", d>>)
      BY Zenon, <1>1
  <2>2. /\ In(offq'[u], x) <=> s = <<"offline", "user">> \/ (In(offq[u], x) /\ p # <<"offline", "user">>)
        /\ <<u, x>> \in dropped' <=>
              s = <<"dropped", "user">> \/ (<<u, x>> \in dropped /\ p # <<"dropped", "user">>)
      BY Zenon, <1>0, <1>1, <1>2, <1>4, <1>5
  <2>3. \A g \in Handler :
            /\ In(Batch(g, u), x)' <=> s = <<"batch", g>> \/ (In(Batch(g, u), x) /\ p # <<"batch", g>>)
            /\ InHand(g, u, x)' <=> s = <<"hand", g>> \/ (InHand(g, u, x) /\ p # <<"hand", g>>)
      BY <1>1 DEF Released
  <2> QED  BY Zenon, <1>1, <2>1, <2>2, <2>3, MovedHolds
<1>8. ASSUME NEW i \in cut PROVE Moved(s, t, u, i)
  <2>0. Holds(s, u, i) /\ i # x /\ i \in Number
      BY Zenon, <1>0, <1>4, <1>5, HoldsKinds
  <2>1. \A d \in Conn :
            /\ Owner[d] = u /\ In(sendq'[d], i) <=>
                  t = <<"buffer", d>> \/ (Owner[d] = u /\ In(sendq[d], i) /\ s # <<"buffer", d>>)
            /\ Owner[d] = u /\ In(wire'[d], i) <=>
                  t = <<"wire", d>> \/ (Owner[d] = u /\ In(wire[d], i) /\ s # <<"wire", d>>)
      BY Zenon, <1>1
  <2>2. /\ In(offq'[u], i) <=> t = <<"offline", "user">> \/ (In(offq[u], i) /\ s # <<"offline", "user">>)
        /\ <<u, i>> \in dropped' <=>
              t = <<"dropped", "user">> \/ (<<u, i>> \in dropped /\ s # <<"dropped", "user">>)
      BY Zenon, <1>0, <1>1, <1>4, <2>0
  <2>3. \A g \in Handler :
            /\ In(Batch(g, u), i)' <=> t = <<"batch", g>> \/ (In(Batch(g, u), i) /\ s # <<"batch", g>>)
            /\ InHand(g, u, i)' <=> t = <<"hand", g>> \/ (InHand(g, u, i) /\ s # <<"hand", g>>)
      BY <1>1, <2>0 DEF Released
  <2> QED  BY Zenon, <1>1, <2>0, <2>1, <2>2, <2>3, MovedHolds
<1>9. Addressed' /\ OnePlace'
    BY Zenon, <1>6, <1>7, <1>8, PlacesKeep DEF PlacesInv
<1>10. NoTwice'
    BY <1>3 DEF PlacesInv, NoTwice, BatchesOnce, Once
<1>11. dropped' \subseteq Uid \X Number
    BY <1>4 DEF Shape
<1> QED  BY <1>3, <1>9, <1>10, <1>11 DEF PlacesInv

\* handleOffline takes the whole queue over into its batch.
LEMMA FetchPlaces ==
    ASSUME Shape, PlacesInv, NEW h \in Handler, NEW c \in Conn, Fetch(h, c)
    PROVE  PlacesInv'
<1>0. PICK p, s, u : p = <<"offline", "user">> /\ s = <<"batch", h>> /\ u = Owner[c]
    BY Zenon
<1>1. /\ task[h].at = "idle" /\ offq[u] # <<>>
      /\ task' = [task EXCEPT ![h] = [at |-> "drain", conn |-> c, batch |-> offq[u]]]
      /\ offq' = [offq EXCEPT ![u] = <<>>]
      /\ UNCHANGED <<origin, unrouted, dropped, sendq, wire>>
    BY Zenon, <1>0 DEF Fetch, MayRead, Busy, SetTask, connVars
<1>2. /\ u \in Uid /\ offq \in [Uid -> Seq(Number)] /\ Once(offq[u])
      /\ task \in [Handler -> {Idle} \cup ChatTask \cup DrainTask]
    BY <1>0, DeliveryAssumption DEF DeliveryAssumption, Shape, PlacesInv, NoTwice
<1>3. /\ task'[h].at = "drain" /\ task'[h].conn = c /\ task'[h].batch = offq[u]
      /\ \A g \in Handler \ {h} : task'[g] = task[g]
      /\ offq'[u] = <<>> /\ \A w \in Uid \ {u} : offq'[w] = offq[w]
    BY Zenon, <1>1, <1>2
<1>4. /\ \A w, i : ~In(Batch(h, w), i) /\ ~InHand(h, w, i) /\ ~InHand(h, w, i)'
      /\ \A i : ~In(offq'[u], i)
      /\ \A i : In(Batch(h, u), i)' <=> In(offq[u], i)
      /\ \A w : w # u => \A i : ~In(Batch(h, w), i)'
  <2>1. \A i : ~In(<<>>, i)
      BY Zenon, EmptyHolds
  <2>2. Batch(h, u)' = offq[u] /\ \A w : w # u => Batch(h, w)' = <<>>
      BY <1>0, <1>3 DEF Batch, Draining
  <2>3. \A w : Batch(h, w) = <<>>
      BY <1>1 DEF Batch
  <2>4. \A w, i : ~InHand(h, w, i) /\ ~InHand(h, w, i)'
      BY <1>1, <1>3 DEF InHand
  <2>5. \A i : In(Batch(h, u), i)' <=> In(offq[u], i)
      BY <2>2 DEF In
  <2>6. \A w : w # u => \A i : ~In(Batch(h, w), i)'
      BY Zenon, <2>1, <2>2 DEF In
  <2> QED  BY <1>3, <2>1, <2>3, <2>4, <2>5, <2>6
<1>5. \A g \in Handler \ {h} : \A w, i : /\ In(Batch(g, w), i)' <=> In(Batch(g, w), i)
                                         /\ InHand(g, w, i)' <=> InHand(g, w, i)
    BY <1>3, TaskHolds
<1>6. /\ p \in Place /\ s \in Place
      /\ p # <<"dropped", "user">> /\ s # <<"offline", "user">> /\ s # <<"dropped", "user">>
      /\ \A d : /\ p # <<"buffer", d>> /\ p # <<"wire", d>>
                /\ s # <<"buffer", d>> /\ s # <<"wire", d>>
      /\ \A g : p # <<"batch", g>> /\ p # <<"hand", g>> /\ s # <<"hand", g>>
      /\ \A g : s = <<"batch", g>> <=> g = h
    BY Zenon, <1>0 DEF Place
<1>7. ASSUME NEW w \in Uid, NEW i \in Number, ~(w = u /\ In(offq[u], i)) PROVE Same(w, i)
  <2>1. In(offq'[w], i) <=> In(offq[w], i)
      BY Zenon, <1>3, <1>4, <1>7
  <2>2. \A g \in Handler : /\ In(Batch(g, w), i)' <=> In(Batch(g, w), i)
                           /\ InHand(g, w, i)' <=> InHand(g, w, i)
      BY Zenon, <1>4, <1>5, <1>7
  <2> QED  BY Zenon, <1>1, <2>1, <2>2, SameHolds
<1>8. ASSUME NEW i \in Number, In(offq[u], i) PROVE Moved(p, s, u, i)
  <2>0. Holds(p, u, i)
      BY Zenon, <1>0, <1>8, HoldsKinds
  <2>1. \A d \in Conn :
            /\ Owner[d] = u /\ In(sendq'[d], i) <=>
                  s = <<"buffer", d>> \/ (Owner[d] = u /\ In(sendq[d], i) /\ p # <<"buffer", d>>)
            /\ Owner[d] = u /\ In(wire'[d], i) <=>
                  s = <<"wire", d>> \/ (Owner[d] = u /\ In(wire[d], i) /\ p # <<"wire", d>>)
      BY Zenon, <1>1, <1>6
  <2>2. /\ In(offq'[u], i) <=> s = <<"offline", "user">> \/ (In(offq[u], i) /\ p # <<"offline", "user">>)
        /\ <<u, i>> \in dropped' <=>
              s = <<"dropped", "user">> \/ (<<u, i>> \in dropped /\ p # <<"dropped", "user">>)
      BY Zenon, <1>0, <1>1, <1>4, <1>6
  <2>3. \A g \in Handler :
            /\ In(Batch(g, u), i)' <=> s = <<"batch", g>> \/ (In(Batch(g, u), i) /\ p # <<"batch", g>>)
            /\ InHand(g, u, i)' <=> s = <<"hand", g>> \/ (InHand(g, u, i) /\ p # <<"hand", g>>)
      BY <1>4, <1>5, <1>6, <1>8
  <2> QED  BY Zenon, <1>6, <2>0, <2>1, <2>2, <2>3, MovedHolds
<1>9. Addressed' /\ OnePlace'
    BY Zenon, <1>1, <1>7, <1>8, PlacesKeep DEF PlacesInv
<1>10. NoTwice'
  <2>1. \A w \in Uid : Once(offq'[w])
      BY <1>3 DEF PlacesInv, NoTwice, Once
  <2>2. \A g \in Handler : task'[g].at \in Draining => Once(task'[g].batch)
      BY Zenon, <1>2, <1>3 DEF PlacesInv, NoTwice
  <2> QED  BY Zenon, <1>1, <2>1, <2>2 DEF PlacesInv, NoTwice, Once
<1> QED  BY <1>9, <1>10 DEF PlacesInv

\* A new message is in the hand of its handler, for each of its recipients.
LEMMA ReceivePlaces ==
    ASSUME Shape, Known, PlacesInv, NEW h \in Handler, NEW c \in Conn, NEW k \in Key, Receive(h, c, k)
    PROVE  PlacesInv'
<1>0. PICK new, s : new = Len(origin) + 1 /\ s = <<"hand", h>>
    BY Zenon
<1>1. /\ task[h].at = "idle" /\ new <= MaxId
      /\ origin' = Append(origin, [key |-> k, conn |-> c])
      /\ UNCHANGED <<offq, dropped, sendq, wire>>
    BY Zenon, <1>0 DEF Receive, MayRead, Busy, connVars
<1>2. /\ task \in [Handler -> {Idle} \cup ChatTask \cup DrainTask]
      /\ origin \in Seq([key : Key, conn : Conn]) /\ MaxId \in Nat
      /\ [key |-> k, conn |-> c] \in [key : Key, conn : Conn]
      /\ To[k] \subseteq Uid
    BY Zenon, DeliveryAssumption DEF DeliveryAssumption, Shape
<1>3. /\ Len(origin) \in Nat /\ Ids = 1..Len(origin) /\ Ids' = 1..new /\ new \in Number /\ new \notin Ids
      /\ Ids' = Ids \cup {new}
      /\ \A i \in Ids : origin'[i] = origin[i]
      /\ origin'[new].key = k
  <2>1. PICK e \in [key : Key, conn : Conn] : e = [key |-> k, conn |-> c] /\ e.key = k
      BY Zenon, <1>2
  <2>2. origin' = Append(origin, e)
      BY Zenon, <1>1, <2>1
  <2>3. /\ Len(origin) \in Nat /\ Len(origin') = new /\ origin'[new] = e
        /\ \A i \in 1..Len(origin) : origin'[i] = origin[i]
        /\ 1..new = 1..Len(origin) \cup {new} /\ new \notin 1..Len(origin)
    <3>1. PICK q, r, S : q = origin /\ r = origin' /\ S = [key : Key, conn : Conn]
        BY Zenon
    <3>2. q \in Seq(S) /\ e \in S /\ r = Append(q, e) /\ new = Len(q) + 1
        BY Zenon, <1>0, <1>2, <2>1, <2>2, <3>1
    <3>3. /\ Len(q) \in Nat /\ Len(r) = Len(q) + 1 /\ r[Len(q) + 1] = e
          /\ \A i \in 1..Len(q) : r[i] = q[i]
          /\ 1..(Len(q) + 1) = 1..Len(q) \cup {Len(q) + 1} /\ Len(q) + 1 \notin 1..Len(q)
        BY <3>2, NextNumber
    <3> QED  BY Zenon, <3>1, <3>2, <3>3
  <2>4. Ids = 1..Len(origin) /\ Ids' = 1..new
      BY Zenon, <2>3 DEF Ids
  <2>5. new \in Number
      BY Zenon, <1>0, <1>1, <2>3, InRange
  <2> QED  BY Zenon, <2>1, <2>3, <2>4, <2>5
<1>4. /\ \A g \in Handler \ {h} : task'[g] = task[g]
      /\ \/ /\ task'[h].at = "lookup" /\ task'[h].id = new /\ task'[h].todo = To[k]
            /\ unrouted' = unrouted
         \/ /\ task'[h].at = "mark"
            /\ unrouted' = unrouted \cup {new}
  <2>1. PICK t : /\ task' = [task EXCEPT ![h] = t]
                 /\ \/ /\ t = [at |-> "lookup", conn |-> c, id |-> new, todo |-> To[k], uid |-> Owner[c],
                               target |-> NoConn, err |-> FALSE]
                       /\ unrouted' = unrouted
                    \/ /\ t = [at |-> "mark", conn |-> c, id |-> new, todo |-> {}, uid |-> Owner[c],
                               target |-> NoConn, err |-> FALSE]
                       /\ unrouted' = unrouted \cup {new}
      BY Zenon, <1>0 DEF Receive, SetTask
  <2>2. \/ t.at = "lookup" /\ t.id = new /\ t.todo = To[k] /\ unrouted' = unrouted
        \/ t.at = "mark" /\ unrouted' = unrouted \cup {new}
    <3>1. CASE /\ t = [at |-> "lookup", conn |-> c, id |-> new, todo |-> To[k], uid |-> Owner[c],
                       target |-> NoConn, err |-> FALSE]
               /\ unrouted' = unrouted
      <4>1. t.at = "lookup" /\ t.id = new /\ t.todo = To[k]
          BY Zenon, <3>1
      <4> QED  BY Zenon, <3>1, <4>1
    <3>2. CASE /\ t = [at |-> "mark", conn |-> c, id |-> new, todo |-> {}, uid |-> Owner[c],
                       target |-> NoConn, err |-> FALSE]
               /\ unrouted' = unrouted \cup {new}
      <4>1. t.at = "mark"
          BY Zenon, <3>2
      <4> QED  BY Zenon, <3>2, <4>1
    <3> QED  BY Zenon, <2>1, <3>1, <3>2
  <2>3. task'[h] = t /\ \A g \in Handler \ {h} : task'[g] = task[g]
      BY Zenon, <1>2, <2>1
  <2> QED  BY Zenon, <2>2, <2>3
<1>5. \A g \in Handler \ {h} : \A w, i : /\ In(Batch(g, w), i)' <=> In(Batch(g, w), i)
                                         /\ InHand(g, w, i)' <=> InHand(g, w, i)
    BY Zenon, <1>4, TaskHolds
<1>6. \A w, i : ~In(Batch(h, w), i) /\ ~In(Batch(h, w), i)' /\ ~InHand(h, w, i)
  <2>1. \A w : Batch(h, w) = <<>> /\ Batch(h, w)' = <<>>
      BY Zenon, <1>1, <1>4 DEF Batch
  <2> QED  BY Zenon, <1>1, <2>1, EmptyHolds DEF In, InHand
<1>7. \A w, i : InHand(h, w, i)' <=> task'[h].at = "lookup" /\ i = new /\ w \in To[k]
    BY <1>4 DEF InHand
<1>8. unrouted \subseteq Ids /\ \A i \in Ids : Recipients(i)' = Recipients(i)
    BY Zenon, <1>3, <1>4 DEF Recipients, Known
<1>9. Recipients(new)' = IF task'[h].at = "lookup" THEN To[k] ELSE {}
    BY Zenon, <1>3, <1>4, <1>8 DEF Recipients
<1>10. \A r \in Place, w \in Uid, i \in Number : Holds(r, w, i) => i # new
    BY Zenon, <1>3 DEF PlacesInv, Addressed
<1>11. ASSUME NEW w \in Uid, NEW i \in Number, i # new PROVE Same(w, i)
  <2>1. \A g \in Handler : /\ In(Batch(g, w), i)' <=> In(Batch(g, w), i)
                           /\ InHand(g, w, i)' <=> InHand(g, w, i)
    <3> SUFFICES ASSUME NEW g \in Handler
                 PROVE  /\ In(Batch(g, w), i)' <=> In(Batch(g, w), i)
                        /\ InHand(g, w, i)' <=> InHand(g, w, i)
        BY Zenon
    <3>1. CASE g = h
      <4>1. ~In(Batch(h, w), i) /\ ~In(Batch(h, w), i)' /\ ~InHand(h, w, i)
          BY Zenon, <1>6
      <4>2. ~InHand(h, w, i)'
          BY Zenon, <1>4, <1>11 DEF InHand
      <4> QED  BY Zenon, <3>1, <4>1, <4>2
    <3>2. CASE g # h
      <4>1. g \in Handler \ {h}
          BY Zenon, <3>2
      <4> QED  BY Zenon, <1>5, <4>1
    <3> QED  BY Zenon, <3>1, <3>2
  <2> QED  BY Zenon, <1>1, <2>1, SameHolds
<1>12. ASSUME NEW w \in Uid, NEW r \in Place
       PROVE  Holds(r, w, new)' <=> r = s /\ task'[h].at = "lookup" /\ w \in To[k]
  <2>1. ~Holds(r, w, new)
      BY Zenon, <1>3, <1>10
  <2>2. CASE r = <<"offline", "user">> \/ r = <<"dropped", "user">>
    <3>1. r # s
        BY <1>0, <2>2
    <3>2. /\ Holds(<<"offline", "user">>, w, new)' <=> Holds(<<"offline", "user">>, w, new)
          /\ Holds(<<"dropped", "user">>, w, new)' <=> Holds(<<"dropped", "user">>, w, new)
        BY Zenon, <1>1, HoldsKinds, HoldsKindsNext
    <3> QED  BY Zenon, <2>1, <2>2, <3>1, <3>2
  <2>3. ASSUME NEW d \in Conn, r = <<"buffer", d>> \/ r = <<"wire", d>>
        PROVE  ~Holds(r, w, new)' /\ r # s
    <3>1. r # s
        BY <1>0, <2>3
    <3>2. sendq'[d] = sendq[d] /\ wire'[d] = wire[d]
        BY Zenon, <1>1
    <3>3. Holds(<<"buffer", d>>, w, new)' <=> Holds(<<"buffer", d>>, w, new)
        BY Zenon, <3>2 DEF Holds, In
    <3>4. Holds(<<"wire", d>>, w, new)' <=> Holds(<<"wire", d>>, w, new)
        BY Zenon, <3>2 DEF Holds, In
    <3> QED  BY <2>1, <2>3, <3>1, <3>3, <3>4
  <2>4. ASSUME NEW g \in Handler, r = <<"batch", g>>
        PROVE  ~Holds(r, w, new)' /\ r # s
    <3>1. r # s
        BY <1>0, <2>4
    <3> QED  BY Zenon, <1>5, <1>6, <2>1, <2>4, <3>1, HoldsKinds, HoldsKindsNext
  <2>5. ASSUME NEW g \in Handler, r = <<"hand", g>>
        PROVE  Holds(r, w, new)' <=> r = s /\ task'[h].at = "lookup" /\ w \in To[k]
    <3>1. CASE g = h
      <4>1. Holds(<<"hand", h>>, w, new)' <=> InHand(h, w, new)'
          BY Zenon, HoldsKindsNext
      <4>2. r = s /\ r = <<"hand", h>>
          BY <1>0, <2>5, <3>1
      <4> QED  BY Zenon, <1>7, <4>1, <4>2
    <3>2. CASE g # h
      <4>1. r # s
          BY <1>0, <2>5, <3>2
      <4> QED  BY Zenon, <1>5, <2>1, <2>5, <3>2, <4>1, HoldsKinds, HoldsKindsNext
    <3> QED  BY Zenon, <3>1, <3>2
  <2> QED  BY Zenon, <2>2, <2>3, <2>4, <2>5, PlaceKinds
<1>13. Place' = Place /\ Number' = Number /\ s \in Place
    BY <1>0 DEF Place, Number
<1>14. Addressed'
  <2> SUFFICES ASSUME NEW r \in Place, NEW w \in Uid, NEW i \in Number, Holds(r, w, i)'
               PROVE  i \in Ids' /\ w \in Recipients(i)'
      BY <1>13 DEF Addressed
  <2>1. CASE i = new
      BY Zenon, <1>3, <1>9, <1>12, <2>1
  <2>2. CASE i # new
      BY <1>3, <1>8, <1>11, <2>2 DEF Same, PlacesInv, Addressed
  <2> QED  BY <2>1, <2>2
<1>15. OnePlace'
  <2> SUFFICES ASSUME NEW w \in Uid, NEW i \in Ids', w \in Recipients(i)'
               PROVE  \E p \in Place : \A r \in Place : Holds(r, w, i)' <=> r = p
      BY <1>13 DEF OnePlace
  <2>1. CASE i = new
      BY <1>9, <1>12, <1>13, <2>1
  <2>2. CASE i # new
    <3>1. i \in Ids /\ i \in Number /\ w \in Recipients(i)
        BY <1>3, <1>8, <2>2, IdsNumbers
    <3> QED  BY <1>11, <2>2, <3>1 DEF Same, PlacesInv, OnePlace
  <2> QED  BY <2>1, <2>2
<1>16. NoTwice'
  <2>1. \A g \in Handler : task'[g].at \in Draining => Once(task'[g].batch)
      BY Zenon, <1>4 DEF PlacesInv, NoTwice, Draining
  <2> QED  BY Zenon, <1>1, <2>1 DEF PlacesInv, NoTwice, Once
<1> QED  BY <1>14, <1>15, <1>16 DEF PlacesInv

-----------------------------------------------------------------------------
(* Ids                                                                     *)

\* Where a message came from.
LEMMA OriginTyped ==
    ASSUME Shape, NEW i \in Ids
    PROVE  origin[i].key \in Key /\ origin[i].conn \in Conn /\ i \in Number /\ i # 0
<1> DEFINE S == [key : Key, conn : Conn]
<1>1. origin \in Seq(S)
    BY DEF Shape
<1>2. \A o \in S : o.key \in Key /\ o.conn \in Conn
    OBVIOUS
<1> HIDE DEF S
<1>3. i \in 1..Len(origin)
    BY DEF Ids
<1>4. origin[i] \in S
    BY <1>1, <1>3
<1>5. i \in Number
    BY IdsNumbers
<1> QED  BY <1>2, <1>4, <1>5 DEF Number

\* A step that starts and ends no chat message.
LEMMA QuietIds ==
    ASSUME IdsInv, UNCHANGED <<seen, acked, failed, forgotten, origin>>,
           \A g \in Handler : \/ task'[g] = task[g]
                              \/ task[g].at \notin Chatting /\ task'[g].at \notin Chatting
    PROVE  IdsInv'
<1>1. \A g \in Handler : /\ task'[g].at \in Chatting <=> task[g].at \in Chatting
                         /\ task[g].at \in Chatting => task'[g] = task[g]
    BY Zenon
<1>2. Placing \subseteq Chatting /\ "finish" \in Chatting /\ Ids' = Ids
    BY DEF Placing, Chatting, Ids
<1>3. \A i : Excused(i)' <=> Excused(i)
    BY DEF Excused
<1>4. Unsettled' /\ OneHandler'
    BY <1>1, <1>2 DEF IdsInv, Unsettled, OneHandler
<1>5. Watched'
    BY <1>1, <1>2, <1>3 DEF IdsInv, Watched
<1>6. Handling'
    BY <1>1, <1>3 DEF IdsInv, Handling
<1>7. RetryHasReason'
    BY <1>2 DEF IdsInv, RetryHasReason
<1> QED  BY <1>4, <1>5, <1>6, <1>7 DEF IdsInv

\* A step of the handler of one message, which never goes back to placing it.
LEMMA ChatIds ==
    ASSUME Shape, Known, IdsInv, NEW h \in Handler, NEW n, task[h].at \in Chatting, n.at \in Chatting,
           task' = [task EXCEPT ![h] = n], n.id = task[h].id, n.conn = task[h].conn,
           n.at \in Placing => task[h].at \in Placing,
           UNCHANGED <<origin, forgotten, acked>>, failed \subseteq failed',
           n.err => n.id \in failed',
           \/ UNCHANGED seen
           \/ n.at = "finish" /\ seen' = [seen EXCEPT ![origin[n.id].key] = n.id],
           n.at = "finish" => n.id \in failed' \/ seen'[origin[n.id].key] # 0
    PROVE  IdsInv'
<1>1. /\ task'[h] = n /\ \A g \in Handler \ {h} : task'[g] = task[g]
      /\ n.id \in Ids /\ n.id # 0 /\ origin[n.id].key \in Key /\ seen \in [Key -> Number \cup {0}]
      /\ Ids' = Ids
  <2>1. n.id \in Ids
      BY DEF Known
  <2>2. n.id # 0 /\ origin[n.id].key \in Key
      BY <2>1, OriginTyped
  <2>3. task'[h] = n /\ \A g \in Handler \ {h} : task'[g] = task[g]
      BY DEF Shape
  <2> QED  BY <2>1, <2>2, <2>3 DEF Known, Ids
<1>2. /\ Placing \subseteq Chatting /\ "finish" \in Chatting /\ "finish" \notin Placing
    BY DEF Placing, Chatting
<1>3. \A i : Excused(i) => Excused(i)'
    BY DEF Excused
<1>4. \A g \in Handler : /\ task'[g].at \in Chatting <=> task[g].at \in Chatting
                         /\ task[g].at \in Chatting => task'[g].id = task[g].id /\ task'[g].conn = task[g].conn
                         /\ task'[g].at \in Placing => task[g].at \in Placing
    BY <1>1
<1>5. OneHandler'
    BY <1>4 DEF IdsInv, OneHandler
<1>6. Unsettled'
  <2> SUFFICES ASSUME NEW g \in Handler, task'[g].at \in Placing
               PROVE  task'[g].id \notin acked /\ \A k \in Key : seen'[k] # task'[g].id
      BY DEF Unsettled
  <2>1. /\ task[g].at \in Placing /\ task'[g].id = task[g].id
        /\ task[g].id \notin acked /\ \A k \in Key : seen[k] # task[g].id
      BY <1>2, <1>4 DEF IdsInv, Unsettled
  <2>2. CASE UNCHANGED seen
      BY Zenon, <2>1, <2>2
  <2>3. CASE n.at = "finish" /\ seen' = [seen EXCEPT ![origin[n.id].key] = n.id]
    <3>1. g # h
        BY <1>1, <1>2, <2>3
    <3>2. task[g].id # n.id
        BY <1>2, <2>1, <3>1 DEF IdsInv, OneHandler
    <3> QED  BY Zenon, <1>1, <2>1, <2>3, <3>2
  <2> QED  BY <2>2, <2>3
<1>7. \A k \in Key : seen[k] # 0 => seen'[k] # 0
    BY <1>1
<1>8. \A i \in Ids : origin[i].key \in Key
    BY Zenon, OriginTyped
<1>9. Watched'
    BY <1>1, <1>3, <1>4, <1>7, <1>8 DEF IdsInv, Watched
<1>10. Handling'
  <2> SUFFICES ASSUME NEW g \in Handler, task'[g].at \in Chatting
               PROVE  /\ task'[g].conn = origin'[task'[g].id].conn
                      /\ task'[g].err => task'[g].id \in failed'
                      /\ task'[g].at = "finish" =>
                            Excused(task[g].id)' \/ seen'[origin'[task'[g].id].key] # 0
      BY Zenon, <1>4 DEF Handling, Excused
  <2>1. task[g].conn = origin[task[g].id].conn /\ task[g].id \in Ids
      BY Zenon, <1>4 DEF IdsInv, Handling, Known
  <2>2. CASE g = h
    <3>1. n.at = "finish" => Excused(task[g].id)' \/ seen'[origin[n.id].key] # 0
        BY <1>1, <2>2 DEF Excused
    <3>2. task'[g] = n /\ origin' = origin /\ n.id = task[g].id /\ n.conn = task[g].conn
        BY Zenon, <1>1, <1>4, <2>2
    <3>3. n.err => n.id \in failed'
        BY Zenon, <1>1, <2>2, <3>2
    <3> QED  BY Zenon, <2>1, <3>1, <3>2, <3>3
  <2>3. CASE g # h
    <3>1. task'[g] = task[g]
        BY Zenon, <1>1, <2>3
    <3>2. /\ task[g].err => task[g].id \in failed
          /\ task[g].at = "finish" => Excused(task[g].id) \/ seen[origin[task[g].id].key] # 0
        BY <3>1 DEF IdsInv, Handling
    <3>3. Excused(task[g].id) => Excused(task[g].id)'
        BY <3>1 DEF Excused
    <3> QED  BY Zenon, <1>7, <1>8, <2>1, <3>1, <3>2, <3>3
  <2> QED  BY Zenon, <2>2, <2>3
<1>11. RetryHasReason'
    BY <1>1 DEF IdsInv, RetryHasReason
<1> QED  BY <1>5, <1>6, <1>9, <1>10, <1>11 DEF IdsInv

\* The ACK comes when the message is placed and marked, or excused.
LEMMA FinishIds ==
    ASSUME Shape, Known, IdsInv, NEW h \in Handler, task[h].at = "finish",
           task' = [task EXCEPT ![h] = Idle], acked' = acked \cup {task[h].id},
           UNCHANGED <<origin, forgotten, failed, seen>>
    PROVE  IdsInv'
<1>1. /\ task'[h] = Idle /\ \A g \in Handler \ {h} : task'[g] = task[g]
      /\ Ids' = Ids
    BY DEF Shape, Ids
<1>2. /\ Placing \subseteq Chatting /\ "finish" \in Chatting /\ Idle.at \notin Chatting
    BY DEF Placing, Chatting, Idle
<1>3. \A i : Excused(i)' <=> Excused(i)
    BY DEF Excused
<1>4. \A g \in Handler : task'[g].at \in Chatting => g # h /\ task'[g] = task[g]
    BY <1>1, <1>2
<1>5. OneHandler'
    BY <1>4 DEF IdsInv, OneHandler
<1>6. Unsettled'
  <2> SUFFICES ASSUME NEW g \in Handler, task'[g].at \in Placing
               PROVE  task'[g].id \notin acked' /\ \A k \in Key : seen'[k] # task'[g].id
      BY DEF Unsettled
  <2>1. g # h /\ task'[g] = task[g] /\ task[g].at \in Placing
      BY <1>2, <1>4
  <2>2. task[g].id # task[h].id
      BY <1>2, <2>1 DEF IdsInv, OneHandler
  <2> QED  BY <2>1, <2>2 DEF IdsInv, Unsettled
<1>7. Watched'
  <2> SUFFICES ASSUME NEW i \in Ids
               PROVE  \/ Excused(i)
                      \/ seen[origin[i].key] # 0
                      \/ \E g \in Handler : task'[g].at \in Chatting /\ task'[g].id = i
      BY <1>1, <1>3 DEF Watched
  <2>1. CASE i = task[h].id
      BY <1>2, <2>1 DEF IdsInv, Handling
  <2>2. CASE i # task[h].id
      BY Zenon, <1>1, <2>2 DEF IdsInv, Watched
  <2> QED  BY <2>1, <2>2
<1>8. Handling'
    BY <1>3, <1>4 DEF IdsInv, Handling
<1>9. RetryHasReason'
    BY <1>1 DEF IdsInv, RetryHasReason
<1> QED  BY <1>5, <1>6, <1>7, <1>8, <1>9 DEF IdsInv

\* A duplicate is acknowledged with an id that was marked, so placed.
LEMMA DuplicateIds ==
    ASSUME Shape, Known, IdsInv, NEW k \in Key, acked' = acked \cup {seen[k]},
           UNCHANGED <<task, origin, forgotten, failed, seen>>
    PROVE  IdsInv'
<1>1. Unsettled'
    BY DEF IdsInv, Unsettled
<1>2. OneHandler' /\ Watched' /\ Handling' /\ RetryHasReason'
    BY Zenon DEF IdsInv, OneHandler, Watched, Handling, RetryHasReason, Excused, Ids
<1> QED  BY <1>1, <1>2 DEF IdsInv

\* An entry that expires excuses the messages of its key.
LEMMA ExpireIds ==
    ASSUME Shape, Known, IdsInv, NEW k \in Key, seen' = [seen EXCEPT ![k] = 0],
           forgotten' = forgotten \cup {k},
           UNCHANGED <<task, origin, acked, failed>>
    PROVE  IdsInv'
<1>1. /\ \A j \in Key : seen'[j] = IF j = k THEN 0 ELSE seen[j]
      /\ \A i \in Ids : origin[i].key \in Key
      /\ Ids' = Ids
    BY OriginTyped DEF Known, Ids
<1>2. \A i : Excused(i) \/ origin[i].key = k => Excused(i)'
    BY DEF Excused
<1>3. \A g \in Handler : task[g].at \in Placing => task[g].id # 0
    BY DEF Known, Ids, Placing, Chatting
<1>4. Unsettled' /\ OneHandler'
  <2>1. OneHandler'
      BY Zenon DEF IdsInv, OneHandler
  <2>2. ASSUME NEW g \in Handler, task[g].at \in Placing, NEW j \in Key
        PROVE  task[g].id \notin acked /\ seen'[j] # task[g].id
      BY Zenon, <1>1, <1>3, <2>2 DEF IdsInv, Unsettled
  <2>3. ASSUME NEW g \in Handler, task[g].at \in Placing
        PROVE  task[g].id \notin acked
      BY Zenon, <2>3 DEF IdsInv, Unsettled
  <2> QED  BY Zenon, <2>1, <2>2, <2>3 DEF Unsettled
<1>5. Watched'
    BY Zenon, <1>1, <1>2 DEF IdsInv, Watched
<1>6. Handling'
  <2> SUFFICES ASSUME NEW g \in Handler, task[g].at \in Chatting
               PROVE  /\ task[g].conn = origin[task[g].id].conn
                      /\ task[g].err => task[g].id \in failed
                      /\ task[g].at = "finish" => Excused(task[g].id)' \/ seen'[origin[task[g].id].key] # 0
      BY DEF Handling, Excused
  <2>1. task[g].id \in Ids
      BY DEF Known
  <2>2. Excused(task[g].id) \/ origin[task[g].id].key = k => Excused(task[g].id)'
      BY DEF Excused
  <2> QED  BY Zenon, <1>1, <2>1, <2>2 DEF IdsInv, Handling
<1>7. RetryHasReason'
    BY <1>1 DEF IdsInv, RetryHasReason
<1> QED  BY <1>4, <1>5, <1>6, <1>7 DEF IdsInv

-----------------------------------------------------------------------------
(* From places to copies                                                   *)

\* The copies that Placed counts.
Copies(u, i) ==
    {<<"offline", j>> : j \in At(offq[u], i)}
    \cup (UNION {{<<"buffer", c, j>> : j \in At(sendq[c], i)}
                 \cup {<<"wire", c, j>> : j \in At(wire[c], i)} : c \in Devices(u)})
    \cup (UNION {{<<"batch", h, j>> : j \in At(Batch(h, u), i)} : h \in Handler})
    \cup {<<"dropped", d>> : d \in dropped \cap {<<u, i>>}}

\* A queue without repetitions has one copy of what it holds.
LEMMA AtOnce ==
    ASSUME NEW q, NEW i, Once(q)
    PROVE  /\ In(q, i) => \E j : At(q, i) = {j}
           /\ ~In(q, i) => At(q, i) = {}
BY DEF Once, In, At

\* The copies, kind by kind.
CopyOf(z, u, i) ==
    \/ \E j \in At(offq[u], i) : z = <<"offline", j>>
    \/ \E c \in Conn : Owner[c] = u /\ \E j \in At(sendq[c], i) : z = <<"buffer", c, j>>
    \/ \E c \in Conn : Owner[c] = u /\ \E j \in At(wire[c], i) : z = <<"wire", c, j>>
    \/ \E h \in Handler : \E j \in At(Batch(h, u), i) : z = <<"batch", h, j>>
    \/ <<u, i>> \in dropped /\ z = <<"dropped", <<u, i>>>>

\* These are all the copies.
LEMMA CopyKinds ==
    ASSUME NEW u, NEW i, NEW z
    PROVE  z \in Copies(u, i) <=> CopyOf(z, u, i)
<1> DEFINE OfConn(c) == {<<"buffer", c, j>> : j \in At(sendq[c], i)} \cup {<<"wire", c, j>> : j \in At(wire[c], i)}
           OfBatch(h) == {<<"batch", h, j>> : j \in At(Batch(h, u), i)}
           Offline == {<<"offline", j>> : j \in At(offq[u], i)}
           Dropped == {<<"dropped", d>> : d \in dropped \cap {<<u, i>>}}
           Conns == UNION {OfConn(c) : c \in Devices(u)}
           Batches == UNION {OfBatch(h) : h \in Handler}
<1>1. Copies(u, i) = Offline \cup Conns \cup Batches \cup Dropped
    BY Zenon DEF Copies
<1>2. \A c : z \in OfConn(c) <=> \/ \E j \in At(sendq[c], i) : z = <<"buffer", c, j>>
                                \/ \E j \in At(wire[c], i) : z = <<"wire", c, j>>
    OBVIOUS
<1>3. \A h : z \in OfBatch(h) <=> \E j \in At(Batch(h, u), i) : z = <<"batch", h, j>>
    BY Zenon
<1>4. z \in Dropped <=> <<u, i>> \in dropped /\ z = <<"dropped", <<u, i>>>>
    OBVIOUS
<1>5. z \in Offline <=> \E j \in At(offq[u], i) : z = <<"offline", j>>
    OBVIOUS
<1> HIDE DEF OfConn, OfBatch, Offline, Dropped
<1>6. z \in Conns <=>
          \/ \E c \in Conn : Owner[c] = u /\ \E j \in At(sendq[c], i) : z = <<"buffer", c, j>>
          \/ \E c \in Conn : Owner[c] = u /\ \E j \in At(wire[c], i) : z = <<"wire", c, j>>
  <2>1. z \in Conns <=> \E c \in Devices(u) : z \in OfConn(c)
      BY Zenon
  <2>2. \A c : c \in Devices(u) <=> c \in Conn /\ Owner[c] = u
      BY DEF Devices
  <2> HIDE DEF Conns
  <2> QED  BY <1>2, <2>1, <2>2, Zenon
<1>7. z \in Batches <=> \E h \in Handler : \E j \in At(Batch(h, u), i) : z = <<"batch", h, j>>
  <2>1. z \in Batches <=> \E h \in Handler : z \in OfBatch(h)
      BY Zenon
  <2> HIDE DEF Batches
  <2> QED  BY <1>3, <2>1, Zenon
<1> HIDE DEF Conns, Batches
<1>8. z \in Copies(u, i) <=> z \in Offline \/ z \in Conns \/ z \in Batches \/ z \in Dropped
    BY <1>1
<1> QED  BY Zenon, <1>4, <1>5, <1>6, <1>7, <1>8 DEF CopyOf

\* What the only place of a message holds is one copy, or it is in one hand.
LEMMA OneCopy ==
    ASSUME DeliveryInv, NEW i \in Ids, NEW u \in Recipients(i)
    PROVE  \/ /\ \E z : Copies(u, i) = {z}
              /\ \A h \in Handler : ~InHand(h, u, i)
           \/ /\ Copies(u, i) = {}
              /\ \E h \in Handler : \A g \in Handler : InHand(g, u, i) <=> g = h
<1>1. u \in Uid
  <2>1. origin[i].key \in Key
      BY OriginTyped DEF DeliveryInv
  <2> QED  BY <2>1, DeliveryAssumption DEF DeliveryAssumption, Recipients
<1>2. PICK p \in Place : \A r \in Place : Holds(r, u, i) <=> r = p
    BY <1>1 DEF DeliveryInv, PlacesInv, OnePlace
<1>3. /\ Once(offq[u]) /\ \A c \in Conn : Once(sendq[c]) /\ Once(wire[c])
      /\ \A h \in Handler : Once(Batch(h, u))
  <2>1. \A h \in Handler : Once(Batch(h, u))
      BY DEF DeliveryInv, PlacesInv, NoTwice, Batch, Draining, Once
  <2> QED  BY Zenon, <1>1, <2>1 DEF DeliveryInv, PlacesInv, NoTwice
<1>4. /\ In(offq[u], i) <=> p = <<"offline", "user">>
      /\ <<u, i>> \in dropped <=> p = <<"dropped", "user">>
      /\ \A c \in Conn : /\ Owner[c] = u /\ In(sendq[c], i) <=> p = <<"buffer", c>>
                         /\ Owner[c] = u /\ In(wire[c], i) <=> p = <<"wire", c>>
      /\ \A h \in Handler : /\ In(Batch(h, u), i) <=> p = <<"batch", h>>
                            /\ InHand(h, u, i) <=> p = <<"hand", h>>
  <2>1. /\ <<"offline", "user">> \in Place /\ <<"dropped", "user">> \in Place
        /\ \A c \in Conn : <<"buffer", c>> \in Place /\ <<"wire", c>> \in Place
        /\ \A h \in Handler : <<"batch", h>> \in Place /\ <<"hand", h>> \in Place
      BY DEF Place
  <2> QED  BY Zenon, <1>2, <2>1, HoldsKinds
<1>5. /\ p # <<"offline", "user">> => At(offq[u], i) = {}
      /\ \A c \in Conn : /\ Owner[c] = u /\ p # <<"buffer", c>> => At(sendq[c], i) = {}
                         /\ Owner[c] = u /\ p # <<"wire", c>> => At(wire[c], i) = {}
      /\ \A h \in Handler : p # <<"batch", h>> => At(Batch(h, u), i) = {}
    BY Zenon, <1>3, <1>4, AtOnce
<1>6. CASE p = <<"offline", "user">>
  <2>1. PICK j : At(offq[u], i) = {j}
      BY Zenon, <1>3, <1>4, <1>6, AtOnce
  <2>2. \A z : z \in Copies(u, i) <=> z = <<"offline", j>>
    <3>1. /\ p # <<"dropped", "user">>
          /\ \A x : p # <<"buffer", x>> /\ p # <<"wire", x>> /\ p # <<"batch", x>>
        BY <1>6
    <3>2. /\ <<u, i>> \notin dropped
          /\ \A d \in Conn : Owner[d] = u => At(wire[d], i) = {} /\ At(sendq[d], i) = {}
          /\ \A h \in Handler : At(Batch(h, u), i) = {}
        BY Zenon, <1>4, <1>5, <3>1
    <3>3. ASSUME NEW z, z \in Copies(u, i) PROVE z = <<"offline", j>>
      <4>1. CopyOf(z, u, i)
          BY Zenon, <3>3, CopyKinds
      <4> QED  BY Zenon, <2>1, <3>2, <4>1 DEF CopyOf
    <3>4. <<"offline", j>> \in Copies(u, i)
        BY Zenon, <2>1, CopyKinds DEF CopyOf
    <3> QED  BY Zenon, <3>3, <3>4
  <2>3. Copies(u, i) = {<<"offline", j>>}
      BY <2>2
  <2> QED  BY Zenon, <1>4, <1>6, <2>3
<1>7. CASE p = <<"dropped", "user">>
  <2>1. \A z : z \in Copies(u, i) <=> z = <<"dropped", <<u, i>>>>
      BY Zenon, <1>4, <1>5, <1>7, CopyKinds DEF CopyOf
  <2>2. Copies(u, i) = {<<"dropped", <<u, i>>>>}
      BY <2>1
  <2> QED  BY Zenon, <1>4, <1>7, <2>2
<1>8. ASSUME NEW c \in Conn, p = <<"buffer", c>>
      PROVE  (\E z : Copies(u, i) = {z}) /\ \A h \in Handler : ~InHand(h, u, i)
  <2>1. PICK j : At(sendq[c], i) = {j} /\ Owner[c] = u
      BY Zenon, <1>3, <1>4, <1>8, AtOnce
  <2>2. \A d \in Conn : p = <<"buffer", d>> => d = c
      BY <1>8
  <2>3. \A z : z \in Copies(u, i) <=> z = <<"buffer", c, j>>
      <3>1. /\ p # <<"offline", "user">> /\ p # <<"dropped", "user">>
            /\ \A x : p # <<"wire", x>>
            /\ \A x : p # <<"batch", x>>
          BY <1>8
      <3>2. /\ At(offq[u], i) = {} /\ <<u, i>> \notin dropped
            /\ \A d \in Conn : Owner[d] = u => At(wire[d], i) = {} /\ (d # c => At(sendq[d], i) = {})
            /\ \A h \in Handler : At(Batch(h, u), i) = {}
          BY Zenon, <1>4, <1>5, <2>2, <3>1
      <3>3. ASSUME NEW z, z \in Copies(u, i) PROVE z = <<"buffer", c, j>>
        <4>1. CopyOf(z, u, i)
            BY Zenon, <3>3, CopyKinds
        <4> QED  BY Zenon, <2>1, <3>2, <4>1 DEF CopyOf
      <3>4. <<"buffer", c, j>> \in Copies(u, i)
          BY Zenon, <1>8, <2>1, CopyKinds DEF CopyOf
      <3> QED  BY Zenon, <3>3, <3>4
  <2>4. Copies(u, i) = {<<"buffer", c, j>>}
      BY <2>3
  <2> QED  BY Zenon, <1>4, <1>8, <2>4
<1>9. ASSUME NEW c \in Conn, p = <<"wire", c>>
      PROVE  (\E z : Copies(u, i) = {z}) /\ \A h \in Handler : ~InHand(h, u, i)
  <2>1. PICK j : At(wire[c], i) = {j} /\ Owner[c] = u
      BY Zenon, <1>3, <1>4, <1>9, AtOnce
  <2>2. \A d \in Conn : p = <<"wire", d>> => d = c
      BY <1>9
  <2>3. \A z : z \in Copies(u, i) <=> z = <<"wire", c, j>>
      <3>1. /\ p # <<"offline", "user">> /\ p # <<"dropped", "user">>
            /\ \A x : p # <<"buffer", x>>
            /\ \A x : p # <<"batch", x>>
          BY <1>9
      <3>2. /\ At(offq[u], i) = {} /\ <<u, i>> \notin dropped
            /\ \A d \in Conn : Owner[d] = u => At(sendq[d], i) = {} /\ (d # c => At(wire[d], i) = {})
            /\ \A h \in Handler : At(Batch(h, u), i) = {}
          BY Zenon, <1>4, <1>5, <2>2, <3>1
      <3>3. ASSUME NEW z, z \in Copies(u, i) PROVE z = <<"wire", c, j>>
        <4>1. CopyOf(z, u, i)
            BY Zenon, <3>3, CopyKinds
        <4> QED  BY Zenon, <2>1, <3>2, <4>1 DEF CopyOf
      <3>4. <<"wire", c, j>> \in Copies(u, i)
          BY Zenon, <1>9, <2>1, CopyKinds DEF CopyOf
      <3> QED  BY Zenon, <3>3, <3>4
  <2>4. Copies(u, i) = {<<"wire", c, j>>}
      BY <2>3
  <2> QED  BY Zenon, <1>4, <1>9, <2>4
<1>10. ASSUME NEW h \in Handler, p = <<"batch", h>>
       PROVE  (\E z : Copies(u, i) = {z}) /\ \A g \in Handler : ~InHand(g, u, i)
  <2>1. PICK j : At(Batch(h, u), i) = {j}
      BY Zenon, <1>3, <1>4, <1>10, AtOnce
  <2>2. \A g \in Handler : p = <<"batch", g>> => g = h
      BY <1>10
  <2>3. \A z : z \in Copies(u, i) <=> z = <<"batch", h, j>>
      <3>1. /\ p # <<"offline", "user">> /\ p # <<"dropped", "user">>
            /\ \A x : p # <<"buffer", x>>
            /\ \A x : p # <<"wire", x>>
          BY <1>10
      <3>2. /\ At(offq[u], i) = {} /\ <<u, i>> \notin dropped
            /\ \A d \in Conn : Owner[d] = u => At(sendq[d], i) = {} /\ At(wire[d], i) = {}
            /\ \A g \in Handler : g # h => At(Batch(g, u), i) = {}
          BY Zenon, <1>4, <1>5, <2>2, <3>1
      <3>3. ASSUME NEW z, z \in Copies(u, i) PROVE z = <<"batch", h, j>>
        <4>1. CopyOf(z, u, i)
            BY Zenon, <3>3, CopyKinds
        <4> QED  BY Zenon, <2>1, <3>2, <4>1 DEF CopyOf
      <3>4. <<"batch", h, j>> \in Copies(u, i)
          BY Zenon, <1>10, <2>1, CopyKinds DEF CopyOf
      <3> QED  BY Zenon, <3>3, <3>4
  <2>4. Copies(u, i) = {<<"batch", h, j>>}
      BY <2>3
  <2> QED  BY Zenon, <1>4, <1>10, <2>4
<1>11. ASSUME NEW h \in Handler, p = <<"hand", h>>
       PROVE  Copies(u, i) = {} /\ \A g \in Handler : InHand(g, u, i) <=> g = h
  <2>1. \A z : z \notin Copies(u, i)
      BY Zenon, <1>4, <1>5, <1>11, CopyKinds DEF CopyOf
  <2> QED  BY Zenon, <1>4, <1>11, <2>1
<1> QED  BY Zenon, <1>6, <1>7, <1>8, <1>9, <1>10, <1>11, PlaceKinds

-----------------------------------------------------------------------------
(* The steps                                                               *)

\* A key that is neither marked nor being handled is new, or its first id is excused.
LEMMA ReceiveKeeps ==
    ASSUME DeliveryInv, NEW h \in Handler, NEW c \in Conn, NEW k \in Key, Receive(h, c, k)
    PROVE  DeliveryInv'
<1> DEFINE rec == [key |-> k, conn |-> c]
<1>0. PICK new : new = Len(origin) + 1
    OBVIOUS
<1>1. Shape /\ Known /\ Targets /\ PlacesInv /\ IdsInv
    BY DEF DeliveryInv
<1>2. /\ MayRead(h, c) /\ From[k] = Owner[c] /\ seen[k] = 0 /\ new <= MaxId
      /\ origin' = Append(origin, rec)
      /\ UNCHANGED <<connVars, seen, offq, acked, submitted, dropped, failed, forgotten>>
    BY Zenon, <1>0 DEF Receive
<1>3. PICK n : /\ task' = [task EXCEPT ![h] = n]
               /\ n \in ChatTask /\ n.conn = c /\ n.id = new /\ n.err = FALSE
               /\ \/ n.at = "lookup" /\ unrouted' = unrouted
                  \/ n.at = "mark" /\ unrouted' = unrouted \cup {new}
  <2> DEFINE a == [at |-> "lookup", conn |-> c, id |-> new, todo |-> To[k], uid |-> Owner[c],
                   target |-> NoConn, err |-> FALSE]
             b == [at |-> "mark", conn |-> c, id |-> new, todo |-> {}, uid |-> Owner[c],
                   target |-> NoConn, err |-> FALSE]
  <2>1. \/ task' = [task EXCEPT ![h] = a] /\ unrouted' = unrouted
        \/ task' = [task EXCEPT ![h] = b] /\ unrouted' = unrouted \cup {new}
      BY Zenon, <1>0 DEF Receive, SetTask
  <2>2. new \in Number /\ Owner[c] \in Uid /\ To[k] \subseteq Uid
    <3>1. MaxId \in Nat /\ Owner[c] \in Uid /\ To[k] \subseteq Uid
        BY Zenon, DeliveryAssumption DEF DeliveryAssumption
    <3>2. origin \in Seq([key : Key, conn : Conn])
        BY Zenon, <1>1 DEF Shape
    <3>3. Len(origin) \in Nat
        BY <3>2
    <3>4. new \in Number
        BY Zenon, <1>0, <1>2, <3>1, <3>3, InRange
    <3> QED  BY <3>1, <3>4
  <2>3. a \in ChatTask /\ b \in ChatTask
      BY <2>2 DEF ChatTask, Chatting
  <2>4. /\ a.conn = c /\ a.id = new /\ a.err = FALSE /\ a.at = "lookup"
        /\ b.conn = c /\ b.id = new /\ b.err = FALSE /\ b.at = "mark"
      BY Zenon
  <2> HIDE DEF a, b
  <2> QED  BY <2>1, <2>3, <2>4
<1>4. /\ task \in [Handler -> {Idle} \cup ChatTask \cup DrainTask]
      /\ task'[h] = n /\ \A g \in Handler \ {h} : task'[g] = task[g]
      /\ task' \in [Handler -> {Idle} \cup ChatTask \cup DrainTask]
    BY Zenon, <1>1, <1>3 DEF Shape
<1>5. /\ origin' \in Seq([key : Key, conn : Conn]) /\ Len(origin') = new /\ new \in Nat \ {0}
      /\ Ids' = Ids \cup {new} /\ new \notin Ids
      /\ \A i \in Ids : origin'[i] = origin[i] /\ i \in Nat /\ i < new
      /\ origin'[new].key = k /\ origin'[new].conn = c
  <2> DEFINE S == [key : Key, conn : Conn]
  <2>1. rec \in S /\ rec.key = k /\ rec.conn = c
      OBVIOUS
  <2>2. origin \in Seq(S)
      BY Zenon, <1>1 DEF Shape
  <2> HIDE DEF rec, S
  <2>3. /\ origin' \in Seq(S) /\ Len(origin') = Len(origin) + 1 /\ Len(origin) \in Nat
        /\ \A i \in 1..Len(origin) : origin'[i] = origin[i]
        /\ origin'[Len(origin) + 1] = rec
    <3>1. PICK q, r, x : q = origin /\ r = origin' /\ x = rec
        BY Zenon
    <3>2. q \in Seq(S) /\ x \in S /\ r = Append(q, x)
        BY Zenon, <1>2, <2>1, <2>2, <3>1
    <3>3. /\ r \in Seq(S) /\ Len(r) = Len(q) + 1 /\ Len(q) \in Nat
          /\ \A i \in 1..Len(q) : r[i] = q[i]
          /\ r[Len(q) + 1] = x
        BY <3>2
    <3> QED  BY Zenon, <3>1, <3>3
  <2>4. Ids = 1..Len(origin) /\ Ids' = 1..(Len(origin) + 1)
      BY Zenon, <2>3 DEF Ids
  <2>5. Ids' = Ids \cup {new} /\ new \notin Ids /\ new \in Nat \ {0}
        /\ \A i \in Ids : i \in Nat /\ i < new
    <3>1. PICK len \in Nat : len = Len(origin)
        BY Zenon, <2>3
    <3>2. /\ 1..(len + 1) = 1..len \cup {len + 1} /\ len + 1 \notin 1..len /\ len + 1 \in Nat \ {0}
          /\ \A i \in 1..len : i \in Nat /\ i < len + 1
        OBVIOUS
    <3> QED  BY Zenon, <1>0, <2>4, <3>1, <3>2
  <2> QED  BY <1>0, <2>1, <2>3, <2>4, <2>5 DEF S
<1>6. task[h].at = "idle" /\ "lookup" \in Chatting /\ "mark" \in Chatting /\ "idle" \notin Chatting
    BY <1>2 DEF MayRead, Busy, Chatting
<1>7. Shape'
    BY Zenon, <1>1, <1>2, <1>4, <1>5 DEF Shape, connVars, ChatTask, DrainTask, Number
<1>8. Known'
  <2>1. seen' \in [Key -> Number \cup {0}] /\ \A j \in Key : seen'[j] <= Len(origin')
    <3>1. Len(origin) \in Nat /\ \A j \in Key : seen[j] \in Nat /\ seen[j] <= Len(origin)
        BY <1>1 DEF Known, Shape, Number
    <3>2. seen' = seen /\ seen \in [Key -> Number \cup {0}]
        BY Zenon, <1>1, <1>2 DEF Known
    <3>3. Len(origin') = Len(origin) + 1
        BY Zenon, <1>0, <1>5
    <3> QED  BY <3>1, <3>2, <3>3
  <2>2. acked' \cup submitted' \cup failed' \cup unrouted' \subseteq Ids'
      BY Zenon, <1>1, <1>2, <1>3, <1>5 DEF Known
  <2>3. \A g \in Handler : task'[g].at \in Chatting => task'[g].id \in Ids'
      BY Zenon, <1>1, <1>3, <1>4, <1>5 DEF Known
  <2> QED  BY <2>1, <2>2, <2>3 DEF Known, Number
<1>9. Targets'
    BY Zenon, <1>1, <1>2, <1>3, <1>4 DEF Targets, connVars, Draining
<1>10. PlacesInv'
    BY <1>1, ReceivePlaces
<1>11. \A i \in Ids : Excused(i)' <=> Excused(i)
    BY Zenon, <1>2, <1>5 DEF Excused
<1>12. \A g \in Handler : task[g].at \in Chatting => g # h /\ task[g].id \in Ids /\ task[g].id # new
    BY Zenon, <1>1, <1>5, <1>6 DEF Known
<1>13. Unsettled'
  <2>1. new \notin acked /\ \A j \in Key : seen[j] # new
    <3>1. Len(origin) \in Nat /\ \A j \in Key : seen[j] \in Nat /\ seen[j] <= Len(origin)
        BY <1>1 DEF Known, Shape, Number
    <3>2. new \notin acked
        BY Zenon, <1>1, <1>5 DEF Known
    <3> QED  BY <1>0, <3>1, <3>2
  <2> QED  BY Zenon, <1>1, <1>2, <1>3, <1>4, <2>1 DEF IdsInv, Unsettled
<1>14. OneHandler'
    BY <1>1, <1>3, <1>4, <1>12 DEF IdsInv, OneHandler
<1>15. Watched'
  <2> SUFFICES ASSUME NEW i \in Ids'
               PROVE  \/ Excused(i)'
                      \/ seen'[origin'[i].key] # 0
                      \/ \E g \in Handler : task'[g].at \in Chatting /\ task'[g].id = i
      BY DEF Watched
  <2>1. CASE i = new
      BY Zenon, <1>3, <1>4, <1>6, <2>1
  <2>2. CASE i # new
    <3>1. i \in Ids /\ origin'[i] = origin[i] /\ (Excused(i)' <=> Excused(i))
        BY Zenon, <1>5, <1>11, <2>2
    <3>2. \A g \in Handler : task[g].at \in Chatting => task'[g] = task[g]
        BY <1>4, <1>12
    <3>3. \/ Excused(i) \/ seen[origin[i].key] # 0
          \/ \E g \in Handler : task[g].at \in Chatting /\ task[g].id = i
        BY Zenon, <1>1, <3>1 DEF IdsInv, Watched
    <3> QED  BY Zenon, <1>2, <3>1, <3>2, <3>3
  <2> QED  BY Zenon, <2>1, <2>2
<1>16. Handling'
  <2> SUFFICES ASSUME NEW g \in Handler, task'[g].at \in Chatting
               PROVE  /\ task'[g].conn = origin'[task'[g].id].conn
                      /\ task'[g].err => task'[g].id \in failed'
                      /\ task'[g].at = "finish" =>
                            Excused(task[g].id)' \/ seen'[origin'[task'[g].id].key] # 0
      BY Zenon DEF Handling, Excused
  <2>1. CASE g = h
      BY Zenon, <1>3, <1>4, <1>5, <2>1
  <2>2. CASE g # h
    <3>1. task'[g] = task[g] /\ task[g].id \in Ids
        BY <1>4, <1>12, <2>2
    <3>2. /\ task[g].conn = origin[task[g].id].conn
          /\ task[g].err => task[g].id \in failed
          /\ task[g].at = "finish" => Excused(task[g].id) \/ seen[origin[task[g].id].key] # 0
        BY Zenon, <1>1, <3>1 DEF IdsInv, Handling
    <3>3. Excused(task[g].id) => Excused(task[g].id)'
        BY Zenon, <1>2, <1>5, <3>1 DEF Excused
    <3> QED  BY Zenon, <1>2, <1>5, <3>1, <3>2, <3>3
  <2> QED  BY Zenon, <2>1, <2>2
<1>17. RetryHasReason'
  <2> SUFFICES ASSUME NEW i \in Ids', NEW j \in Ids', i < j, origin'[i] = origin'[j]
               PROVE  Excused(i)'
      BY DEF RetryHasReason, Excused
  <2>1. i \in Ids
    <3>1. j \in Nat /\ j <= new
      <4>1. new \in Nat /\ (j = new \/ (j \in Nat /\ j < new))
          BY Zenon, <1>5
      <4> QED  BY <4>1
    <3>2. i # new
        BY <1>5, <3>1
    <3> QED  BY Zenon, <1>5, <3>2
  <2>2. CASE j \in Ids
      BY <1>1, <1>5, <1>11, <2>1, <2>2 DEF IdsInv, RetryHasReason, Excused
  <2>3. CASE j = new
    <3>1. origin[i].key = k /\ origin[i].conn = c
        BY Zenon, <1>5, <2>1, <2>3
    <3>2. CASE \E g \in Handler : task[g].at \in Chatting /\ task[g].id = i
      <4>1. PICK g \in Handler : task[g].at \in Chatting /\ task[g].id = i
          BY Zenon, <3>2
      <4>2. Busy(g) /\ task[g].conn = c
          BY Zenon, <1>1, <1>6, <3>1, <4>1 DEF IdsInv, Handling, Busy
      <4>3. c \in Pooled
          BY Zenon, <1>2, <4>2 DEF MayRead
      <4> QED  BY Zenon, <1>11, <2>1, <3>1, <4>3 DEF Excused
    <3>3. CASE ~\E g \in Handler : task[g].at \in Chatting /\ task[g].id = i
        BY Zenon, <1>1, <1>2, <1>11, <2>1, <3>1, <3>3 DEF IdsInv, Watched
    <3> QED  BY Zenon, <3>2, <3>3
  <2> QED  BY <1>5, <2>2, <2>3
<1>18. IdsInv'
    BY Zenon, <1>13, <1>14, <1>15, <1>16, <1>17 DEF IdsInv
<1> QED  BY <1>7, <1>8, <1>9, <1>10, <1>18 DEF DeliveryInv

-----------------------------------------------------------------------------
(* Steps of a handler                                                      *)

\* What a handler's step has to say of its new task, for the types.
LEMMA TaskKeeps ==
    ASSUME DeliveryInv, NEW h \in Handler, NEW n \in {Idle} \cup ChatTask \cup DrainTask,
           task' = [task EXCEPT ![h] = n], UNCHANGED <<clients, origin, unrouted>>,
           n.at \in Chatting => n.id \in Ids,
           n.at \in {"push", "store"} => n.uid \notin n.todo,
           n.at = "push" => n.target \in Conn /\ Owner[n.target] = n.uid,
           n.at \in Draining => n.batch # <<>>,
           acked' \cup submitted' \cup failed' \subseteq Ids,
           seen' \in [Key -> Number \cup {0}], \A k \in Key : seen'[k] <= Len(origin),
           offq' \in [Uid -> Seq(Number)], \A u \in Uid : Len(offq'[u]) <= OfflineMaxSize,
           sendq' \in [Conn -> Seq(Number)], wire' \in [Conn -> Seq(Number)],
           dropped' \subseteq Uid \X Number
    PROVE  Shape' /\ Known' /\ Targets'
<1>1. /\ Shape /\ Known /\ Targets
      /\ task \in [Handler -> {Idle} \cup ChatTask \cup DrainTask]
    BY Zenon DEF DeliveryInv, Shape
<1>2. /\ task'[h] = n /\ \A g \in Handler \ {h} : task'[g] = task[g]
      /\ task' \in [Handler -> {Idle} \cup ChatTask \cup DrainTask]
      /\ Ids' = Ids
    BY Zenon, <1>1 DEF Ids
<1>3. Shape'
    BY Zenon, <1>1, <1>2 DEF Shape, ChatTask, DrainTask, Number
<1>4. Known'
    BY Zenon, <1>1, <1>2 DEF Known, Number
<1>5. Targets'
    BY Zenon, <1>1, <1>2 DEF Targets
<1> QED  BY Zenon, <1>3, <1>4, <1>5

\* The parts of the types that a step leaves alone.
LEMMA Unmoved ==
    ASSUME DeliveryInv
    PROVE  /\ acked \cup submitted \cup failed \subseteq Ids
           /\ seen \in [Key -> Number \cup {0}] /\ \A k \in Key : seen[k] <= Len(origin)
           /\ offq \in [Uid -> Seq(Number)] /\ \A u \in Uid : Len(offq[u]) <= OfflineMaxSize
           /\ sendq \in [Conn -> Seq(Number)] /\ wire \in [Conn -> Seq(Number)]
           /\ dropped \subseteq Uid \X Number
           /\ task \in [Handler -> {Idle} \cup ChatTask \cup DrainTask]
           /\ BatchesOnce
BY Zenon DEF DeliveryInv, Shape, Known, PlacesInv, NoTwice, BatchesOnce

\* The kind of a task shows in at.
LEMMA TaskKinds ==
    ASSUME NEW t \in {Idle} \cup ChatTask \cup DrainTask
    PROVE  /\ t.at \in Chatting => t \in ChatTask
           /\ t.at \in Draining => t \in DrainTask
           /\ t \in ChatTask => t.at \notin Draining
           /\ t \in DrainTask => t.at \notin Chatting
           /\ t = Idle => t.at \notin Chatting /\ t.at \notin Draining
<1>1. \A w \in Chatting : w \notin Draining
    BY DEF Chatting, Draining
<1>2. "idle" \notin Chatting /\ "idle" \notin Draining
    BY DEF Chatting, Draining
<1>3. t = Idle => t.at = "idle"
  <2>1. Idle.at = "idle"
      BY DEF Idle
  <2> QED  BY Zenon, <2>1
<1>4. t \in ChatTask => t.at \in Chatting
    BY Zenon DEF ChatTask
<1>5. t \in DrainTask => t.at \in Draining
    BY Zenon DEF DrainTask
<1> QED  BY Zenon, <1>1, <1>2, <1>3, <1>4, <1>5

\* What a chat handler knows of its message.
LEMMA ChatFacts ==
    ASSUME DeliveryInv, NEW h \in Handler, task[h].at \in Chatting, NEW t, t = task[h]
    PROVE  /\ t \in ChatTask /\ t.id \in Ids /\ t.id \in Number
           /\ t.at \in {"push", "store"} => t.uid \notin t.todo
           /\ t.at = "push" => t.target \in Conn /\ Owner[t.target] = t.uid
           /\ t.err => t.id \in failed
           /\ origin[t.id].key \in Key
<1>1. t \in {Idle} \cup ChatTask \cup DrainTask
    BY Unmoved
<1>2. t \in ChatTask
    BY <1>1, TaskKinds
<1>3. t.id \in Ids
    BY DEF DeliveryInv, Known
<1>4. origin[t.id].key \in Key /\ t.id \in Number
    BY Zenon, <1>3, OriginTyped DEF DeliveryInv
<1> QED  BY Zenon, <1>2, <1>3, <1>4 DEF DeliveryInv, Targets, IdsInv, Handling

\* A task with nothing in a batch, before and after, moves nothing if the same
\* recipients stay in hand.
LEMMA HandStays ==
    ASSUME DeliveryInv, NEW h \in Handler, NEW n, task' = [task EXCEPT ![h] = n],
           task[h].at \notin Draining, n.at \notin Draining,
           \A u \in Uid, i \in Number : InHand(h, u, i)' <=> InHand(h, u, i),
           UNCHANGED <<origin, unrouted, offq, dropped, sendq, wire>>
    PROVE  PlacesInv'
<1>1. task'[h] = n /\ \A g \in Handler \ {h} : task'[g] = task[g]
    BY Unmoved
<1>2. \A u, i : In(Batch(h, u), i)' <=> In(Batch(h, u), i)
    BY Zenon, <1>1 DEF Batch, In, Draining
<1>3. \A g \in Handler : \A u \in Uid, i \in Number :
          /\ In(Batch(g, u), i)' <=> In(Batch(g, u), i)
          /\ InHand(g, u, i)' <=> InHand(g, u, i)
    BY <1>1, <1>2, TaskHolds
<1>4. \A g \in Handler : task'[g].at \in Draining =>
          task[g].at \in Draining /\ task'[g].batch = task[g].batch
    BY <1>1
<1> QED  BY <1>3, <1>4, CalmKeeps DEF DeliveryInv

\* Hub.Get finds the connection or none; the message stays in the hands of the
\* handler.
LEMMA LookupKeeps ==
    ASSUME DeliveryInv, NEW h \in Handler, Lookup(h)
    PROVE  DeliveryInv'
<1>0. PICK t : t = task[h]
    OBVIOUS
<1>1. t.at = "lookup" /\ "lookup" \in Chatting /\ "lookup" \notin Draining
    BY Zenon, <1>0 DEF Lookup, Chatting, Draining
<1>2. /\ t \in ChatTask /\ t.id \in Ids /\ t.id \in Number
      /\ t.err => t.id \in failed
    BY <1>0, <1>1, ChatFacts
<1>3. PICK u \in t.todo : task' = [task EXCEPT ![h] =
          [t EXCEPT !.todo = @ \ {u}, !.uid = u, !.target = clients[u],
                    !.at = IF clients[u] = NoConn THEN "store" ELSE "push"]]
    BY Zenon, <1>0 DEF Lookup, SetTask
<1>4. PICK n : n = [t EXCEPT !.todo = @ \ {u}, !.uid = u, !.target = clients[u],
                             !.at = IF clients[u] = NoConn THEN "store" ELSE "push"]
    OBVIOUS
<1>5. /\ UNCHANGED <<clients, sendq, wire, seen, origin, offq, acked, submitted, dropped, failed,
                     forgotten, unrouted>>
      /\ task' = [task EXCEPT ![h] = n]
    BY <1>3, <1>4 DEF Lookup, connVars, routerVars
<1>6. u \in Uid /\ clients[u] \in Conn \cup {NoConn} /\ (clients[u] # NoConn => Owner[clients[u]] = u)
    BY Zenon, <1>2 DEF ChatTask, DeliveryInv, Shape, Targets
<1>7. /\ n \in ChatTask /\ n.id = t.id /\ n.conn = t.conn /\ n.err = t.err
      /\ n.todo = t.todo \ {u} /\ n.uid = u /\ n.target = clients[u]
      /\ n.at = IF clients[u] = NoConn THEN "store" ELSE "push"
    BY Zenon, <1>2, <1>4, <1>6 DEF ChatTask, Chatting
<1>8. Shape' /\ Known' /\ Targets'
  <2>1. n.at \in {"push", "store"} /\ n.at \notin Draining
      BY <1>7 DEF Draining
  <2>2. n.at = "push" => n.target \in Conn /\ Owner[n.target] = n.uid
      BY <1>6, <1>7
  <2> QED  BY Zenon, <1>2, <1>5, <1>7, <2>1, <2>2, Unmoved, TaskKeeps
<1>9. PlacesInv'
  <2>1. \A w \in Uid, i \in Number : InHand(h, w, i)' <=> InHand(h, w, i)
    <3>1. task'[h] = n
        BY Zenon, <1>5, Unmoved
    <3> QED  BY <1>0, <1>1, <1>7, <3>1 DEF InHand
  <2>2. task[h].at \notin Draining /\ n.at \notin Draining
      BY <1>0, <1>1, <1>7 DEF Draining
  <2> QED  BY Zenon, <1>5, <2>1, <2>2, HandStays
<1>10. IdsInv'
  <2>1. n.at \in Chatting /\ n.at # "finish" /\ task[h].at \in Placing
      BY <1>0, <1>1, <1>7 DEF Chatting, Placing
  <2> QED  BY Zenon, <1>0, <1>1, <1>2, <1>5, <1>7, <2>1, ChatIds DEF DeliveryInv
<1> QED  BY <1>8, <1>9, <1>10 DEF DeliveryInv

\* Client.Send fails; the message stays in the hands of the handler.
LEMMA PushErrKeeps ==
    ASSUME DeliveryInv, NEW h \in Handler, PushErr(h)
    PROVE  DeliveryInv'
<1>0. PICK t, n : t = task[h] /\ n = [t EXCEPT !.at = "store", !.err = TRUE]
    BY Zenon
<1>1. t.at = "push" /\ "push" \in Chatting /\ "push" \notin Draining
    BY <1>0 DEF PushErr, Chatting, Draining
<1>2. /\ t \in ChatTask /\ t.id \in Ids /\ t.id \in Number
      /\ t.uid \notin t.todo
    BY <1>0, <1>1, ChatFacts
<1>3. /\ task' = [task EXCEPT ![h] = n] /\ failed' = failed \cup {t.id}
      /\ UNCHANGED <<clients, sendq, wire, seen, origin, offq, acked, submitted, dropped,
                     forgotten, unrouted>>
    BY <1>0 DEF PushErr, SetTask, connVars
<1>4. /\ n \in ChatTask /\ n.id = t.id /\ n.conn = t.conn /\ n.err = TRUE
      /\ n.todo = t.todo /\ n.uid = t.uid /\ n.at = "store"
    BY Zenon, <1>0, <1>2 DEF ChatTask, Chatting
<1>5. Shape' /\ Known' /\ Targets'
  <2>1. n.at \notin Draining /\ acked' \cup submitted' \cup failed' \subseteq Ids
      BY Zenon, <1>2, <1>3, <1>4, Unmoved DEF Draining
  <2> QED  BY Zenon, <1>2, <1>3, <1>4, <2>1, Unmoved, TaskKeeps
<1>6. PlacesInv'
  <2>1. \A w \in Uid, i \in Number : InHand(h, w, i)' <=> InHand(h, w, i)
    <3>1. task'[h] = n
        BY <1>3, Unmoved
    <3> QED  BY <1>0, <1>1, <1>4, <3>1 DEF InHand
  <2>2. task[h].at \notin Draining /\ n.at \notin Draining
      BY <1>0, <1>1, <1>4 DEF Draining
  <2> QED  BY Zenon, <1>3, <2>1, <2>2, HandStays
<1>7. IdsInv'
  <2>1. n.at \in Chatting /\ n.at # "finish" /\ task[h].at \in Placing
      BY <1>0, <1>1, <1>4 DEF Chatting, Placing
  <2>2. task[h].at \in Chatting /\ n.id = task[h].id /\ n.conn = task[h].conn
      BY <1>0, <1>1, <1>4
  <2>3. failed \subseteq failed' /\ n.id \in failed'
      BY Zenon, <1>3, <1>4
  <2>4. Shape /\ Known /\ IdsInv
      BY DEF DeliveryInv
  <2> QED  BY Zenon, <1>3, <2>1, <2>2, <2>3, <2>4, ChatIds
<1> QED  BY <1>5, <1>6, <1>7 DEF DeliveryInv

\* DedupCache.Mark: the message is placed by then.
LEMMA MarkKeeps ==
    ASSUME DeliveryInv, NEW h \in Handler, Mark(h)
    PROVE  DeliveryInv'
<1>0. PICK t, n : t = task[h] /\ n = [t EXCEPT !.at = "finish"]
    BY Zenon
<1>1. t.at = "mark" /\ "mark" \in Chatting /\ "mark" \notin Draining
    BY <1>0 DEF Mark, Chatting, Draining
<1>2. /\ t \in ChatTask /\ t.id \in Ids /\ t.id \in Number /\ origin[t.id].key \in Key
      /\ t.err => t.id \in failed
    BY <1>0, <1>1, ChatFacts
<1>3. /\ task' = [task EXCEPT ![h] = n] /\ seen' = [seen EXCEPT ![origin[t.id].key] = t.id]
      /\ UNCHANGED <<clients, sendq, wire, origin, offq, acked, submitted, dropped, failed,
                     forgotten, unrouted>>
    BY <1>0 DEF Mark, SetTask, connVars
<1>4. /\ n \in ChatTask /\ n.id = t.id /\ n.conn = t.conn /\ n.err = t.err /\ n.at = "finish"
    BY Zenon, <1>0, <1>2 DEF ChatTask, Chatting
<1>5. /\ seen' \in [Key -> Number \cup {0}] /\ \A k \in Key : seen'[k] <= Len(origin)
      /\ seen'[origin[t.id].key] = t.id /\ t.id # 0
    BY <1>2, <1>3, Unmoved DEF Ids, Number
<1>6. Shape' /\ Known' /\ Targets'
  <2>1. n.at \notin Draining
      BY <1>4 DEF Draining
  <2> QED  BY Zenon, <1>2, <1>3, <1>4, <1>5, <2>1, Unmoved, TaskKeeps
<1>7. PlacesInv'
  <2>1. \A w \in Uid, i \in Number : InHand(h, w, i)' <=> InHand(h, w, i)
    <3>1. task'[h] = n
        BY <1>3, Unmoved
    <3> QED  BY <1>0, <1>1, <1>4, <3>1 DEF InHand
  <2>2. task[h].at \notin Draining /\ n.at \notin Draining
      BY <1>0, <1>1, <1>4 DEF Draining
  <2> QED  BY Zenon, <1>3, <2>1, <2>2, HandStays
<1>8. IdsInv'
  <2>1. n.at \in Chatting /\ n.at \notin Placing
      BY <1>4 DEF Chatting, Placing
  <2>2. task[h].at \in Chatting /\ n.id = task[h].id /\ n.conn = task[h].conn
      BY Zenon, <1>0, <1>1, <1>4
  <2>3. seen' = [seen EXCEPT ![origin[n.id].key] = n.id] /\ seen'[origin[n.id].key] # 0
      BY Zenon, <1>3, <1>4, <1>5
  <2> QED  BY Zenon, <1>2, <1>3, <1>4, <2>1, <2>2, <2>3, ChatIds DEF DeliveryInv
<1> QED  BY <1>6, <1>7, <1>8 DEF DeliveryInv

\* The ACK, and the end of the handler: the message is placed by then.
LEMMA FinishKeeps ==
    ASSUME DeliveryInv, NEW h \in Handler, Finish(h)
    PROVE  DeliveryInv'
<1>0. PICK t : t = task[h]
    OBVIOUS
<1>1. t.at = "finish" /\ "finish" \in Chatting /\ "finish" \notin Draining
    BY Zenon, <1>0 DEF Finish, Chatting, Draining
<1>2. t.id \in Ids
    BY Zenon, <1>0, <1>1, ChatFacts
<1>3. /\ task' = [task EXCEPT ![h] = Idle]
      /\ acked' = acked \cup {t.id} /\ submitted' = submitted \cup {t.id}
      /\ UNCHANGED <<clients, sendq, wire, seen, origin, offq, dropped, failed, forgotten, unrouted>>
    BY <1>0 DEF Finish, SetTask, connVars
<1>4. Idle.at = "idle" /\ "idle" \notin Chatting /\ "idle" \notin Draining
    BY DEF Idle, Chatting, Draining
<1>5. Shape' /\ Known' /\ Targets'
  <2>1. acked' \cup submitted' \cup failed' \subseteq Ids
      BY <1>2, <1>3, Unmoved
  <2> QED  BY Zenon, <1>3, <1>4, <2>1, Unmoved, TaskKeeps
<1>6. PlacesInv'
  <2>1. \A w \in Uid, i \in Number : InHand(h, w, i)' <=> InHand(h, w, i)
    <3>1. task'[h] = Idle
        BY <1>3, Unmoved
    <3> QED  BY Zenon, <1>0, <1>1, <1>4, <3>1 DEF InHand
  <2> QED  BY Zenon, <1>0, <1>1, <1>3, <1>4, <2>1, HandStays
<1>7. IdsInv'
    BY Zenon, <1>0, <1>1, <1>3, FinishIds DEF DeliveryInv
<1> QED  BY <1>5, <1>6, <1>7 DEF DeliveryInv

\* A recipient that has been served is no longer in hand, and the others are.
LEMMA HandReleased ==
    ASSUME DeliveryInv, NEW h \in Handler, NEW t, t = task[h], t.at \in {"push", "store"},
           NEW n, n = [t EXCEPT !.at = After(t)], task' = [task EXCEPT ![h] = n],
           NEW p, p = <<"hand", h>>
    PROVE  /\ Holds(p, t.uid, t.id) /\ Released(p, t.uid, t.id) /\ BatchesOnce'
           /\ n \in ChatTask
           /\ n.at \in {"lookup", "mark", "finish"}
           /\ n.at = "finish" => t.err
<1>1. t.at \in Chatting /\ t.at \notin Draining
    BY DEF Chatting, Draining
<1>2. t \in ChatTask /\ t.uid \notin t.todo
    BY <1>1, ChatFacts
<1>3. After(t) \in {"lookup", "mark", "finish"} /\ (After(t) = "finish" => t.err)
      /\ (After(t) = "lookup" <=> t.todo # {})
    BY DEF After
<1>4. /\ n \in ChatTask /\ n.id = t.id /\ n.conn = t.conn /\ n.err = t.err /\ n.todo = t.todo
      /\ n.at = After(t) /\ n.at \notin Draining
    BY <1>2, <1>3 DEF ChatTask, Chatting, Draining
<1>5. task'[h] = n /\ \A g \in Handler \ {h} : task'[g] = task[g]
    BY Unmoved
<1>6. Holds(p, t.uid, t.id)
    BY DEF Holds, InHand
<1>7. Released(p, t.uid, t.id)
  <2> SUFFICES ASSUME NEW g \in Handler, NEW w \in Uid, NEW i \in Number
               PROVE  /\ In(Batch(g, w), i)' <=> In(Batch(g, w), i)
                      /\ InHand(g, w, i)' <=> InHand(g, w, i) /\ ~(g = h /\ w = t.uid /\ i = t.id)
      BY DEF Released
  <2>1. CASE g = h
    <3>1. In(Batch(h, w), i)' <=> In(Batch(h, w), i)
        BY <1>1, <1>4, <1>5 DEF Batch, In, Draining
    <3>2. InHand(h, w, i)' <=> n.at = "lookup" /\ t.id = i /\ w \in t.todo
        BY Zenon, <1>3, <1>4, <1>5 DEF InHand
    <3>3. InHand(h, w, i) <=> t.id = i /\ (w \in t.todo \/ w = t.uid)
        BY DEF InHand
    <3> QED  BY <1>2, <1>3, <1>4, <2>1, <3>1, <3>2, <3>3
  <2>2. CASE g # h
      BY <1>5, <2>2, TaskHolds
  <2> QED  BY <2>1, <2>2
<1>8. BatchesOnce'
    BY <1>4, <1>5, Unmoved DEF BatchesOnce, Once
<1> QED  BY <1>3, <1>4, <1>6, <1>7, <1>8

\* Client.Send succeeds: the message moves from the hand into the buffer.
LEMMA PushOkKeeps ==
    ASSUME DeliveryInv, NEW h \in Handler, PushOk(h)
    PROVE  DeliveryInv'
<1>0. PICK t, n, p : t = task[h] /\ n = [t EXCEPT !.at = After(t)] /\ p = <<"hand", h>>
    BY Zenon
<1>1. t.at = "push" /\ "push" \in Chatting /\ Put(t.target, t.id) /\ task' = [task EXCEPT ![h] = n]
      /\ UNCHANGED <<clients, wire, seen, origin, offq, acked, submitted, dropped, failed, forgotten,
                     unrouted>>
    BY <1>0 DEF PushOk, SetTask, Chatting, routerVars
<1>2. /\ t \in ChatTask /\ t.id \in Ids /\ t.id \in Number /\ t.uid \in Uid
      /\ t.target \in Conn /\ Owner[t.target] = t.uid
      /\ t.err => t.id \in failed
    BY <1>0, <1>1, ChatFacts DEF ChatTask
<1>3. /\ Holds(p, t.uid, t.id) /\ Released(p, t.uid, t.id) /\ BatchesOnce'
      /\ n \in ChatTask /\ n.id = t.id /\ n.conn = t.conn /\ (n.err => t.err)
      /\ n.at \in {"lookup", "mark", "finish"}
      /\ n.at = "finish" => t.err
  <2>1. t = task[h] /\ t.at \in {"push", "store"} /\ n = [t EXCEPT !.at = After(t)]
      BY <1>0, <1>1
  <2>2. task' = [task EXCEPT ![h] = n] /\ p = <<"hand", h>>
      BY <1>0, <1>1
  <2>3. Holds(p, t.uid, t.id)
      BY Zenon, <2>1, <2>2, HandReleased
  <2>4. Released(p, t.uid, t.id)
      BY Zenon, <2>1, <2>2, HandReleased
  <2>5. BatchesOnce'
      BY Zenon, <2>1, <2>2, HandReleased
  <2>6. n \in ChatTask
      BY Zenon, <2>1, <2>2, HandReleased
  <2>7. n.id = t.id /\ n.conn = t.conn /\ (n.err => t.err)
      BY <1>2, <2>1 DEF ChatTask
  <2>8. n.at \in {"lookup", "mark", "finish"} /\ (n.at = "finish" => t.err)
      BY Zenon, <2>1, <2>2, HandReleased
  <2> QED  BY Zenon, <2>3, <2>4, <2>5, <2>6, <2>7, <2>8
<1>4. sendq' \in [Conn -> Seq(Number)]
    BY Zenon, <1>1, <1>2, Unmoved, PutTyped DEF Put
<1>5. Shape' /\ Known' /\ Targets'
  <2>1. n.at \notin Draining /\ n.at \notin {"push", "store"}
      BY <1>3 DEF Draining
  <2> QED  BY Zenon, <1>1, <1>2, <1>3, <1>4, <2>1, Unmoved, TaskKeeps
<1>6. PlacesInv'
    BY Zenon, <1>0, <1>1, <1>2, <1>3, PutPlaces DEF DeliveryInv
<1>7. IdsInv'
  <2>1. n.at \in Chatting /\ task[h].at \in Placing
      BY <1>0, <1>1, <1>3 DEF Chatting, Placing
  <2>2. task[h].at \in Chatting /\ n.id = task[h].id /\ n.conn = task[h].conn
      BY <1>0, <1>1, <1>3
  <2>3. failed \subseteq failed' /\ (n.err => n.id \in failed') /\ (n.at = "finish" => n.id \in failed')
      BY Zenon, <1>1, <1>2, <1>3
  <2>4. Shape /\ Known /\ IdsInv
      BY DEF DeliveryInv
  <2> QED  BY Zenon, <1>1, <2>1, <2>2, <2>3, <2>4, ChatIds
<1> QED  BY <1>5, <1>6, <1>7 DEF DeliveryInv

\* The message moves from the hand into the offline queue, whose oldest entry
\* may be dropped.
LEMMA StoreKeeps ==
    ASSUME DeliveryInv, NEW h \in Handler, Store(h)
    PROVE  DeliveryInv'
<1>0. PICK t, n, p : t = task[h] /\ n = [t EXCEPT !.at = After(t)] /\ p = <<"hand", h>>
    BY Zenon
<1>1. t.at = "store" /\ "store" \in Chatting /\ StoreOffline(t.uid, t.id) /\ task' = [task EXCEPT ![h] = n]
      /\ UNCHANGED <<clients, sendq, wire, seen, origin, acked, submitted, failed, forgotten, unrouted>>
    BY <1>0 DEF Store, SetTask, Chatting, connVars
<1>2. /\ t \in ChatTask /\ t.id \in Ids /\ t.id \in Number /\ t.uid \in Uid
      /\ t.err => t.id \in failed
    BY <1>0, <1>1, ChatFacts DEF ChatTask
<1>3. /\ Holds(p, t.uid, t.id) /\ Released(p, t.uid, t.id) /\ BatchesOnce'
      /\ n \in ChatTask /\ n.id = t.id /\ n.conn = t.conn /\ (n.err => t.err)
      /\ n.at \in {"lookup", "mark", "finish"}
      /\ n.at = "finish" => t.err
  <2>1. t = task[h] /\ t.at \in {"push", "store"} /\ n = [t EXCEPT !.at = After(t)]
      BY <1>0, <1>1
  <2>2. task' = [task EXCEPT ![h] = n] /\ p = <<"hand", h>>
      BY <1>0, <1>1
  <2>3. Holds(p, t.uid, t.id)
      BY Zenon, <2>1, <2>2, HandReleased
  <2>4. Released(p, t.uid, t.id)
      BY Zenon, <2>1, <2>2, HandReleased
  <2>5. BatchesOnce'
      BY Zenon, <2>1, <2>2, HandReleased
  <2>6. n \in ChatTask
      BY Zenon, <2>1, <2>2, HandReleased
  <2>7. n.id = t.id /\ n.conn = t.conn /\ (n.err => t.err)
      BY <1>2, <2>1 DEF ChatTask
  <2>8. n.at \in {"lookup", "mark", "finish"} /\ (n.at = "finish" => t.err)
      BY Zenon, <2>1, <2>2, HandReleased
  <2> QED  BY Zenon, <2>3, <2>4, <2>5, <2>6, <2>7, <2>8
<1>4. PlacesInv' /\ offq' \in [Uid -> Seq(Number)] /\ dropped' \subseteq Uid \X Number
      /\ \A w \in Uid : Len(offq'[w]) <= OfflineMaxSize
    BY Zenon, <1>0, <1>1, <1>2, <1>3, StorePlaces DEF DeliveryInv
<1>5. Shape' /\ Known' /\ Targets'
  <2>1. n.at \notin Draining /\ n.at \notin {"push", "store"}
      BY <1>3 DEF Draining
  <2> QED  BY Zenon, <1>1, <1>2, <1>3, <1>4, <2>1, Unmoved, TaskKeeps
<1>7. IdsInv'
  <2>1. n.at \in Chatting /\ task[h].at \in Placing
      BY <1>0, <1>1, <1>3 DEF Chatting, Placing
  <2>2. task[h].at \in Chatting /\ n.id = task[h].id /\ n.conn = task[h].conn
      BY <1>0, <1>1, <1>3
  <2>3. failed \subseteq failed' /\ (n.err => n.id \in failed') /\ (n.at = "finish" => n.id \in failed')
      BY <1>1, <1>2, <1>3
  <2>4. Shape /\ Known /\ IdsInv
      BY DEF DeliveryInv
  <2> QED  BY Zenon, <1>1, <2>1, <2>2, <2>3, <2>4, ChatIds
<1> QED  BY <1>4, <1>5, <1>7 DEF DeliveryInv

\* A batch without its first message holds the others.
LEMMA BatchReleased ==
    ASSUME DeliveryInv, NEW h \in Handler, NEW t, t = task[h], t.at \in Draining,
           NEW where \in Draining,
           NEW n, n = Remaining(t, where), task' = [task EXCEPT ![h] = n],
           NEW p, p = <<"batch", h>>, NEW u, u = Owner[t.conn], NEW x, x = Head(t.batch)
    PROVE  /\ t.conn \in Conn /\ u \in Uid /\ x \in Number
           /\ Holds(p, u, x) /\ Released(p, u, x) /\ BatchesOnce'
           /\ n \in {Idle} \cup DrainTask
           /\ n.at \in Draining => n.batch # <<>>
<1>1. t \in {Idle} \cup ChatTask \cup DrainTask
    BY Zenon, Unmoved
<1>2. t \in DrainTask /\ t.batch # <<>> /\ Once(t.batch)
    BY <1>1, TaskKinds, Unmoved DEF DeliveryInv, Targets, BatchesOnce
<1>3. t.batch \in Seq(Number) /\ t.conn \in Conn /\ u \in Uid
    BY <1>2, DeliveryAssumption DEF DrainTask, DeliveryAssumption
<1>4. PICK rest : rest = Tail(t.batch)
    BY Zenon
<1>5. /\ rest \in Seq(Number) /\ Len(rest) = Len(t.batch) - 1 /\ x \in Number /\ In(t.batch, x)
      /\ \A i : In(rest, i) <=> In(t.batch, i) /\ i # x
      /\ Once(rest)
    BY Zenon, <1>2, <1>3, <1>4, TailHolds
<1>6. /\ task'[h] = n /\ \A g \in Handler \ {h} : task'[g] = task[g]
    BY Zenon, Unmoved
<1>7. /\ Len(t.batch) = 1 => n = Idle /\ \A i : ~In(rest, i)
      /\ Len(t.batch) # 1 => n = [t EXCEPT !.batch = rest, !.at = where] /\ rest # <<>>
  <2>1. n = IF Len(t.batch) = 1 THEN Idle ELSE [t EXCEPT !.batch = rest, !.at = where]
      BY Zenon, <1>4 DEF Remaining
  <2>2. Len(t.batch) \in Nat /\ (Len(t.batch) = 1 => Len(rest) = 0) /\ (Len(t.batch) # 1 => Len(rest) # 0)
      BY <1>3, <1>5
  <2>3. Len(rest) = 0 => \A i : ~In(rest, i)
      BY <1>5 DEF In
  <2>4. Len(rest) # 0 => rest # <<>>
      OBVIOUS
  <2> QED  BY <2>1, <2>2, <2>3, <2>4
<1>8. /\ n \in {Idle} \cup DrainTask
      /\ n.at \notin Placing /\ t.at \notin Placing
      /\ n.at \in Draining => n.batch = rest /\ n.batch # <<>> /\ n.conn = t.conn
      /\ n.at \notin Draining => Len(t.batch) = 1
  <2>1. CASE Len(t.batch) = 1
      BY <1>7, <2>1 DEF Idle, Draining, Placing
  <2>2. CASE Len(t.batch) # 1
      BY Zenon, <1>2, <1>5, <1>7, <2>2 DEF DrainTask, Draining, Placing
  <2> QED  BY <2>1, <2>2
<1>9. Holds(p, u, x)
    BY Zenon, <1>5 DEF Holds, Batch, Draining
<1>10. Released(p, u, x)
  <2> SUFFICES ASSUME NEW g \in Handler, NEW w \in Uid, NEW i \in Number
               PROVE  /\ In(Batch(g, w), i)' <=> In(Batch(g, w), i) /\ ~(g = h /\ w = u /\ i = x)
                      /\ InHand(g, w, i)' <=> InHand(g, w, i)
      BY Zenon DEF Released
  <2>1. CASE g = h
    <3>1. ~InHand(h, w, i)' /\ ~InHand(h, w, i)
        BY Zenon, <1>6, <1>8 DEF InHand, Placing
    <3>2. In(Batch(h, w), i) <=> w = u /\ In(t.batch, i)
        BY DEF Batch, In, Draining
    <3>3. In(Batch(h, w), i)' <=> w = u /\ In(rest, i)
      <4>1. CASE n.at \in Draining
        <5>1. Batch(h, w)' = IF w = u THEN rest ELSE <<>>
            BY Zenon, <1>6, <1>8, <4>1 DEF Batch, Draining
        <5> QED  BY Zenon, <5>1, EmptyHolds DEF In
      <4>2. CASE n.at \notin Draining
        <5>1. ~In(rest, i)
            BY <1>7, <1>8, <4>2
        <5>2. Batch(h, w)' = <<>>
            BY <1>6, <4>2 DEF Batch, Draining
        <5> QED  BY <5>1, <5>2 DEF In
      <4> QED  BY Zenon, <4>1, <4>2
    <3> QED  BY Zenon, <1>5, <2>1, <3>1, <3>2, <3>3
  <2>2. CASE g # h
      BY Zenon, <1>6, <2>2, TaskHolds
  <2> QED  BY Zenon, <2>1, <2>2
<1>11. BatchesOnce'
  <2>1. ASSUME NEW g \in Handler, task'[g].at \in Draining
        PROVE  Once(task'[g].batch)
    <3>1. CASE g = h
        BY Zenon, <1>5, <1>6, <1>8, <2>1, <3>1
    <3>2. CASE g # h
        BY Zenon, <1>6, <2>1, <3>2, Unmoved DEF BatchesOnce
    <3> QED  BY Zenon, <3>1, <3>2
  <2> QED  BY Zenon, <2>1 DEF BatchesOnce, Once
<1> QED  BY Zenon, <1>3, <1>5, <1>8, <1>9, <1>10, <1>11

\* A drained message moves from the batch into the buffer.
LEMMA DrainOkKeeps ==
    ASSUME DeliveryInv, NEW h \in Handler, DrainOk(h)
    PROVE  DeliveryInv'
<1>0. PICK t, n, p, u, x : /\ t = task[h] /\ n = Remaining(t, "drain") /\ p = <<"batch", h>>
                           /\ u = Owner[t.conn] /\ x = Head(t.batch)
    BY Zenon
<1>1. t.at = "drain" /\ Put(t.conn, x) /\ task' = [task EXCEPT ![h] = n]
      /\ UNCHANGED <<clients, wire, seen, origin, offq, acked, submitted, dropped, failed, forgotten,
                     unrouted>>
    BY Zenon, <1>0 DEF DrainOk, SetTask, routerVars
<1>2. t.at \in Draining /\ "drain" \in Draining /\ t.at \notin Chatting
    BY <1>1 DEF Draining, Chatting
<1>3. t.conn \in Conn /\ u \in Uid /\ x \in Number /\ Holds(p, u, x)
    BY Zenon, <1>0, <1>1, <1>2, BatchReleased
<1>4. Released(p, u, x)
    BY Zenon, <1>0, <1>1, <1>2, BatchReleased
<1>5. BatchesOnce'
    BY Zenon, <1>0, <1>1, <1>2, BatchReleased
<1>6. n \in {Idle} \cup DrainTask /\ (n.at \in Draining => n.batch # <<>>)
    BY Zenon, <1>0, <1>1, <1>2, BatchReleased
<1>7. sendq' \in [Conn -> Seq(Number)]
    BY Zenon, <1>1, <1>3, Unmoved, PutTyped DEF Put
<1>8. n.at \notin Chatting
    BY Zenon, <1>6, TaskKinds
<1>9. Shape' /\ Known' /\ Targets'
  <2>1. n.at \notin {"push", "store"}
      BY <1>8 DEF Chatting
  <2> QED  BY Zenon, <1>1, <1>6, <1>7, <1>8, <2>1, Unmoved, TaskKeeps
<1>10. PlacesInv'
    BY Zenon, <1>0, <1>1, <1>3, <1>4, <1>5, PutPlaces DEF DeliveryInv
<1>11. IdsInv'
    BY Zenon, <1>0, <1>1, <1>2, <1>8, Unmoved, QuietIds DEF DeliveryInv
<1> QED  BY <1>9, <1>10, <1>11 DEF DeliveryInv

\* The rest of a batch goes back into the offline queue.
LEMMA RequeueKeeps ==
    ASSUME DeliveryInv, NEW h \in Handler, Requeue(h)
    PROVE  DeliveryInv'
<1>0. PICK t, n, p, u, x : /\ t = task[h] /\ n = Remaining(t, "requeue") /\ p = <<"batch", h>>
                           /\ u = Owner[t.conn] /\ x = Head(t.batch)
    BY Zenon
<1>1. t.at = "requeue" /\ StoreOffline(u, x) /\ task' = [task EXCEPT ![h] = n]
      /\ UNCHANGED <<clients, sendq, wire, seen, origin, acked, submitted, failed, forgotten, unrouted>>
    BY Zenon, <1>0 DEF Requeue, SetTask, connVars
<1>2. t.at \in Draining /\ "requeue" \in Draining /\ t.at \notin Chatting
    BY <1>1 DEF Draining, Chatting
<1>3. u \in Uid /\ x \in Number /\ Holds(p, u, x)
    BY Zenon, <1>0, <1>1, <1>2, BatchReleased
<1>4. Released(p, u, x)
    BY Zenon, <1>0, <1>1, <1>2, BatchReleased
<1>5. BatchesOnce'
    BY Zenon, <1>0, <1>1, <1>2, BatchReleased
<1>6. n \in {Idle} \cup DrainTask /\ (n.at \in Draining => n.batch # <<>>)
    BY Zenon, <1>0, <1>1, <1>2, BatchReleased
<1>7. PlacesInv' /\ offq' \in [Uid -> Seq(Number)] /\ dropped' \subseteq Uid \X Number
      /\ \A w \in Uid : Len(offq'[w]) <= OfflineMaxSize
    BY Zenon, <1>0, <1>1, <1>3, <1>4, <1>5, StorePlaces DEF DeliveryInv
<1>8. n.at \notin Chatting
    BY Zenon, <1>6, TaskKinds
<1>9. Shape' /\ Known' /\ Targets'
  <2>1. n.at \notin {"push", "store"}
      BY <1>8 DEF Chatting
  <2> QED  BY Zenon, <1>1, <1>6, <1>7, <1>8, <2>1, Unmoved, TaskKeeps
<1>10. IdsInv'
    BY Zenon, <1>0, <1>1, <1>2, <1>8, Unmoved, QuietIds DEF DeliveryInv
<1> QED  BY <1>7, <1>9, <1>10 DEF DeliveryInv

\* Client.Send fails for a drained message; it stays in the batch.
LEMMA DrainErrKeeps ==
    ASSUME DeliveryInv, NEW h \in Handler, DrainErr(h)
    PROVE  DeliveryInv'
<1>0. PICK t, n : t = task[h] /\ n = [t EXCEPT !.at = "requeue"]
    BY Zenon
<1>1. t.at = "drain" /\ task' = [task EXCEPT ![h] = n]
      /\ UNCHANGED <<clients, sendq, wire, seen, origin, offq, acked, submitted, dropped, failed,
                     forgotten, unrouted>>
    BY <1>0 DEF DrainErr, SetTask, routerVars, connVars
<1>2. /\ t.at \in Draining /\ "requeue" \in Draining /\ t.at \notin Chatting
      /\ "requeue" \notin Chatting \cup {"push", "store"} \cup Placing /\ t.at \notin Placing
    BY <1>1 DEF Draining, Chatting, Placing
<1>3. t \in DrainTask /\ t.batch # <<>>
    BY <1>0, <1>2, Unmoved, TaskKinds DEF DeliveryInv, Targets
<1>4. n \in DrainTask /\ n.at = "requeue" /\ n.batch = t.batch /\ n.conn = t.conn
    BY <1>0, <1>2, <1>3 DEF DrainTask
<1>5. task'[h] = n /\ \A g \in Handler \ {h} : task'[g] = task[g]
    BY <1>1, Unmoved
<1>6. Shape' /\ Known' /\ Targets'
    BY Zenon, <1>1, <1>2, <1>3, <1>4, Unmoved, TaskKeeps
<1>7. PlacesInv'
  <2>1. \A g \in Handler : \A u \in Uid, i \in Number :
            /\ In(Batch(g, u), i)' <=> In(Batch(g, u), i)
            /\ InHand(g, u, i)' <=> InHand(g, u, i)
    <3> SUFFICES ASSUME NEW g \in Handler, NEW u \in Uid, NEW i \in Number
                 PROVE  /\ In(Batch(g, u), i)' <=> In(Batch(g, u), i)
                        /\ InHand(g, u, i)' <=> InHand(g, u, i)
        OBVIOUS
    <3>1. CASE g = h
      <4>1. In(Batch(h, u), i)' <=> In(Batch(h, u), i)
          BY <1>0, <1>2, <1>4, <1>5 DEF Batch, In, Draining
      <4>2. ~InHand(h, u, i)' /\ ~InHand(h, u, i)
          BY <1>0, <1>2, <1>4, <1>5 DEF InHand, Placing
      <4> QED  BY <3>1, <4>1, <4>2
    <3>2. CASE g # h
        BY Zenon, <1>5, <3>2, TaskHolds
    <3> QED  BY <3>1, <3>2
  <2>2. \A g \in Handler : task'[g].at \in Draining =>
            task[g].at \in Draining /\ task'[g].batch = task[g].batch
      BY Zenon, <1>0, <1>2, <1>4, <1>5
  <2> QED  BY <1>1, <2>1, <2>2, CalmKeeps DEF DeliveryInv
<1>8. IdsInv'
    BY <1>0, <1>1, <1>2, <1>4, <1>5, QuietIds DEF DeliveryInv
<1> QED  BY <1>6, <1>7, <1>8 DEF DeliveryInv

-----------------------------------------------------------------------------
(* The other steps                                                         *)

\* DrainOffline: the queue becomes the batch of a handler.
LEMMA FetchStepKeeps ==
    ASSUME DeliveryInv, NEW h \in Handler, NEW c \in Conn, Fetch(h, c)
    PROVE  DeliveryInv'
<1>0. PICK u, n : u = Owner[c] /\ n = [at |-> "drain", conn |-> c, batch |-> offq[u]]
    BY Zenon
<1>1. /\ task[h].at = "idle" /\ offq[u] # <<>> /\ task' = [task EXCEPT ![h] = n]
      /\ offq' = [offq EXCEPT ![u] = <<>>]
      /\ UNCHANGED <<clients, sendq, wire, seen, origin, acked, submitted, dropped, failed,
                     forgotten, unrouted>>
    BY Zenon, <1>0 DEF Fetch, MayRead, Busy, SetTask, connVars
<1>2. u \in Uid /\ offq[u] \in Seq(Number)
    BY Zenon, <1>0, DeliveryAssumption, Unmoved DEF DeliveryAssumption
<1>3. n \in DrainTask /\ n.at = "drain" /\ n.batch = offq[u]
    BY Zenon, <1>0, <1>2 DEF DrainTask, Draining
<1>4. "drain" \notin Chatting \cup {"push", "store"} /\ "idle" \notin Chatting
    BY DEF Chatting
<1>5. offq' \in [Uid -> Seq(Number)] /\ \A w \in Uid : Len(offq'[w]) <= OfflineMaxSize
  <2> DEFINE none == <<>>
  <2>1. none \in Seq(Number) /\ Len(none) = 0 /\ OfflineMaxSize \in Nat
      BY DeliveryAssumption DEF DeliveryAssumption
  <2>2. offq' = [offq EXCEPT ![u] = none]
      BY <1>1
  <2> HIDE DEF none
  <2>3. Len(none) <= OfflineMaxSize
      BY <2>1
  <2>4. \A w \in Uid : offq'[w] = none \/ offq'[w] = offq[w]
      BY <2>2, Unmoved
  <2> QED  BY Zenon, <2>1, <2>2, <2>3, <2>4, Unmoved
<1>6. Shape' /\ Known' /\ Targets'
    BY Zenon, <1>1, <1>3, <1>4, <1>5, Unmoved, TaskKeeps
<1>7. PlacesInv'
    BY FetchPlaces DEF DeliveryInv
<1>8. IdsInv'
    BY Zenon, <1>1, <1>3, <1>4, Unmoved, QuietIds DEF DeliveryInv
<1> QED  BY <1>6, <1>7, <1>8 DEF DeliveryInv

\* A step that leaves the handlers and the messages alone.
LEMMA SameTasksKeep ==
    ASSUME DeliveryInv, UNCHANGED <<task, origin, unrouted, offq, dropped, sendq, wire>>
    PROVE  PlacesInv'
<1>1. \A h \in Handler : \A u \in Uid, i \in Number :
          /\ In(Batch(h, u), i)' <=> In(Batch(h, u), i)
          /\ InHand(h, u, i)' <=> InHand(h, u, i)
    BY TaskHolds
<1> QED  BY <1>1, CalmKeeps DEF DeliveryInv

\* IsDuplicate: an ACK for a message that is placed.
LEMMA DuplicateKeeps ==
    ASSUME DeliveryInv, NEW h \in Handler, NEW c \in Conn, NEW k \in Key, Duplicate(h, c, k)
    PROVE  DeliveryInv'
<1>1. /\ seen[k] # 0 /\ acked' = acked \cup {seen[k]}
      /\ UNCHANGED <<clients, sendq, wire, seen, origin, offq, task, submitted, dropped, failed,
                     forgotten, unrouted>>
    BY DEF Duplicate, connVars
<1>2. Shape' /\ Targets'
    BY Zenon, <1>1 DEF DeliveryInv, Shape, Targets
<1>3. Known'
  <2>1. seen[k] \in Ids
    <3>1. seen[k] \in Number \cup {0} /\ seen[k] <= Len(origin)
        BY Zenon DEF DeliveryInv, Known
    <3>2. origin \in Seq([key : Key, conn : Conn]) /\ MaxId \in Nat
        BY Zenon, DeliveryAssumption DEF DeliveryAssumption, DeliveryInv, Shape
    <3> QED  BY <1>1, <3>1, <3>2 DEF Ids, Number
  <2> QED  BY Zenon, <1>1, <2>1 DEF DeliveryInv, Known, Ids
<1>4. PlacesInv'
    BY <1>1, SameTasksKeep
<1>5. IdsInv'
    BY <1>1, DuplicateIds DEF DeliveryInv
<1> QED  BY Zenon, <1>2, <1>3, <1>4, <1>5 DEF DeliveryInv

\* An entry of the DedupCache expires.
LEMMA ExpireKeeps ==
    ASSUME DeliveryInv, NEW k \in Key, Expire(k)
    PROVE  DeliveryInv'
<1>1. /\ seen' = [seen EXCEPT ![k] = 0] /\ forgotten' = forgotten \cup {k}
      /\ UNCHANGED <<clients, sendq, wire, origin, offq, task, acked, submitted, dropped, failed,
                     unrouted>>
    BY DEF Expire, connVars
<1>2. Shape' /\ Targets'
    BY Zenon, <1>1 DEF DeliveryInv, Shape, Targets
<1>3. Known'
  <2>1. origin \in Seq([key : Key, conn : Conn])
      BY DEF DeliveryInv, Shape
  <2>2. Len(origin) \in Nat /\ 0 <= Len(origin)
      BY <2>1
  <2> QED  BY Zenon, <1>1, <2>2 DEF DeliveryInv, Known, Ids
<1>4. PlacesInv'
    BY <1>1, SameTasksKeep
<1>5. IdsInv'
    BY Zenon, <1>1, ExpireIds DEF DeliveryInv
<1> QED  BY <1>2, <1>3, <1>4, <1>5 DEF DeliveryInv

\* The steps of connections change the registry and move queued messages to the wire.
LEMMA ConnectionsKeep ==
    ASSUME DeliveryInv, NEW c \in Conn, ConnStep(c) \/ Disconnect(c), UNCHANGED <<task, routerVars>>
    PROVE  DeliveryInv'
<1>1. UNCHANGED <<seen, origin, offq, task, acked, submitted, dropped, failed, forgotten, unrouted>>
    BY DEF routerVars
<1>2. Owner[c] \in Uid /\ NoConn \notin Conn /\ clients \in [Uid -> Conn \cup {NoConn}]
    BY Zenon, DeliveryAssumption DEF DeliveryAssumption, DeliveryInv, Shape
<1>3. /\ clients' \in [Uid -> Conn \cup {NoConn}]
      /\ \A u \in Uid : clients'[u] # NoConn => Owner[clients'[u]] = u
  <2>1. \A u \in Uid : clients[u] # NoConn => Owner[clients[u]] = u
      BY DEF DeliveryInv, Targets
  <2>2. CASE Accept(c)
      BY Zenon, <1>2, <2>1, <2>2 DEF Accept
  <2>3. CASE Disconnect(c)
      BY <1>2, <2>1, <2>3 DEF Disconnect
  <2>4. CASE Refuse(c) \/ Greet(c) \/ Sever(c) \/ Flush(c)
      BY Zenon, <1>2, <2>1, <2>4 DEF Refuse, Greet, Sever, Flush
  <2> QED  BY Zenon, <2>2, <2>3, <2>4 DEF ConnStep
<1>4. sendq' \in [Conn -> Seq(Number)] /\ wire' \in [Conn -> Seq(Number)] /\ PlacesInv'
  <2>1. CASE Flush(c)
    <3>1. PICK x : x = Head(sendq[c])
        OBVIOUS
    <3>2. /\ sendq[c] # <<>> /\ sendq' = [sendq EXCEPT ![c] = Tail(@)]
          /\ wire' = [wire EXCEPT ![c] = Append(@, x)]
        BY <2>1, <3>1 DEF Flush
    <3>3. x \in Number /\ Tail(sendq[c]) \in Seq(Number) /\ Append(wire[c], x) \in Seq(Number)
        BY <3>1, <3>2, Unmoved
    <3>4. sendq' \in [Conn -> Seq(Number)] /\ wire' \in [Conn -> Seq(Number)]
        BY <3>2, <3>3, Unmoved
    <3> QED  BY <2>1, <3>4, FlushPlaces DEF DeliveryInv
  <2>2. CASE Accept(c) \/ Refuse(c) \/ Greet(c) \/ Sever(c) \/ Disconnect(c)
    <3>1. UNCHANGED <<sendq, wire>>
        BY Zenon, <2>2 DEF Accept, Refuse, Greet, Sever, Disconnect
    <3> QED  BY <1>1, <3>1, Unmoved, SameTasksKeep
  <2> QED  BY <2>1, <2>2 DEF ConnStep
<1>5. Shape'
    BY <1>1, <1>3, <1>4 DEF DeliveryInv, Shape
<1>6. Known'
    BY Zenon, <1>1 DEF DeliveryInv, Known, Ids
<1>7. Targets'
    BY Zenon, <1>1, <1>3 DEF DeliveryInv, Targets
<1>8. IdsInv'
    BY <1>1, QuietIds DEF DeliveryInv
<1> QED  BY <1>4, <1>5, <1>6, <1>7, <1>8 DEF DeliveryInv

\* The invariant holds at the start.
LEMMA InitKeeps ==
    ASSUME Init
    PROVE  DeliveryInv
<1> DEFINE none == <<>>
<1>1. none \in Seq(Number) /\ none \in Seq([key : Key, conn : Conn]) /\ Len(none) = 0 /\ DOMAIN none = {}
    OBVIOUS
<1>2. /\ clients = [u \in Uid |-> NoConn] /\ sendq = [c \in Conn |-> none] /\ wire = [c \in Conn |-> none]
      /\ seen = [k \in Key |-> 0] /\ origin = none /\ offq = [u \in Uid |-> none]
      /\ task = [h \in Handler |-> Idle]
      /\ acked = {} /\ submitted = {} /\ dropped = {} /\ failed = {} /\ forgotten = {} /\ unrouted = {}
    BY DEF Init, ConnInit
<1>3. (\A i : ~In(none, i)) /\ Once(none)
    BY <1>1 DEF In, Once
<1>4. OfflineMaxSize \in Nat /\ MaxId \in Nat
    BY Zenon, DeliveryAssumption DEF DeliveryAssumption
<1>5. \A h \in Handler : task[h] = Idle /\ task[h].at = "idle"
    BY <1>2 DEF Idle
<1>6. "idle" \notin Chatting \cup Draining \cup Placing \cup {"push", "store"}
    BY DEF Chatting, Draining, Placing
<1>7. Ids = {}
    BY <1>1, <1>2 DEF Ids
<1> HIDE DEF none
<1>8. Shape
  <2>1. Len(none) <= MaxId /\ Len(none) <= OfflineMaxSize
      BY <1>1, <1>4
  <2> QED  BY <1>1, <1>2, <2>1 DEF Shape
<1>9. Known
  <2>1. \A k \in Key : seen[k] <= Len(origin)
      BY <1>1, <1>2
  <2> QED  BY <1>2, <1>5, <1>6, <2>1 DEF Known
<1>10. Targets
    BY Zenon, <1>2, <1>5, <1>6 DEF Targets
<1>11. \A p \in Place, u \in Uid, i \in Number : ~Holds(p, u, i)
  <2> SUFFICES ASSUME NEW p \in Place, NEW u \in Uid, NEW i \in Number
               PROVE  ~Holds(p, u, i)
      OBVIOUS
  <2>1. \A h \in Handler : ~In(Batch(h, u), i) /\ ~InHand(h, u, i)
    <3> SUFFICES ASSUME NEW h \in Handler PROVE ~In(Batch(h, u), i) /\ ~InHand(h, u, i)
        OBVIOUS
    <3>1. Batch(h, u) = none
        BY <1>5 DEF Batch, none
    <3> QED  BY Zenon, <1>3, <1>5, <3>1 DEF InHand
  <2>2. ~In(offq[u], i) /\ <<u, i>> \notin dropped
      BY <1>2, <1>3
  <2>3. \A c \in Conn : ~In(sendq[c], i) /\ ~In(wire[c], i)
      BY <1>2, <1>3
  <2>4. CASE p \in {<<"offline", "user">>, <<"dropped", "user">>}
      BY Zenon, <2>2, <2>4, HoldsKinds
  <2>5. ASSUME NEW c \in Conn, p = <<"buffer", c>> \/ p = <<"wire", c>>
        PROVE  ~Holds(p, u, i)
    <3>1. ~Holds(<<"buffer", c>>, u, i) /\ ~Holds(<<"wire", c>>, u, i)
        BY Zenon, <2>3, HoldsKinds
    <3> QED  BY Zenon, <2>5, <3>1
  <2>6. ASSUME NEW h \in Handler, p = <<"batch", h>> \/ p = <<"hand", h>>
        PROVE  ~Holds(p, u, i)
    <3>1. ~Holds(<<"batch", h>>, u, i) /\ ~Holds(<<"hand", h>>, u, i)
        BY Zenon, <2>1, HoldsKinds
    <3> QED  BY Zenon, <2>6, <3>1
  <2> QED  BY Zenon, <2>4, <2>5, <2>6, PlaceKinds
<1>12. PlacesInv
    BY <1>2, <1>3, <1>5, <1>6, <1>7, <1>11 DEF PlacesInv, Addressed, OnePlace, NoTwice
<1>13. IdsInv
    BY Zenon, <1>5, <1>6, <1>7 DEF IdsInv, Unsettled, OneHandler, Watched, Handling, RetryHasReason
<1> QED  BY <1>8, <1>9, <1>10, <1>12, <1>13 DEF DeliveryInv

\* Every step of the specification keeps the invariant.
LEMMA StepKeeps ==
    ASSUME DeliveryInv, [Next]_vars
    PROVE  DeliveryInv'
<1>1. CASE UNCHANGED vars
  <2>1. UNCHANGED <<clients, sendq, wire, seen, origin, offq, task, acked, submitted, dropped, failed,
                    forgotten, unrouted>>
      BY <1>1 DEF vars, connVars
  <2>2. Shape' /\ Known' /\ Targets'
      BY Zenon, <2>1 DEF DeliveryInv, Shape, Known, Targets, Ids
  <2>3. PlacesInv'
      BY <2>1, SameTasksKeep
  <2>4. IdsInv'
      BY <2>1, QuietIds DEF DeliveryInv
  <2> QED  BY <2>2, <2>3, <2>4 DEF DeliveryInv
<1>2. ASSUME NEW c \in Conn, ConnStep(c), UNCHANGED <<task, routerVars>> PROVE DeliveryInv'
    BY <1>2, ConnectionsKeep
<1>3. ASSUME NEW c \in Conn, Leave(c) PROVE DeliveryInv'
  <2>1. Disconnect(c) /\ UNCHANGED <<task, routerVars>>
      BY <1>3 DEF Leave
  <2> QED  BY <2>1, ConnectionsKeep
<1>4. ASSUME NEW h \in Handler, NEW c \in Conn, Fetch(h, c) PROVE DeliveryInv'
    BY <1>4, FetchStepKeeps
<1>5. ASSUME NEW h \in Handler, NEW c \in Conn, NEW k \in Key, Duplicate(h, c, k) \/ Receive(h, c, k)
      PROVE  DeliveryInv'
    BY <1>5, DuplicateKeeps, ReceiveKeeps
<1>6. ASSUME NEW h \in Handler, HandlerStep(h) PROVE DeliveryInv'
    BY <1>6, LookupKeeps, PushOkKeeps, PushErrKeeps, StoreKeeps, MarkKeeps, FinishKeeps,
       DrainOkKeeps, DrainErrKeeps, RequeueKeeps DEF HandlerStep
<1>7. ASSUME NEW k \in Key, Expire(k) PROVE DeliveryInv'
    BY <1>7, ExpireKeeps
<1> QED  BY <1>1, <1>2, <1>3, <1>4, <1>5, <1>6, <1>7 DEF Next

\* Whatever the handlers, connections and expiries do, every message is in one place
\* for each recipient and no handler works on a message that is settled.
THEOREM DeliveryInvariant == Spec => []DeliveryInv
<1>1. Init => DeliveryInv
    BY InitKeeps
<1>2. DeliveryInv /\ [Next]_vars => DeliveryInv'
    BY StepKeeps
<1> QED  BY <1>1, <1>2, PTL DEF Spec

-----------------------------------------------------------------------------
(* The properties                                                          *)

\* TypeOK holds: only ids that were handed out are queued, written, acknowledged or
\* marked, and no offline queue exceeds its size.
THEOREM TypeCorrect == Spec => []TypeOK
<1>1. DeliveryInv => TypeOK
  <2> SUFFICES ASSUME DeliveryInv PROVE TypeOK
      OBVIOUS
  <2>1. \A q \in Seq(Number) : (\A j \in DOMAIN q : q[j] \in Ids) => q \in Seq(Ids)
      OBVIOUS
  <2>2. \A u \in Uid : offq[u] \in Seq(Ids)
    <3> SUFFICES ASSUME NEW u \in Uid PROVE offq[u] \in Seq(Ids)
        BY Zenon
    <3>1. offq[u] \in Seq(Number) /\ <<"offline", "user">> \in Place
        BY Unmoved DEF Place
    <3>2. \A j \in DOMAIN offq[u] : offq[u][j] \in Number /\ In(offq[u], offq[u][j])
        BY <3>1 DEF In
    <3>3. \A j \in DOMAIN offq[u] : offq[u][j] \in Ids
        BY Zenon, <3>1, <3>2, HoldsKinds DEF DeliveryInv, PlacesInv, Addressed
    <3> QED  BY <2>1, <3>1, <3>3
  <2>3. \A c \in Conn : sendq[c] \in Seq(Ids) /\ wire[c] \in Seq(Ids)
    <3> SUFFICES ASSUME NEW c \in Conn PROVE sendq[c] \in Seq(Ids) /\ wire[c] \in Seq(Ids)
        BY Zenon
    <3>1. /\ sendq[c] \in Seq(Number) /\ wire[c] \in Seq(Number)
          /\ <<"buffer", c>> \in Place /\ <<"wire", c>> \in Place /\ Owner[c] \in Uid
        BY Zenon, DeliveryAssumption, Unmoved DEF DeliveryAssumption, Place
    <3>2. /\ \A j \in DOMAIN sendq[c] : sendq[c][j] \in Number /\ In(sendq[c], sendq[c][j])
          /\ \A j \in DOMAIN wire[c] : wire[c][j] \in Number /\ In(wire[c], wire[c][j])
      <4>1. ASSUME NEW q \in Seq(Number) PROVE \A j \in DOMAIN q : q[j] \in Number
          OBVIOUS
      <4> QED  BY Zenon, <3>1, <4>1 DEF In
    <3>3. \A j \in DOMAIN sendq[c] : sendq[c][j] \in Ids
        BY Zenon, <3>1, <3>2, HoldsKinds DEF DeliveryInv, PlacesInv, Addressed
    <3>4. \A j \in DOMAIN wire[c] : wire[c][j] \in Ids
      <4> SUFFICES ASSUME NEW j \in DOMAIN wire[c] PROVE wire[c][j] \in Ids
          OBVIOUS
      <4>1. Holds(<<"wire", c>>, Owner[c], wire[c][j])
          BY Zenon, <3>2, HoldsKinds
      <4> QED  BY Zenon, <3>1, <3>2, <4>1 DEF DeliveryInv, PlacesInv, Addressed
    <3> QED  BY Zenon, <2>1, <3>1, <3>3, <3>4
  <2>4. seen \in [Key -> 0..MaxId]
      BY DeliveryAssumption, Unmoved DEF DeliveryAssumption, Number
  <2>5. unrouted \subseteq Ids /\ clients \in [Uid -> Conn \cup {NoConn}]
      BY DEF DeliveryInv, Known, Shape
  <2> QED  BY <2>2, <2>3, <2>4, <2>5, Unmoved DEF TypeOK
<1> QED  BY <1>1, DeliveryInvariant, PTL

\* RetryHasReason holds: handleChat takes a retry for a new message only when a Send
\* failed, the entry expired, or the connection's messages are handled in parallel.
THEOREM RetriesExplained == Spec => []RetryHasReason
<1>1. DeliveryInv => RetryHasReason
    BY DEF DeliveryInv, IdsInv
<1> QED  BY <1>1, DeliveryInvariant, PTL

-----------------------------------------------------------------------------
(* Counting copies                                                         *)

INSTANCE FiniteSetTheorems

\* OneCopy, with the copies counted.
LEMMA CopiesCounted ==
    ASSUME DeliveryInv, NEW i \in Ids, NEW u \in Recipients(i)
    PROVE  \/ /\ Placed(u, i) = 1 /\ InHands(u, i) = 0
              /\ \A h \in Handler : ~InHand(h, u, i)
           \/ /\ Placed(u, i) = 0 /\ InHands(u, i) = 1
              /\ \E h \in Handler : InHand(h, u, i)
<1>1. Placed(u, i) = Cardinality(Copies(u, i)) /\ InHands(u, i) = Cardinality({h \in Handler : InHand(h, u, i)})
    BY Zenon DEF Placed, Copies, InHands
<1>2. Cardinality({}) = 0 /\ \A z : Cardinality({z}) = 1
    BY Zenon, FS_EmptySet, FS_Singleton
<1>3. CASE (\E z : Copies(u, i) = {z}) /\ \A h \in Handler : ~InHand(h, u, i)
  <2>1. {h \in Handler : InHand(h, u, i)} = {}
      BY Zenon, <1>3
  <2> QED  BY Zenon, <1>1, <1>2, <1>3, <2>1
<1>4. ASSUME Copies(u, i) = {}, NEW h \in Handler, \A g \in Handler : InHand(g, u, i) <=> g = h
      PROVE  Placed(u, i) = 0 /\ InHands(u, i) = 1 /\ InHand(h, u, i)
  <2>1. {g \in Handler : InHand(g, u, i)} = {h}
      BY Zenon, <1>4
  <2> QED  BY Zenon, <1>1, <1>2, <1>4, <2>1
<1> QED  BY Zenon, <1>3, <1>4, OneCopy

\* ExactlyOnePlace holds: from the moment handleChat gives a message its id, it is at
\* every moment in exactly one place for each recipient, whoever logs in, leaves,
\* drains or requeues meanwhile.
THEOREM OnePlaceHolds == Spec => []ExactlyOnePlace
<1>1. DeliveryInv => ExactlyOnePlace
  <2>1. ASSUME DeliveryInv, NEW i \in Ids, NEW u \in Recipients(i)
        PROVE  Placed(u, i) + InHands(u, i) = 1
    <3>1. PICK a, b : a = Placed(u, i) /\ b = InHands(u, i)
        BY Zenon
    <3>2. (a = 1 /\ b = 0) \/ (a = 0 /\ b = 1)
        BY Zenon, <2>1, <3>1, CopiesCounted
    <3>3. a + b = 1
        BY <3>2
    <3> QED  BY Zenon, <3>1, <3>3
  <2> QED  BY Zenon, <2>1 DEF ExactlyOnePlace
<1> QED  BY <1>1, DeliveryInvariant, PTL

\* SettledBeforeMark holds: handleChat acknowledges and marks only what it has placed
\* for every recipient.
THEOREM SettledHolds == Spec => []SettledBeforeMark
<1>1. DeliveryInv => SettledBeforeMark
  <2> SUFFICES ASSUME DeliveryInv, NEW i \in Ids, i \in acked \/ \E k \in Key : seen[k] = i,
                      NEW u \in Recipients(i)
               PROVE  Placed(u, i) = 1
      BY Zenon DEF SettledBeforeMark
  <2>1. \A h \in Handler : ~InHand(h, u, i)
      BY DEF InHand, DeliveryInv, IdsInv, Unsettled, Placing
  <2> QED  BY <2>1, CopiesCounted
<1> QED  BY <1>1, DeliveryInvariant, PTL

=============================================================================
