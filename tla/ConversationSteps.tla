------------------------- MODULE ConversationSteps --------------------------
(***************************************************************************)
(* The inductive invariant of Conversation, what a step may do without     *)
(* disturbing it, the steps that do no more than that, and the handlers    *)
(* that place a message and finish with it.                                *)
(*                                                                         *)
(* The module begins with the operations on sequences that the pages and   *)
(* the gateway use, for sequences of any length.  ConversationInv has a    *)
(* part for each property; SettledKeeps and CalmKeeps are its frames: they *)
(* say what a step has to leave alone, and most actions are such steps.    *)
(* The other actions of the pages follow in ConversationProofs.            *)
(***************************************************************************)
EXTENDS Conversation, FiniteSetTheorems, TLAPS

\* What is under way, shown or stored speaks of messages that have a MsgId.
Known == Typed(Range(order))

\* A set of natural numbers has a least element.
LEMMA LeastExists ==
    ASSUME NEW S \in SUBSET Nat, S # {}
    PROVE  \E x \in S : \A y \in S : x <= y
<1>1. \E x \in S : \A y \in S : ~(<<y, x>> \in OpToRel(<, Nat))
    BY NatLessThanWellFounded, WFMin, Zenon
<1>2. \E x \in S : \A y \in S : ~(y < x)
    BY <1>1, Zenon DEF OpToRel
<1> QED  BY <1>2

\* Whatever has a MsgId is a message, and times are numbers.
LEMMA RangeIn ==
    ASSUME order \in Seq(Message)
    PROVE  /\ Range(order) \subseteq Message
           /\ Unassigned \notin Message
           /\ Now \in Nat
           /\ \A m \in Message : StampOf(m) \in Nat
<1>1. Range(order) \subseteq Message /\ DOMAIN order = 1..Len(order) /\ Len(order) \in Nat
    BY DEF Range
<1>2. Unassigned \notin Message
    BY ConversationAssumption DEF ConversationAssumption, Message
<1>3. ASSUME NEW m \in Range(order)
      PROVE  Min({i \in DOMAIN order : order[i] = m}) \in Nat
  <2> DEFINE S == {i \in DOMAIN order : order[i] = m}
  <2>1. S \in SUBSET Nat /\ S # {}
      BY <1>1 DEF Range
  <2> HIDE DEF S
  <2>4. \E x \in S : \A y \in S : x <= y
      BY Zenon, <2>1, LeastExists
  <2>5. Min(S) \in S
      BY <2>4 DEF Min
  <2> QED  BY <2>1, <2>5 DEF S
<1> QED  BY <1>1, <1>2, <1>3 DEF Now, StampOf

(* Filter                                                                  *)

\* Every position has its rank among the positions P, and every rank its position.
LEMMA Ranks ==
    ASSUME NEW n \in Nat, NEW P \in SUBSET (1..n)
    PROVE  /\ IsFiniteSet(P) /\ Cardinality(P) \in Nat
           /\ \A k \in 1..Cardinality(P) : \E i \in P : Cardinality({j \in P : j <= i}) = k
<1> DEFINE Below(i) == {j \in P : j <= i}
           f == [i \in P |-> Cardinality(Below(i))]
           c == Cardinality(P)
<1>1. IsFiniteSet(P)
  <2>1. IsFiniteSet(1..n)
      BY FS_Interval
  <2> QED  BY Zenon, <2>1, FS_Subset
<1>2. c \in Nat
    BY <1>1, FS_CardinalityType
<1>3. ASSUME NEW i \in P
      PROVE  /\ IsFiniteSet(Below(i)) /\ Cardinality(Below(i)) \in Nat
             /\ Cardinality(Below(i)) <= c /\ Cardinality(Below(i)) # 0
  <2>1. Below(i) \in SUBSET P /\ i \in Below(i)
      OBVIOUS
  <2> HIDE DEF Below, c
  <2>2. IsFiniteSet(Below(i)) /\ Cardinality(Below(i)) <= c
      BY <1>1, <2>1, FS_Subset DEF c
  <2> QED  BY <2>1, <2>2, FS_CardinalityType, FS_EmptySet
<1>4. ASSUME NEW i \in P, NEW j \in P, i < j
      PROVE  Cardinality(Below(i)) # Cardinality(Below(j))
  <2>1. Below(i) \in SUBSET Below(j) /\ j \in Below(j) /\ j \notin Below(i)
    <3>1. i \in Nat /\ j \in Nat /\ \A x \in P : x \in Nat
        OBVIOUS
    <3>2. ASSUME NEW x \in P, x <= i PROVE x <= j
        BY <1>4, <3>1, <3>2
    <3>3. j <= j /\ ~(j <= i)
        BY <1>4, <3>1
    <3> QED  BY Zenon, <3>2, <3>3
  <2> HIDE DEF Below
  <2> QED  BY <1>3, <2>1, FS_Subset
<1>5. f \in Injection(P, 1..c)
  <2> HIDE DEF Below, c
  <2>1. f \in [P -> 1..c]
      BY <1>2, <1>3
  <2>2. ASSUME NEW i \in P, NEW j \in P, f[i] = f[j] PROVE i = j
      BY <1>4, <2>2
  <2> QED  BY <2>1, <2>2, Zenon DEF Injection, IsInjective
<1>6. IsFiniteSet(1..c) /\ Cardinality(1..c) = c
    BY <1>2, FS_Interval
<1>7. f \in Surjection(P, 1..c)
  <2> HIDE DEF f, c
  <2>1. Cardinality(P) = Cardinality(1..c)
      BY <1>6 DEF c
  <2> QED  BY <1>5, <1>6, <2>1, FS_Injection
<1>8. \A k \in 1..c : \E i \in P : f[i] = k
    BY <1>7, Zenon DEF Surjection
<1> QED  BY <1>1, <1>2, <1>8

\* a is made of entries of s at different positions of P.
Picked(a, s, P) ==
    \E f \in [1..Len(a) -> P] : /\ \A k \in 1..Len(a) : a[k] = s[f[k]]
                               /\ \A k, l \in 1..Len(a) : k # l => f[k] # f[l]

\* Filter takes every one of the positions once.
LEMMA FilterPicks ==
    ASSUME NEW S, NEW s \in Seq(S), NEW P \in SUBSET (DOMAIN s)
    PROVE  /\ Filter(s, P) \in Seq(S)
           /\ IsFiniteSet(P) /\ Cardinality(P) \in Nat /\ Len(Filter(s, P)) = Cardinality(P)
           /\ DOMAIN Filter(s, P) = 1..Cardinality(P)
           /\ Picked(Filter(s, P), s, P)
<1> DEFINE Nth(k) == CHOOSE i \in P : Cardinality({j \in P : j <= i}) = k
           c == Cardinality(P)
           f == [k \in 1..c |-> Nth(k)]
<1>1. Len(s) \in Nat /\ DOMAIN s = 1..Len(s)
    OBVIOUS
<1>2. IsFiniteSet(P) /\ c \in Nat
      /\ \A k \in 1..c : \E i \in P : Cardinality({j \in P : j <= i}) = k
    BY Zenon, <1>1, Ranks
<1>3. \A k \in 1..c : Nth(k) \in P /\ Cardinality({j \in P : j <= Nth(k)}) = k
    BY Zenon, <1>2
<1> HIDE DEF Nth
<1>4. f \in [1..c -> P] /\ \A k, l \in 1..c : k # l => f[k] # f[l]
    BY Zenon, <1>3
<1>5. Filter(s, P) = [k \in 1..c |-> s[Nth(k)]]
    BY DEF Filter, Nth
<1> HIDE DEF c
<1>6. \A k \in 1..c : Filter(s, P)[k] = s[f[k]] /\ s[Nth(k)] \in S
  <2> SUFFICES ASSUME NEW k \in 1..c PROVE Filter(s, P)[k] = s[f[k]] /\ s[Nth(k)] \in S
      OBVIOUS
  <2>1. f[k] = Nth(k) /\ Nth(k) \in 1..Len(s)
      BY Zenon, <1>1, <1>3
  <2>2. Filter(s, P)[k] = s[Nth(k)]
      BY <1>5
  <2> QED  BY <2>1, <2>2
<1>7. Filter(s, P) \in [1..c -> S]
    BY <1>5, <1>6
<1>8. Filter(s, P) \in Seq(S) /\ Len(Filter(s, P)) = c
    BY <1>2, <1>7
<1>9. DOMAIN Filter(s, P) = 1..c
    BY <1>8
<1> HIDE DEF f
<1>10. Picked(Filter(s, P), s, P)
    BY Zenon, <1>4, <1>6, <1>8 DEF Picked
<1> QED  BY <1>2, <1>8, <1>9, <1>10 DEF c

-----------------------------------------------------------------------------
(* Sequences and what they hold                                            *)

\* What comes out of a queue, and what is left of it.
LEMMA Taken ==
    ASSUME NEW S, NEW s \in Seq(S), s # <<>>
    PROVE  /\ Head(s) \in S /\ Tail(s) \in Seq(S) /\ Head(s) = s[1]
           /\ Len(s) \in Nat /\ Len(s) > 0 /\ Len(Tail(s)) = Len(s) - 1 /\ 1 \in DOMAIN s
           /\ \A i \in DOMAIN Tail(s) : i + 1 \in DOMAIN s /\ Tail(s)[i] = s[i + 1]
OBVIOUS

\* What Append does.
LEMMA Put ==
    ASSUME NEW S, NEW s \in Seq(S), NEW x \in S
    PROVE  /\ Append(s, x) \in Seq(S) /\ Len(Append(s, x)) = Len(s) + 1
           /\ DOMAIN s \subseteq DOMAIN Append(s, x)
           /\ \A i \in DOMAIN s : Append(s, x)[i] = s[i]
           /\ \A i \in DOMAIN Append(s, x) : i \in DOMAIN s \/ i = Len(s) + 1
           /\ Append(s, x)[Len(s) + 1] = x
OBVIOUS

\* What concatenation does.
LEMMA Joined ==
    ASSUME NEW S, NEW s \in Seq(S), NEW r \in Seq(S)
    PROVE  /\ s \o r \in Seq(S) /\ Len(s \o r) = Len(s) + Len(r)
           /\ \A i \in DOMAIN s : (s \o r)[i] = s[i]
           /\ \A i \in DOMAIN (s \o r) :
                 i \in DOMAIN s \/ (i - Len(s) \in DOMAIN r /\ (s \o r)[i] = r[i - Len(s)])
OBVIOUS

\* What SubSeq takes from the front.
LEMMA Cut ==
    ASSUME NEW S, NEW s \in Seq(S), NEW k \in 0..Len(s)
    PROVE  /\ SubSeq(s, 1, k) \in Seq(S) /\ Len(SubSeq(s, 1, k)) = k
           /\ SubSeq(s, k + 1, Len(s)) \in Seq(S)
           /\ \A i \in DOMAIN SubSeq(s, 1, k) : i \in DOMAIN s /\ SubSeq(s, 1, k)[i] = s[i]
OBVIOUS

\* What each of the two has.
LEMMA Each ==
    ASSUME NEW S, NEW f \in [User -> Seq(S)]
    PROVE  /\ "author" \in User /\ "reader" \in User
           /\ f["author"] \in Seq(S) /\ f["reader"] \in Seq(S)
           /\ DOMAIN f["author"] = 1..Len(f["author"]) /\ Len(f["author"]) \in Nat
           /\ DOMAIN f["author"] \subseteq Nat /\ DOMAIN f["reader"] \subseteq Nat
           /\ DOMAIN f["author"] \subseteq Nat \ {0}
           /\ \A i \in DOMAIN f["author"] : f["author"][i] \in S
           /\ \A i \in DOMAIN f["reader"] : f["reader"][i] \in S
BY DEF User

\* More messages with a MsgId, more that can be spoken of.
LEMMA Widens ==
    ASSUME NEW K, NEW L, K \subseteq L
    PROVE  /\ Notices(K) \subseteq Notices(L) /\ Seq(Notices(K)) \subseteq Seq(Notices(L))
           /\ Seq(Requests(K)) \subseteq Seq(Requests(L))
           /\ Tasks(K) \subseteq Tasks(L)
           /\ Seq(Bubbles(K)) \subseteq Seq(Bubbles(L))
<1>1. Notices(K) \subseteq Notices(L)
    BY DEF Notices
<1>2. Requests(K) \subseteq Requests(L)
    BY DEF Requests
<1>3. Bubbles(K) \subseteq Bubbles(L)
    BY DEF Bubbles
<1>4. ASSUME NEW S, NEW T, S \subseteq T PROVE Seq(S) \subseteq Seq(T)
    BY <1>4
<1>5. Tasks(K) \subseteq Tasks(L)
  <2>1. Seq(Notices(K)) \subseteq Seq(Notices(L)) /\ Seq(Copies(K)) \subseteq Seq(Copies(L))
    <3>1. Copies(K) \subseteq Copies(L)
        BY DEF Copies
    <3> QED  BY <1>1, <1>4, <3>1
  <2> QED  BY <2>1 DEF Tasks
<1> QED  BY <1>1, <1>2, <1>3, <1>4, <1>5

-----------------------------------------------------------------------------
(* The functions of ChatView                                               *)

\* A bubble is added.
NewBubble(v, w, b) == w = Append(v, b) /\ (b.id = Unassigned \/ b.id \notin IdsOf(v))

\* addMessage adds at most the one bubble, and only if its id is new.
LEMMA Adds ==
    ASSUME NEW K, NEW v \in Seq(Bubbles(K)), NEW b \in Bubbles(K)
    PROVE  /\ addMessage(v, b) \in Seq(Bubbles(K))
           /\ addMessage(v, b) = v \/ NewBubble(v, addMessage(v, b), b)
BY DEF addMessage, NewBubble

\* The waiting bubbles of v with this seq have got the id.
Confirmed(v, w, seq, id) ==
    /\ DOMAIN w = DOMAIN v
    /\ \A i \in DOMAIN v :
          \/ w[i] = v[i]
          \/ /\ v[i].seq = seq /\ v[i].status = "sending"
             /\ w[i].msg = v[i].msg /\ w[i].seq = seq /\ w[i].id = id /\ w[i].status = "sent"

\* The ACK changes the waiting bubbles with its seq.
LEMMA Confirms ==
    ASSUME NEW K, NEW v \in Seq(Bubbles(K)), NEW seq \in Nat, NEW id \in K, NEW at \in Nat
    PROVE  /\ confirmMessage(v, seq, id, at) \in Seq(Bubbles(K))
           /\ Confirmed(v, confirmMessage(v, seq, id, at), seq, id)
<1> DEFINE G(b) == [b EXCEPT !.id = id, !.at = at, !.status = "sent"]
           w == confirmMessage(v, seq, id, at)
<1>1. w = [i \in DOMAIN v |-> IF v[i].seq = seq /\ v[i].status = "sending" THEN G(v[i]) ELSE v[i]]
    BY DEF confirmMessage, MapBubbles
<1>2. ASSUME NEW b \in Bubbles(K)
      PROVE  /\ G(b) \in Bubbles(K) /\ G(b).msg = b.msg /\ G(b).seq = b.seq
             /\ G(b).id = id /\ G(b).status = "sent"
    BY Zenon DEF Bubbles
<1> HIDE DEF G, w
<1>3. \A i \in DOMAIN v : v[i] \in Bubbles(K)
    OBVIOUS
<1>4. w \in [DOMAIN v -> Bubbles(K)]
    BY <1>1, <1>2, <1>3
<1>5. w \in Seq(Bubbles(K)) /\ Len(w) = Len(v) /\ DOMAIN w = DOMAIN v
    BY <1>4
<1>6. Confirmed(v, w, seq, id)
    BY <1>1, <1>2, <1>3, <1>5 DEF Confirmed
<1> QED  BY <1>5, <1>6 DEF w

\* The same bubbles, but for how they look.
SameBubbles(v, w) ==
    /\ DOMAIN w = DOMAIN v
    /\ \A i \in DOMAIN v : /\ w[i].msg = v[i].msg /\ w[i].id = v[i].id /\ w[i].seq = v[i].seq
                           /\ (w[i].status = "sending") <=> (v[i].status = "sending")

\* w is made of bubbles of v, each taken once.
Shuffled(v, w) ==
    \E f \in [DOMAIN w -> DOMAIN v] : /\ \A i \in DOMAIN w : w[i] = v[f[i]]
                                     /\ \A i, j \in DOMAIN w : i # j => f[i] # f[j]

\* The other changes leave a bubble its id and seq, and do not make it wait or
\* stop waiting.
LEMMA Marks ==
    ASSUME NEW K, NEW v \in Seq(Bubbles(K)), NEW w,
           \/ \E id : w = markRecalled(v, id) \/ w = applyEdit(v, id)
           \/ w = markMessagesRead(v)
    PROVE  w \in Seq(Bubbles(K)) /\ SameBubbles(v, w)
<1>1. \A i \in DOMAIN v : v[i] \in Bubbles(K)
    OBVIOUS
<1>2. ASSUME w \in [DOMAIN v -> Bubbles(K)]
      PROVE  w \in Seq(Bubbles(K)) /\ Len(w) = Len(v) /\ DOMAIN w = DOMAIN v
    BY <1>2
<1> DEFINE Same(b, c) == /\ c \in Bubbles(K) /\ c.msg = b.msg /\ c.id = b.id /\ c.seq = b.seq
                         /\ c.status = "sending" <=> b.status = "sending"
<1>3. \A b \in Bubbles(K) : /\ Same(b, b)
                            /\ Same(b, [b EXCEPT !.recalled = "yes"])
                            /\ Same(b, [b EXCEPT !.text = "edited"])
                            /\ b.status = "sent" => Same(b, [b EXCEPT !.status = "read"])
  <2> SUFFICES ASSUME NEW b \in Bubbles(K)
               PROVE  /\ Same(b, b)
                      /\ Same(b, [b EXCEPT !.recalled = "yes"])
                      /\ Same(b, [b EXCEPT !.text = "edited"])
                      /\ b.status = "sent" => Same(b, [b EXCEPT !.status = "read"])
      BY Zenon
  <2>1. Same(b, [b EXCEPT !.recalled = "yes"])
      BY DEF Bubbles
  <2>2. Same(b, [b EXCEPT !.text = "edited"])
      BY DEF Bubbles, Texts
  <2>3. b.status = "sent" => Same(b, [b EXCEPT !.status = "read"])
      BY DEF Bubbles
  <2> QED  BY <2>1, <2>2, <2>3
<1> HIDE DEF Same
<1>4. ASSUME NEW id, w = markRecalled(v, id) \/ w = applyEdit(v, id)
      PROVE  DOMAIN w = DOMAIN v /\ w = [i \in DOMAIN v |-> w[i]] /\ \A i \in DOMAIN v : Same(v[i], w[i])
    BY Zenon, <1>1, <1>3, <1>4 DEF markRecalled, applyEdit, MapBubbles
<1>5. ASSUME w = markMessagesRead(v)
      PROVE  DOMAIN w = DOMAIN v /\ w = [i \in DOMAIN v |-> w[i]] /\ \A i \in DOMAIN v : Same(v[i], w[i])
    BY Zenon, <1>1, <1>3, <1>5 DEF markMessagesRead, MapBubbles
<1>6. DOMAIN w = DOMAIN v /\ w = [i \in DOMAIN v |-> w[i]] /\ \A i \in DOMAIN v : Same(v[i], w[i])
    BY Zenon, <1>4, <1>5
<1>7. w \in [DOMAIN v -> Bubbles(K)]
    BY <1>6 DEF Same
<1> QED  BY <1>2, <1>6, <1>7 DEF Same, SameBubbles

\* newMessages.reverse(): every entry, from the other end.
LEMMA Reversed ==
    ASSUME NEW S, NEW a \in Seq(S), NEW r, r = Reverse(a)
    PROVE  /\ r \in Seq(S) /\ Len(r) = Len(a) /\ DOMAIN r = 1..Len(a)
           /\ \A i \in 1..Len(a) : (Len(a) - i) + 1 \in 1..Len(a) /\ r[i] = a[(Len(a) - i) + 1]
<1>1. Len(a) \in Nat /\ \A i \in 1..Len(a) : (Len(a) - i) + 1 \in 1..Len(a)
    OBVIOUS
<1>2. \A i \in 1..Len(a) : a[(Len(a) - i) + 1] \in S
    BY <1>1
<1>3. r = [i \in DOMAIN a |-> a[Len(a) + 1 - i]]
    BY Zenon DEF Reverse
<1>4. r \in [1..Len(a) -> S]
    BY <1>2, <1>3
<1>5. r \in Seq(S) /\ Len(r) = Len(a) /\ DOMAIN r = 1..Len(a)
    BY <1>1, <1>4
<1> QED  BY <1>1, <1>3, <1>5

\* The history callback reorders the page.
LEMMA Rebuilds ==
    ASSUME NEW K, NEW v \in Seq(Bubbles(K)), NEW existing
    PROVE  rebuild(v, existing) \in Seq(Bubbles(K)) /\ Shuffled(v, rebuild(v, existing))
<1> DEFINE B == Bubbles(K)
           P == {i \in DOMAIN v : v[i].id \notin existing}
           Q == DOMAIN v \ P
           a == Filter(v, P)
           r == Reverse(a)
           b == Filter(v, Q)
           w == r \o b
<1>1. w = rebuild(v, existing)
    BY DEF rebuild
<1>2. P \in SUBSET (DOMAIN v) /\ Q \in SUBSET (DOMAIN v) /\ P \cap Q = {}
    OBVIOUS
<1> HIDE DEF P, Q
<1>3. /\ a \in Seq(B) /\ b \in Seq(B) /\ Len(a) \in Nat /\ Len(b) \in Nat
      /\ DOMAIN a = 1..Len(a) /\ DOMAIN b = 1..Len(b)
    BY <1>2, FilterPicks
<1>4. PICK g \in [1..Len(a) -> P] : /\ \A k \in 1..Len(a) : a[k] = v[g[k]]
                                    /\ \A k, l \in 1..Len(a) : k # l => g[k] # g[l]
  <2>1. Picked(a, v, P)
      BY <1>2, FilterPicks
  <2> QED  BY Zenon, <2>1 DEF Picked
<1>5. PICK h \in [1..Len(b) -> Q] : /\ \A k \in 1..Len(b) : b[k] = v[h[k]]
                                    /\ \A k, l \in 1..Len(b) : k # l => h[k] # h[l]
  <2>1. Picked(b, v, Q)
      BY <1>2, FilterPicks
  <2> QED  BY Zenon, <2>1 DEF Picked
<1> HIDE DEF a, b
<1>6. /\ r \in Seq(B) /\ Len(r) = Len(a)
      /\ \A i \in 1..Len(a) : (Len(a) - i) + 1 \in 1..Len(a) /\ r[i] = a[(Len(a) - i) + 1]
    BY Zenon, <1>3, Reversed
<1> HIDE DEF r
<1>7. /\ w \in Seq(B) /\ Len(w) = Len(a) + Len(b) /\ DOMAIN w = 1..(Len(a) + Len(b))
      /\ \A i \in 1..Len(a) : w[i] = r[i]
      /\ \A i \in DOMAIN w : i \in 1..Len(a) \/ (i - Len(a) \in 1..Len(b) /\ w[i] = b[i - Len(a)])
  <2>1. DOMAIN r = 1..Len(a)
      BY <1>3, <1>6
  <2> HIDE DEF B
  <2>2. w \in Seq(B) /\ Len(w) = Len(a) + Len(b)
    <3>1. r \in Seq(B) /\ b \in Seq(B) /\ Len(r) = Len(a)
        BY Zenon, <1>3, <1>6
    <3>2. r \o b \in Seq(B) /\ Len(r \o b) = Len(r) + Len(b)
        BY Zenon, <3>1, Joined
    <3> QED  BY Zenon, <3>1, <3>2
  <2>3. DOMAIN w = 1..(Len(a) + Len(b))
      BY <2>2
  <2>4. \A i \in 1..Len(a) : w[i] = r[i]
      BY <1>3, <1>6, <2>1, Joined
  <2>5. \A i \in DOMAIN w : i \in 1..Len(a) \/ (i - Len(a) \in 1..Len(b) /\ w[i] = b[i - Len(a)])
      BY <1>3, <1>6, <2>1, Joined
  <2> QED  BY <2>2, <2>3, <2>4, <2>5
<1> HIDE DEF w
<1> DEFINE f == [i \in DOMAIN w |-> IF i <= Len(a) THEN g[(Len(a) - i) + 1] ELSE h[i - Len(a)]]
<1>8. ASSUME NEW i \in DOMAIN w
      PROVE  \/ i <= Len(a) /\ f[i] = g[(Len(a) - i) + 1] /\ (Len(a) - i) + 1 \in 1..Len(a)
             \/ ~(i <= Len(a)) /\ f[i] = h[i - Len(a)] /\ i - Len(a) \in 1..Len(b)
    BY <1>3, <1>7
<1>9. ASSUME NEW i \in DOMAIN w
      PROVE  f[i] \in DOMAIN v /\ w[i] = v[f[i]] /\ (i <= Len(a) => f[i] \in P) /\ (~(i <= Len(a)) => f[i] \in Q)
  <2>1. CASE i <= Len(a)
    <3>1. i \in 1..Len(a) /\ f[i] = g[(Len(a) - i) + 1] /\ (Len(a) - i) + 1 \in 1..Len(a)
        BY <1>3, <1>7, <1>8, <2>1
    <3> QED  BY <1>2, <1>4, <1>6, <1>7, <2>1, <3>1
  <2>2. CASE ~(i <= Len(a))
    <3>1. f[i] = h[i - Len(a)] /\ i - Len(a) \in 1..Len(b) /\ w[i] = b[i - Len(a)]
        BY <1>3, <1>7, <1>8, <2>2
    <3> QED  BY <1>2, <1>5, <2>2, <3>1
  <2> QED  BY <2>1, <2>2
<1>10. ASSUME NEW i \in DOMAIN w, NEW j \in DOMAIN w, i # j PROVE f[i] # f[j]
  <2>1. CASE i <= Len(a) /\ j <= Len(a)
    <3>1. (Len(a) - i) + 1 # (Len(a) - j) + 1
        BY <1>3, <1>7, <1>10
    <3> QED  BY <1>4, <1>8, <2>1, <3>1
  <2>2. CASE ~(i <= Len(a)) /\ ~(j <= Len(a))
    <3>1. i - Len(a) # j - Len(a)
        BY <1>3, <1>7, <1>10
    <3> QED  BY <1>5, <1>8, <2>2, <3>1
  <2>3. CASE i <= Len(a) /\ ~(j <= Len(a))
      BY Zenon, <1>2, <1>9, <2>3
  <2>4. CASE ~(i <= Len(a)) /\ j <= Len(a)
      BY Zenon, <1>2, <1>9, <2>4
  <2> QED  BY Zenon, <2>1, <2>2, <2>3, <2>4
<1>11. f \in [DOMAIN w -> DOMAIN v]
  <2> DEFINE F(i) == IF i <= Len(a) THEN g[(Len(a) - i) + 1] ELSE h[i - Len(a)]
  <2>1. \A i \in DOMAIN w : f[i] = F(i) /\ F(i) \in DOMAIN v
      BY <1>9
  <2> HIDE DEF F
  <2> QED  BY <2>1 DEF F
<1> HIDE DEF f
<1>12. Shuffled(v, w)
    BY Zenon, <1>9, <1>10, <1>11 DEF Shuffled
<1> QED  BY Zenon, <1>1, <1>7, <1>12

-----------------------------------------------------------------------------
(* What is sent                                                            *)

\* Every send request of t was one of s, in the same order.
SendsKept(s, t) ==
    \E d \in {0, 1} : \A i \in DOMAIN t :
        t[i].op = "send" => i + d \in DOMAIN s /\ t[i] = s[i + d]

\* Up to its last ACK t is a part of s.
AcksKept(s, t) ==
    \E d \in {0, 1} : \A i \in DOMAIN t :
        t[i].cmd = "ack" => \A j \in 1..i : j + d \in DOMAIN s /\ t[j] = s[j + d]

\* Taking the first request, or adding another kind, keeps the sends.
LEMMA SendsMoves ==
    ASSUME NEW K, NEW s \in Seq(Requests(K))
    PROVE  /\ SendsKept(s, s) /\ SendsKept(s, <<>>)
           /\ s # <<>> => SendsKept(s, Tail(s))
           /\ \A r \in Requests(K) : r.op # "send" => SendsKept(s, Append(s, r))
<1>1. SendsKept(s, s) /\ SendsKept(s, <<>>)
    BY DEF SendsKept
<1>2. ASSUME s # <<>> PROVE SendsKept(s, Tail(s))
  <2>1. \A i \in DOMAIN Tail(s) : i + 1 \in DOMAIN s /\ Tail(s)[i] = s[i + 1]
      BY <1>2, Taken
  <2> QED  BY <2>1 DEF SendsKept
<1>3. ASSUME NEW r \in Requests(K), r.op # "send" PROVE SendsKept(s, Append(s, r))
  <2>1. \A i \in DOMAIN Append(s, r) : Append(s, r)[i].op = "send" =>
            i + 0 \in DOMAIN s /\ Append(s, r)[i] = s[i + 0]
      BY <1>3
  <2> QED  BY <2>1 DEF SendsKept
<1> QED  BY <1>1, <1>2, <1>3

\* Taking the first notice, or adding another kind, keeps the ACKs.
LEMMA AcksMoves ==
    ASSUME NEW K, NEW s \in Seq(Notices(K))
    PROVE  /\ AcksKept(s, s) /\ AcksKept(s, <<>>)
           /\ s # <<>> => AcksKept(s, Tail(s))
           /\ \A n \in Notices(K) : n.cmd # "ack" => AcksKept(s, Append(s, n))
           /\ \A r \in Seq(Notices(K)) :
                 (\A i \in DOMAIN r : r[i].cmd # "ack") => AcksKept(s, s \o r)
<1>0. DOMAIN s = 1..Len(s) /\ Len(s) \in Nat
    OBVIOUS
<1>1. AcksKept(s, s) /\ AcksKept(s, <<>>)
    BY <1>0 DEF AcksKept
<1>2. ASSUME s # <<>> PROVE AcksKept(s, Tail(s))
  <2>1. \A i \in DOMAIN Tail(s) : \A j \in 1..i : j \in DOMAIN Tail(s)
      BY <1>2
  <2>2. \A i \in DOMAIN Tail(s) : i + 1 \in DOMAIN s /\ Tail(s)[i] = s[i + 1]
      BY <1>2, Taken
  <2> QED  BY <2>1, <2>2 DEF AcksKept
<1>3. ASSUME NEW r \in Seq(Notices(K)), \A i \in DOMAIN r : r[i].cmd # "ack"
      PROVE  AcksKept(s, s \o r)
  <2>1. ASSUME NEW i \in DOMAIN (s \o r), (s \o r)[i].cmd = "ack", NEW j \in 1..i
        PROVE  j + 0 \in DOMAIN s /\ (s \o r)[j] = s[j + 0]
    <3>1. i \in DOMAIN s
        BY <1>3, <2>1, Joined
    <3>2. j \in DOMAIN s /\ j + 0 = j
        BY <1>0, <3>1
    <3> QED  BY <3>2, Joined
  <2> QED  BY <2>1 DEF AcksKept
<1>4. ASSUME NEW n \in Notices(K), n.cmd # "ack" PROVE AcksKept(s, Append(s, n))
  <2>1. ASSUME NEW i \in DOMAIN Append(s, n), Append(s, n)[i].cmd = "ack", NEW j \in 1..i
        PROVE  j + 0 \in DOMAIN s /\ Append(s, n)[j] = s[j + 0]
    <3>1. i \in DOMAIN s
        BY <1>4, <2>1, Put
    <3>2. j \in DOMAIN s /\ j + 0 = j
        BY <1>0, <3>1
    <3> QED  BY <3>2, Put
  <2> QED  BY <2>1 DEF AcksKept
<1> QED  BY <1>1, <1>2, <1>3, <1>4

\* WSManager.send.
LEMMA AskEffect ==
    ASSUME Known, NEW u \in User, NEW r \in Requests(Range(order)), Ask(u, r)
    PROVE  /\ inbox' \in [User -> Seq(Requests(Range(order)))]
           /\ u # "author" => inbox'["author"] = inbox["author"]
           /\ inbox'["author"] = inbox["author"] \/ inbox'["author"] = Append(inbox["author"], r)
           /\ r.op # "send" => SendsKept(inbox["author"], inbox'["author"])
<1>1. inbox \in [User -> Seq(Requests(Range(order)))] /\ "author" \in User
    BY DEF Known, Typed, User
<1>2. /\ inbox' \in [User -> Seq(Requests(Range(order)))]
      /\ u # "author" => inbox'["author"] = inbox["author"]
      /\ inbox'["author"] = inbox["author"] \/ inbox'["author"] = Append(inbox["author"], r)
    BY <1>1 DEF Ask
<1>3. inbox["author"] \in Seq(Requests(Range(order)))
    BY <1>1
<1> QED  BY Zenon, <1>2, <1>3, SendsMoves

\* Client.Send.
LEMMA PushEffect ==
    ASSUME Known, NEW u \in User, NEW n \in Notices(Range(order)), TrySend(u, n)
    PROVE  /\ push' \in [User -> Seq(Notices(Range(order)))]
           /\ u # "author" => push'["author"] = push["author"]
           /\ push'["author"] = push["author"] \/ push'["author"] = Append(push["author"], n)
           /\ n.cmd # "ack" => AcksKept(push["author"], push'["author"])
<1>1. push \in [User -> Seq(Notices(Range(order)))] /\ "author" \in User
    BY DEF Known, Typed, User
<1>2. /\ push' \in [User -> Seq(Notices(Range(order)))]
      /\ u # "author" => push'["author"] = push["author"]
      /\ push'["author"] = push["author"] \/ push'["author"] = Append(push["author"], n)
    BY <1>1 DEF TrySend
<1>3. push["author"] \in Seq(Notices(Range(order)))
    BY <1>1
<1> QED  BY Zenon, <1>2, <1>3, AcksMoves

\* Delivery to the reader does not touch the author's connection.
LEMMA DeliverEffect ==
    ASSUME NEW K, push \in [User -> Seq(Notices(K))], offq \in Seq(Notices(K)),
           NEW n \in Notices(K), Deliver(n)
    PROVE  /\ push' \in [User -> Seq(Notices(K))] /\ offq' \in Seq(Notices(K))
           /\ push'["author"] = push["author"]
<1>1. "author" \in User /\ "reader" \in User /\ push["reader"] \in Seq(Notices(K))
    BY DEF User
<1>2. Append(push["reader"], n) \in Seq(Notices(K)) /\ Append(offq, n) \in Seq(Notices(K))
    BY <1>1, Put
<1> QED  BY Zenon, <1>1, <1>2 DEF Deliver, TrySend

\* The read loop takes a request.
LEMMA TakeEffect ==
    ASSUME Known, NEW u \in User, NEW ops, Takes(u, ops)
    PROVE  /\ inbox' \in [User -> Seq(Requests(Range(order)))]
           /\ Head(inbox[u]) \in Requests(Range(order)) /\ Head(inbox[u]).op \in ops
           /\ Head(inbox[u]) = inbox[u][1] /\ 1 \in DOMAIN inbox[u] /\ inbox[u] # <<>>
           /\ inbox'["author"] = inbox["author"] \/ (u = "author" /\ inbox'["author"] = Tail(inbox["author"]))
           /\ SendsKept(inbox["author"], inbox'["author"])
           /\ UNCHANGED <<up, kind, view, load, more, seqno, asked, follows>>
<1>1. inbox \in [User -> Seq(Requests(Range(order)))] /\ "author" \in User
    BY DEF Known, Typed, User
<1>2. inbox[u] \in Seq(Requests(Range(order))) /\ inbox["author"] \in Seq(Requests(Range(order)))
    BY <1>1
<1>3. inbox[u] # <<>> /\ Head(inbox[u]).op \in ops /\ inbox' = [inbox EXCEPT ![u] = Tail(@)]
    BY Zenon DEF Takes
<1>4. /\ Head(inbox[u]) \in Requests(Range(order)) /\ Tail(inbox[u]) \in Seq(Requests(Range(order)))
      /\ Head(inbox[u]) = inbox[u][1] /\ 1 \in DOMAIN inbox[u]
    BY <1>2, <1>3, Taken
<1>5. inbox' \in [User -> Seq(Requests(Range(order)))]
    BY <1>1, <1>3, <1>4
<1>6. inbox'["author"] = inbox["author"] \/ (u = "author" /\ inbox'["author"] = Tail(inbox["author"]))
  <2>1. CASE u = "author"
      BY <1>1, <1>3, <2>1
  <2>2. CASE u # "author"
      BY <1>1, <1>3, <2>2
  <2> QED  BY <2>1, <2>2
<1>7. SendsKept(inbox["author"], inbox'["author"])
    BY Zenon, <1>2, <1>3, <1>6, SendsMoves
<1>8. UNCHANGED <<up, kind, view, load, more, seqno, asked, follows>>
    BY Zenon DEF Takes, clients
<1> QED  BY Zenon, <1>3, <1>4, <1>5, <1>6, <1>7, <1>8

\* The page takes a notice.
LEMMA ReceiveEffect ==
    ASSUME Known, NEW u \in User, NEW cmds, Receives(u, cmds)
    PROVE  /\ push' \in [User -> Seq(Notices(Range(order)))]
           /\ Head(push[u]) \in Notices(Range(order)) /\ Head(push[u]).cmd \in cmds
           /\ Head(push[u]) = push[u][1] /\ 1 \in DOMAIN push[u] /\ push[u] # <<>>
           /\ IF u = "author" THEN push'["author"] = Tail(push["author"]) ELSE push'["author"] = push["author"]
           /\ AcksKept(push["author"], push'["author"])
           /\ UNCHANGED <<up, task, order, dedup, offq, unread, row, seqno, asked, kind, follows, events>>
<1>1. push \in [User -> Seq(Notices(Range(order)))] /\ "author" \in User
    BY DEF Known, Typed, User
<1>2. push[u] \in Seq(Notices(Range(order))) /\ push["author"] \in Seq(Notices(Range(order)))
    BY <1>1
<1>3. push[u] # <<>> /\ Head(push[u]).cmd \in cmds /\ push' = [push EXCEPT ![u] = Tail(@)]
    BY Zenon DEF Receives
<1>4. /\ Head(push[u]) \in Notices(Range(order)) /\ Tail(push[u]) \in Seq(Notices(Range(order)))
      /\ Head(push[u]) = push[u][1] /\ 1 \in DOMAIN push[u]
    BY <1>2, <1>3, Taken
<1>5. push' \in [User -> Seq(Notices(Range(order)))]
    BY <1>1, <1>3, <1>4
<1>6. IF u = "author" THEN push'["author"] = Tail(push["author"]) ELSE push'["author"] = push["author"]
  <2>1. CASE u = "author"
      BY <1>1, <1>3, <2>1
  <2>2. CASE u # "author"
      BY <1>1, <1>3, <2>2
  <2> QED  BY <2>1, <2>2
<1>7. AcksKept(push["author"], push'["author"])
    BY Zenon, <1>2, <1>3, <1>6, AcksMoves
<1>8. UNCHANGED <<up, task, order, dedup, offq, unread, row, seqno, asked, kind, follows, events>>
    BY Zenon DEF Receives, gateway
<1> QED  BY Zenon, <1>3, <1>4, <1>5, <1>6, <1>7, <1>8

-----------------------------------------------------------------------------
(* The invariant                                                           *)

\* The handlers between delivery and Increment, and their messages.
Finishing == {t \in task : t.op = "finish"}
Pending == {t.msg : t \in Finishing}

\* Every message is sent once and gets one MsgId; its row is written after its
\* handler has finished.
Once ==
    /\ \E k \in 0..Written : Sent = 1..k
    /\ Range(order) \subseteq Sent
    /\ \A i \in DOMAIN inbox["author"] :
          inbox["author"][i].op = "send" => inbox["author"][i].msg \in Sent \ Range(order)
    /\ \A i, j \in DOMAIN inbox["author"] :
          (i # j /\ inbox["author"][i].op = "send" /\ inbox["author"][j].op = "send") =>
          inbox["author"][i].msg # inbox["author"][j].msg
    /\ \A t, s \in Finishing : t.msg = s.msg => t = s
    /\ \A t \in Finishing : row[t.msg].state = "none"
    /\ \A m \in Message : row[m].state # "none" => m \in Range(order)

\* The messages the count may have counted.
Counted ==
    {m \in Range(order) : m \notin Pending
                          /\ (<<"read", m>> \notin log \/ <<"uncounted", m>> \in log)}

\* The count is at most the number of those messages, and whoever reads a message
\* before its Increment is noted.
Counts ==
    /\ unread <= Cardinality(Counted)
    /\ \A m \in Message : <<"read", m>> \in log => m \in Range(order)
    /\ \A m \in Pending : <<"read", m>> \in log => <<"uncounted", m>> \in log

\* What SentIsPlaced says of a message.
Placed(m) == m \in Range(order) \/ <<"reused", m>> \in log

\* A bubble waits for the ACK of the message it shows: what is under way with its
\* seq is about this message.
WaitsFor(b) ==
    /\ \A i \in DOMAIN inbox["author"] : LET r == inbox["author"][i] IN
          r.op = "send" /\ r.seq = b.seq => r.msg = b.msg
    /\ \A t \in Finishing : t.live = "yes" /\ t.seq = b.seq => t.msg = b.msg
    /\ \A i \in DOMAIN push["author"] : LET n == push["author"][i] IN
          n.cmd = "ack" /\ n.seq = b.seq => Placed(b.msg)

\* No two bubbles wait with the same seq.
Apart(v) ==
    \A i, j \in DOMAIN v : (i # j /\ v[i].status = "sending" /\ v[j].status = "sending") =>
                         v[i].seq # v[j].seq

\* The author's page and what is under way agree on the seq, which never exceeds
\* the counter of the page.
Matched ==
    /\ \A i \in DOMAIN view["author"] : LET b == view["author"][i] IN
          /\ b.seq <= seqno
          /\ b.status # "sending" => Placed(b.msg)
          /\ b.status = "sending" => WaitsFor(b)
    /\ Apart(view["author"])
    /\ \A i \in DOMAIN inbox["author"] : inbox["author"][i].op = "send" => inbox["author"][i].seq <= seqno
    /\ \A t \in Finishing : t.live = "yes" => t.seq <= seqno
    /\ \A i \in DOMAIN push["author"] : push["author"][i].cmd = "ack" => push["author"][i].seq <= seqno

\* No id stands twice in a view.
Distinct(v) ==
    \A i, j \in DOMAIN v : (i # j /\ v[i].id = v[j].id) => v[i].id = Unassigned

\* No page loaded anew has used a seq again.
NoneReused == \A m \in Message : <<"reused", m>> \notin log

\* The handler of m has finished, so that its ACK is on its way or gone.
Over(m) == m = Unassigned \/ row[m].state # "none"

\* The author's page: the ids of the ACKs under way are new to it, and come before
\* any other copy.
AcksAreNew ==
    /\ Distinct(view["author"])
    /\ \A i \in DOMAIN view["author"] : Over(view["author"][i].id)
    /\ \A i \in DOMAIN push["author"] : Over(push["author"][i].id)
    /\ \A t \in task : t.op = "queried" => \A i \in DOMAIN t.list : Over(t.list[i].id)
    /\ \A i \in DOMAIN push["author"] : push["author"][i].cmd = "ack" =>
          /\ \A j \in DOMAIN view["author"] : view["author"][j].id # push["author"][i].id
          /\ \A j \in 1..(i - 1) : push["author"][j].id # push["author"][i].id

\* What ShownOnce needs of the two pages.
ShownInv == Distinct(view["reader"]) /\ (NoneReused => AcksAreNew)

\* The inductive invariant.
ConversationInv == Known /\ Once /\ Counts /\ Matched /\ ShownInv

-----------------------------------------------------------------------------
(* What a step that does not concern it leaves of the invariant            *)

\* Handlers may lose their connection.
FinishKept ==
    /\ Pending' = Pending
    /\ \A t \in Finishing' : \E s \in Finishing :
          s.msg = t.msg /\ s.seq = t.seq /\ (t.live = "yes" => s.live = "yes")
    /\ \A t, s \in Finishing' : t.msg = s.msg => t = s

\* The messages of handlers that finish have a MsgId.
LEMMA FinishingTypes ==
    ASSUME Known
    PROVE  /\ Finishing \subseteq Tasks(Range(order))
           /\ \A t \in Finishing : /\ t.by = "author" /\ t.msg \in Range(order) /\ t.msg \in Message
                                   /\ t.seq \in Nat /\ t.live \in {"yes", "no"}
<1>1. Finishing \subseteq Tasks(Range(order)) /\ Range(order) \subseteq Message
    BY RangeIn DEF Finishing, Known, Typed
<1>2. \A t \in Tasks(Range(order)) : t.op = "finish" =>
          t.by = "author" /\ t.msg \in Range(order) /\ t.seq \in Nat /\ t.live \in {"yes", "no"}
    BY DEF Tasks
<1> QED  BY <1>1, <1>2 DEF Finishing

\* Handlers that go on as they are.
LEMMA SameFinishing ==
    ASSUME Known, Once, Finishing' = Finishing
    PROVE  FinishKept
<1>1. Pending' = Pending
    BY Zenon DEF Pending
<1> QED  BY Zenon, <1>1 DEF FinishKept, Once

\* A step that sends, places and saves no message.
OnceKept ==
    /\ UNCHANGED order /\ Sent' = Sent
    /\ \A m \in Message : (row'[m].state = "none") <=> (row[m].state = "none")
    /\ SendsKept(inbox["author"], inbox'["author"])
    /\ FinishKept

\* The frame of Once.
LEMMA OnceStays ==
    ASSUME Known, Known', Once, OnceKept
    PROVE  Once'
<1>0. PICK s, r, R : s = inbox["author"] /\ r = inbox'["author"] /\ R = Range(order)
    BY Zenon
<1>1. PICK d \in {0, 1} : \A i \in DOMAIN r : r[i].op = "send" => i + d \in DOMAIN s /\ r[i] = s[i + d]
    BY <1>0, Zenon DEF OnceKept, SendsKept
<1>2. Range(order') = R /\ Sent' = Sent /\ \E k \in 0..Written : Sent = 1..k
    BY <1>0, Zenon DEF OnceKept, Once
<1>3. s \in Seq(Requests(R)) /\ DOMAIN s \subseteq Nat
  <2>1. inbox \in [User -> Seq(Requests(R))]
      BY <1>0, Zenon DEF Known, Typed
  <2> QED  BY <1>0, <2>1, Each, Zenon
<1>4. \A i \in DOMAIN s : s[i].op = "send" => s[i].msg \in Sent \ R
    BY <1>0, Zenon DEF Once
<1>5. \A i, j \in DOMAIN s : (i # j /\ s[i].op = "send" /\ s[j].op = "send") => s[i].msg # s[j].msg
    BY <1>0, Zenon DEF Once
<1>6. \A i \in DOMAIN r : r[i].op = "send" => r[i].msg \in Sent \ R
    BY <1>1, <1>4
<1>7. DOMAIN r \subseteq Nat
  <2>1. inbox' \in [User -> Seq(Requests(Range(order')))]
      BY Zenon DEF Known, Typed
  <2> QED  BY <1>0, <2>1, Each, Zenon
<1>8. ASSUME NEW i \in DOMAIN r, NEW j \in DOMAIN r, i # j, r[i].op = "send", r[j].op = "send"
      PROVE  r[i].msg # r[j].msg
  <2>1. i + d # j + d
      BY <1>7, <1>8
  <2> QED  BY <1>1, <1>5, <1>8, <2>1
<1>9. \A t \in Finishing' : row'[t.msg].state = "none"
  <2>1. \A t \in Finishing : t.msg \in Message /\ row[t.msg].state = "none"
      BY FinishingTypes DEF Once
  <2> SUFFICES ASSUME NEW t \in Finishing' PROVE row'[t.msg].state = "none"
      OBVIOUS
  <2>2. PICK f \in Finishing : f.msg = t.msg
      BY Zenon DEF OnceKept, FinishKept
  <2> QED  BY <2>1, <2>2 DEF OnceKept
<1>10. \A m \in Message : row'[m].state # "none" => m \in R
    BY <1>0 DEF Once, OnceKept
<1>11. \A t, f \in Finishing' : t.msg = f.msg => t = f
    BY Zenon DEF OnceKept, FinishKept
<1>12. R \subseteq Sent
    BY <1>0 DEF Once
<1> QED
  <2>1. (\E k \in 0..Written : Sent = 1..k)' /\ (Range(order) \subseteq Sent)'
      BY <1>2, <1>12
  <2>2. (\A m \in Message : row[m].state # "none" => m \in Range(order))'
      BY <1>2, <1>10
  <2>3. /\ \A i \in DOMAIN inbox'["author"] :
              inbox'["author"][i].op = "send" => inbox'["author"][i].msg \in Sent' \ Range(order')
        /\ \A i, j \in DOMAIN inbox'["author"] :
              (i # j /\ inbox'["author"][i].op = "send" /\ inbox'["author"][j].op = "send") =>
              inbox'["author"][i].msg # inbox'["author"][j].msg
      BY Zenon, <1>0, <1>2, <1>6, <1>8
  <2> QED  BY Zenon, <1>9, <1>11, <2>1, <2>2, <2>3 DEF Once

\* A step that counts and reads no message.
CountsKept ==
    /\ UNCHANGED <<order, unread>> /\ Pending' = Pending
    /\ \A m \in Message : \A why \in {"read", "uncounted"} : (<<why, m>> \in log') <=> (<<why, m>> \in log)

\* The frame of Counts.
LEMMA CountsStay ==
    ASSUME Known, Counts, CountsKept
    PROVE  Counts'
<1>1. /\ order' = order /\ unread' = unread /\ Pending' = Pending
      /\ Range(order') = Range(order) /\ Range(order) \subseteq Message
    BY RangeIn DEF CountsKept, Known, Typed
<1>2. \A m \in Message : /\ (<<"read", m>> \in log') <=> (<<"read", m>> \in log)
                         /\ (<<"uncounted", m>> \in log') <=> (<<"uncounted", m>> \in log)
    BY Zenon DEF CountsKept
<1>3. Counted' = Counted
    BY <1>1, <1>2 DEF Counted
<1>4. \A m \in Pending : m \in Message
    BY FinishingTypes DEF Pending
<1> QED  BY Zenon, <1>1, <1>2, <1>3, <1>4 DEF Counts

\* A bubble shows m and waits for the ACK of q; m was sent with q and is under way;
\* an ACK of q is.
Waiting(m, q) ==
    \E i \in DOMAIN view["author"] : /\ view["author"][i].status = "sending"
                                    /\ view["author"][i].msg = m /\ view["author"][i].seq = q
\* A request or a handler of message m carries the seq q.
UnderWay(m, q) ==
    \/ \E i \in DOMAIN inbox["author"] : /\ inbox["author"][i].op = "send"
                                        /\ inbox["author"][i].msg = m /\ inbox["author"][i].seq = q
    \/ \E t \in Finishing : t.live = "yes" /\ t.msg = m /\ t.seq = q
\* An ACK for the seq q is under way.
AckComes(q) == \E i \in DOMAIN push["author"] : push["author"][i].cmd = "ack" /\ push["author"][i].seq = q

\* What Matched says, in these words.
LEMMA MatchedSays ==
    ASSUME Matched
    PROVE  /\ \A m, k, q : Waiting(m, q) /\ UnderWay(k, q) => k = m
           /\ \A m, q : Waiting(m, q) /\ AckComes(q) => Placed(m)
           /\ \A m, q : Waiting(m, q) => q <= seqno
           /\ \A m, q : UnderWay(m, q) => q <= seqno
           /\ \A q : AckComes(q) => q <= seqno
<1>1. ASSUME NEW m, NEW q, Waiting(m, q)
      PROVE  q <= seqno /\ (\A k : UnderWay(k, q) => k = m) /\ (AckComes(q) => Placed(m))
  <2>1. PICK i \in DOMAIN view["author"] : /\ view["author"][i].status = "sending"
                                           /\ view["author"][i].msg = m /\ view["author"][i].seq = q
      BY <1>1, Zenon DEF Waiting
  <2>2. PICK b : b = view["author"][i]
      OBVIOUS
  <2>3. b.msg = m /\ b.seq = q /\ b.seq <= seqno /\ WaitsFor(b)
      BY <2>1, <2>2, Zenon DEF Matched
  <2>4. \A k : UnderWay(k, q) => k = m
      BY <2>3, Zenon DEF WaitsFor, UnderWay
  <2>5. AckComes(q) => Placed(m)
      BY <2>3, Zenon DEF WaitsFor, AckComes
  <2> QED  BY <2>3, <2>4, <2>5, Zenon
<1>2. \A m, q : UnderWay(m, q) => q <= seqno
    BY Zenon DEF UnderWay, Matched
<1>3. \A q : AckComes(q) => q <= seqno
    BY Zenon DEF AckComes, Matched
<1> QED  BY <1>1, <1>2, <1>3, Zenon

\* Placed after the step, of a message that may itself be found only then.
PlacedNext(m) == m \in Range(order') \/ <<"reused", m>> \in log'

\* Where the bubbles and ACKs after a step come from.
Follows(b) ==
    IF b.status = "sending" THEN Waiting(b.msg, b.seq)
    ELSE PlacedNext(b.msg) /\ b.seq <= seqno

\* Such an ACK was under way, or is that of a message just placed.
AckFollows(q) == AckComes(q) \/ \E m : UnderWay(m, q) /\ Placed(m)'

\* Everything that waits, and everything that is waited for, was there before.
MatchKept ==
    /\ UNCHANGED seqno
    /\ \A m : Placed(m) => Placed(m)'
    /\ SendsKept(inbox["author"], inbox'["author"])
    /\ \A t \in Finishing' : t.live = "yes" => UnderWay(t.msg, t.seq)
    /\ \A i \in DOMAIN push'["author"] :
          push'["author"][i].cmd = "ack" => AckFollows(push'["author"][i].seq)
    /\ \A i \in DOMAIN view'["author"] : Follows(view'["author"][i])
    /\ Apart(view'["author"])

\* The frame of Matched.
LEMMA MatchedStays ==
    ASSUME Matched, MatchKept
    PROVE  Matched'
<1>0. PICK s, r : s = inbox["author"] /\ r = inbox'["author"]
    BY Zenon
<1>1. PICK d \in {0, 1} : \A i \in DOMAIN r : r[i].op = "send" => i + d \in DOMAIN s /\ r[i] = s[i + d]
    BY <1>0, Zenon DEF MatchKept, SendsKept
<1>2. \A i \in DOMAIN r : r[i].op = "send" => UnderWay(r[i].msg, r[i].seq)
    BY <1>0, <1>1, Zenon DEF UnderWay
<1>3. \A i \in DOMAIN inbox'["author"] : inbox'["author"][i].op = "send" =>
          UnderWay(inbox'["author"][i].msg, inbox'["author"][i].seq)
    BY <1>0, <1>2, Zenon
<1>4. /\ seqno' = seqno /\ \A m : Placed(m) => Placed(m)'
      /\ \A t \in Finishing' : t.live = "yes" => UnderWay(t.msg, t.seq)
      /\ \A i \in DOMAIN push'["author"] :
            push'["author"][i].cmd = "ack" => AckFollows(push'["author"][i].seq)
      /\ \A i \in DOMAIN view'["author"] : Follows(view'["author"][i])
    BY Zenon DEF MatchKept
<1>5. /\ \A m, k, q : Waiting(m, q) /\ UnderWay(k, q) => k = m
      /\ \A m, q : Waiting(m, q) /\ AckComes(q) => Placed(m)
      /\ \A m, q : Waiting(m, q) => q <= seqno
      /\ \A m, q : UnderWay(m, q) => q <= seqno
      /\ \A q : AckComes(q) => q <= seqno
    BY MatchedSays, Zenon
<1>6. \A m, q : Waiting(m, q) /\ AckFollows(q) => Placed(m)'
    BY <1>4, <1>5, Zenon DEF AckFollows
<1>7. \A q : AckFollows(q) => q <= seqno
    BY <1>5, Zenon DEF AckFollows
<1>8. ASSUME NEW b, b.status = "sending", Waiting(b.msg, b.seq) PROVE WaitsFor(b)'
  <2>1. \A i \in DOMAIN inbox'["author"] : LET n == inbox'["author"][i] IN
            n.op = "send" /\ n.seq = b.seq => n.msg = b.msg
      BY <1>3, <1>5, <1>8, Zenon
  <2>2. \A t \in Finishing' : t.live = "yes" /\ t.seq = b.seq => t.msg = b.msg
      BY <1>4, <1>5, <1>8, Zenon
  <2>3. \A i \in DOMAIN push'["author"] : LET n == push'["author"][i] IN
            n.cmd = "ack" /\ n.seq = b.seq => Placed(b.msg)'
      BY <1>4, <1>6, <1>8, Zenon
  <2> QED  BY <2>1, <2>2, <2>3, Zenon DEF WaitsFor
<1>9. ASSUME NEW i \in DOMAIN view'["author"], NEW b, b = view'["author"][i]
      PROVE  /\ b.seq <= seqno' /\ (b.status # "sending" => Placed(b.msg)')
             /\ (b.status = "sending" => WaitsFor(b)')
  <2>1. Follows(b)
      BY <1>4, <1>9, Zenon
  <2>2. CASE b.status = "sending"
      BY <1>4, <1>5, <1>8, <2>1, <2>2, Zenon DEF Follows
  <2>3. CASE b.status # "sending"
      BY <1>4, <2>1, <2>3, Zenon DEF Follows, PlacedNext, Placed
  <2> QED  BY <2>2, <2>3
<1>10. (\A i \in DOMAIN view["author"] : LET b == view["author"][i] IN
          /\ b.seq <= seqno
          /\ b.status # "sending" => Placed(b.msg)
          /\ b.status = "sending" => WaitsFor(b))'
    BY <1>9, Zenon DEF WaitsFor, Placed
<1>11. /\ \A i \in DOMAIN inbox'["author"] : inbox'["author"][i].op = "send" => inbox'["author"][i].seq <= seqno'
       /\ \A t \in Finishing' : t.live = "yes" => t.seq <= seqno'
       /\ \A i \in DOMAIN push'["author"] : push'["author"][i].cmd = "ack" => push'["author"][i].seq <= seqno'
    BY <1>3, <1>4, <1>5, <1>7, Zenon
<1>12. Apart(view'["author"])
    BY Zenon DEF MatchKept
<1> QED  BY <1>10, <1>11, <1>12, Zenon DEF Matched

\* The ids that notices and bubbles carry.
LEMMA IdTypes ==
    ASSUME NEW K \in SUBSET Message
    PROVE  /\ \A n \in Notices(K) : n.id \in Message \cup {Unassigned} /\ (n.cmd = "ack" => n.id \in Message)
           /\ \A b \in Bubbles(K) : b.id \in Message \cup {Unassigned}
           /\ \A t \in Tasks(K) : \A i \in DOMAIN t.list : t.list[i].id \in Message \cup {Unassigned}
<1>1. \A n \in Notices(K) : n.id \in Message \cup {Unassigned} /\ (n.cmd = "ack" => n.id \in Message)
    BY DEF Notices
<1>2. \A b \in Bubbles(K) : b.id \in Message \cup {Unassigned}
    BY DEF Bubbles
<1>3. ASSUME NEW t \in Tasks(K), NEW i \in DOMAIN t.list PROVE t.list[i] \in Notices(K)
  <2>1. t.list \in Seq(Notices(K)) \/ t.list \in Seq(Copies(K)) \/ t.list = <<>>
      BY DEF Tasks
  <2>2. Copies(K) \subseteq Notices(K)
      BY DEF Copies, Notices
  <2> QED  BY <1>3, <2>1, <2>2
<1> QED  BY <1>1, <1>2, <1>3

\* No new ACK, and no new copy of a message whose handler has not finished.
ShownKept ==
    /\ NoneReused' => NoneReused
    /\ \A m \in Message : row'[m].state = "none" => row[m].state = "none"
    /\ AcksKept(push["author"], push'["author"])
    /\ Distinct(view["author"]) => Distinct(view'["author"])
    /\ \A i \in DOMAIN view'["author"] :
          \/ view'["author"][i].id = Unassigned
          \/ \E j \in DOMAIN view["author"] : view["author"][j].id = view'["author"][i].id
    /\ \A i \in DOMAIN push'["author"] :
          \/ \E j \in DOMAIN push["author"] : push["author"][j].id = push'["author"][i].id
          \/ Over(push'["author"][i].id)
          \/ \E t \in task : t.op = "queried" /\ \E j \in DOMAIN t.list : t.list[j].id = push'["author"][i].id
    /\ \A t \in task' : t.op = "queried" =>
          \/ \E s \in task : s.op = "queried" /\ s.list = t.list
          \/ \A i \in DOMAIN t.list : Over(t.list[i].id)

\* The frame of AcksAreNew.
LEMMA AcksStayNew ==
    ASSUME Known, Known', AcksAreNew, ShownKept
    PROVE  AcksAreNew'
<1>0. PICK p, q, v, w : p = push["author"] /\ q = push'["author"] /\ v = view["author"] /\ w = view'["author"]
    BY Zenon
<1>1. /\ Range(order) \in SUBSET Message /\ Range(order') \in SUBSET Message /\ Unassigned \notin Message
  <2>1. order \in Seq(Message) /\ order' \in Seq(Message)
      BY Zenon DEF Known, Typed
  <2>2. Unassigned \notin Message
      BY ConversationAssumption DEF ConversationAssumption, Message
  <2> QED  BY <2>1, <2>2 DEF Range
<1>2. /\ DOMAIN p \subseteq Nat /\ DOMAIN q \subseteq Nat \ {0}
      /\ \A i \in DOMAIN p : p[i].cmd = "ack" => p[i].id \in Message
      /\ \A i \in DOMAIN q : q[i].id \in Message \cup {Unassigned}
      /\ \A i \in DOMAIN w : w[i].id \in Message \cup {Unassigned}
  <2>1. /\ push \in [User -> Seq(Notices(Range(order)))]
        /\ push' \in [User -> Seq(Notices(Range(order')))] /\ view' \in [User -> Seq(Bubbles(Range(order')))]
      BY Zenon DEF Known, Typed
  <2>2. /\ DOMAIN p \subseteq Nat /\ \A i \in DOMAIN p : p[i] \in Notices(Range(order))
        /\ DOMAIN q \subseteq Nat \ {0} /\ \A i \in DOMAIN q : q[i] \in Notices(Range(order'))
        /\ \A i \in DOMAIN w : w[i] \in Bubbles(Range(order'))
      BY <1>0, <2>1, Each, Zenon
  <2> QED  BY <1>1, <2>2, IdTypes, Zenon
<1>3. \A t \in task' : \A i \in DOMAIN t.list : t.list[i].id \in Message \cup {Unassigned}
  <2>1. task' \subseteq Tasks(Range(order'))
      BY Zenon DEF Known, Typed
  <2> QED  BY <1>1, <2>1, IdTypes, Zenon
<1>4. \A m \in Message \cup {Unassigned} : Over(m) => Over(m)'
    BY DEF ShownKept, Over
<1>5. /\ Distinct(v) /\ \A i \in DOMAIN v : Over(v[i].id)
      /\ \A i \in DOMAIN p : Over(p[i].id)
      /\ \A t \in task : t.op = "queried" => \A i \in DOMAIN t.list : Over(t.list[i].id)
    BY <1>0, Zenon DEF AcksAreNew
<1>6. \A i \in DOMAIN p : p[i].cmd = "ack" => /\ \A j \in DOMAIN v : v[j].id # p[i].id
                                              /\ \A j \in 1..(i - 1) : p[j].id # p[i].id
    BY <1>0, Zenon DEF AcksAreNew
<1>7. Distinct(w) /\ \A i \in DOMAIN w : w[i].id = Unassigned \/ \E j \in DOMAIN v : v[j].id = w[i].id
    BY <1>0, <1>5, Zenon DEF ShownKept
<1>8. \A i \in DOMAIN w : Over(w[i].id)'
  <2>1. \A i \in DOMAIN w : Over(w[i].id)
      BY <1>5, <1>7, Zenon DEF Over
  <2> QED  BY <1>2, <1>4, <2>1, Zenon
<1>9. \A i \in DOMAIN q : Over(q[i].id)'
  <2>1. \A i \in DOMAIN q : Over(q[i].id)
      BY <1>0, <1>5, Zenon DEF ShownKept
  <2> QED  BY <1>2, <1>4, <2>1, Zenon
<1>10. \A t \in task' : t.op = "queried" => \A i \in DOMAIN t.list : Over(t.list[i].id)'
  <2>1. \A t \in task' : t.op = "queried" => \A i \in DOMAIN t.list : Over(t.list[i].id)
      BY <1>5, Zenon DEF ShownKept
  <2> QED  BY <1>3, <1>4, <2>1, Zenon
<1>11. ASSUME NEW i \in DOMAIN q, q[i].cmd = "ack"
       PROVE  /\ \A j \in DOMAIN w : w[j].id # q[i].id
              /\ \A j \in 1..(i - 1) : q[j].id # q[i].id
  <2>1. PICK d \in {0, 1} : \A j \in 1..i : j + d \in DOMAIN p /\ q[j] = p[j + d]
      BY <1>0, <1>11, Zenon DEF ShownKept, AcksKept
  <2>2. i \in Nat /\ d \in Nat
      BY <1>2
  <2>3. PICK k \in DOMAIN p : k = i + d /\ q[i] = p[k] /\ k \in Nat
    <3>1. i \in 1..i
        BY <1>2
    <3> QED  BY <1>2, <2>1, <3>1
  <2>4. q[i].id \in Message /\ \A j \in DOMAIN v : v[j].id # q[i].id
      BY <1>2, <1>6, <1>11, <2>3, Zenon
  <2>5. \A j \in DOMAIN w : w[j].id # q[i].id
      BY <1>1, <1>7, <2>4, Zenon
  <2>6. ASSUME NEW j \in 1..(i - 1) PROVE q[j].id # q[i].id
    <3>1. j \in 1..i /\ j + d \in 1..(k - 1)
        BY <2>2, <2>3
    <3> QED  BY <1>6, <1>11, <2>1, <2>3, <3>1, Zenon
  <2> QED  BY <2>5, <2>6
<1>12. (\A i \in DOMAIN push["author"] : push["author"][i].cmd = "ack" =>
          /\ \A j \in DOMAIN view["author"] : view["author"][j].id # push["author"][i].id
          /\ \A j \in 1..(i - 1) : push["author"][j].id # push["author"][i].id)'
    BY <1>0, <1>11, Zenon
<1>13. /\ Distinct(view["author"])' /\ (\A i \in DOMAIN view["author"] : Over(view["author"][i].id))'
       /\ (\A i \in DOMAIN push["author"] : Over(push["author"][i].id))'
       /\ (\A t \in task : t.op = "queried" => \A i \in DOMAIN t.list : Over(t.list[i].id))'
    BY <1>0, <1>7, <1>8, <1>9, <1>10, Zenon DEF Distinct, Over
<1> QED  BY <1>12, <1>13, Zenon DEF AcksAreNew

-----------------------------------------------------------------------------
(* Steps that concern nothing of it                                        *)

\* Every bubble of w is one of v, with its message, id and seq.
Carries(f, v, w) ==
    /\ \A i \in DOMAIN w : /\ w[i].msg = v[f[i]].msg /\ w[i].id = v[f[i]].id
                           /\ w[i].seq = v[f[i]].seq
                           /\ (w[i].status = "sending") <=> (v[f[i]].status = "sending")
    /\ \A i, j \in DOMAIN w : i # j => f[i] # f[j]

\* The page w shows bubbles of v only, each once.
ViewKept(v, w) == \E f \in [DOMAIN w -> DOMAIN v] : Carries(f, v, w)

\* The notices to the author are neither new ACKs nor copies of a message whose
\* handler has not finished.
QuietPush ==
    /\ AcksKept(push["author"], push'["author"])
    /\ \A i \in DOMAIN push'["author"] :
          \/ \E j \in DOMAIN push["author"] : push["author"][j].id = push'["author"][i].id
          \/ Over(push'["author"][i].id)
          \/ \E t \in task : t.op = "queried" /\ \E j \in DOMAIN t.list : t.list[j].id = push'["author"][i].id

\* The histories read have rows of finished messages only.
QuietQueries ==
    \A t \in task' : t.op = "queried" =>
        \/ \E s \in task : s.op = "queried" /\ s.list = t.list
        \/ \A i \in DOMAIN t.list : Over(t.list[i].id)

\* No row is written for the first time.
QuietRows == \A m \in Message : (row'[m].state = "none") <=> (row[m].state = "none")

\* None of the exceptions the invariant names is added.
QuietLog ==
    \A m : \A why \in {"read", "uncounted", "reused"} : (<<why, m>> \in log') <=> (<<why, m>> \in log)

\* Nothing the invariant speaks of changes.
Calm ==
    /\ UNCHANGED <<order, unread, seqno>> /\ Sent' = Sent
    /\ Finishing' = Finishing /\ QuietQueries
    /\ QuietRows /\ QuietLog /\ QuietPush
    /\ SendsKept(inbox["author"], inbox'["author"])
    /\ ViewKept(view["author"], view'["author"])

\* What ViewKept gives, without the function.
BubblesKept(v, w) ==
    /\ Distinct(v) => Distinct(w)
    /\ Apart(v) => Apart(w)
    /\ \A i \in DOMAIN w : \E j \in DOMAIN v :
          /\ w[i].msg = v[j].msg /\ w[i].id = v[j].id /\ w[i].seq = v[j].seq
          /\ (w[i].status = "sending") <=> (v[j].status = "sending")

\* What ViewKept gives.
LEMMA KeptBubbles ==
    ASSUME NEW v, NEW w, ViewKept(v, w)
    PROVE  BubblesKept(v, w)
<1>0. PICK f \in [DOMAIN w -> DOMAIN v] : Carries(f, v, w)
    BY Zenon DEF ViewKept
<1>1. /\ \A i \in DOMAIN w : /\ w[i].msg = v[f[i]].msg /\ w[i].id = v[f[i]].id
                             /\ w[i].seq = v[f[i]].seq
                             /\ (w[i].status = "sending") <=> (v[f[i]].status = "sending")
      /\ \A i, j \in DOMAIN w : i # j => f[i] # f[j]
    BY <1>0, Zenon DEF Carries
<1>2. \A i \in DOMAIN w : f[i] \in DOMAIN v
    BY Zenon
<1>3. ASSUME Distinct(v), NEW i \in DOMAIN w, NEW j \in DOMAIN w, i # j, w[i].id = w[j].id
      PROVE  w[i].id = Unassigned
  <2>1. f[i] # f[j] /\ v[f[i]].id = v[f[j]].id /\ w[i].id = v[f[i]].id
      BY <1>1, <1>3, Zenon
  <2> QED  BY <1>2, <1>3, <2>1, Zenon DEF Distinct
<1>4. ASSUME Apart(v), NEW i \in DOMAIN w, NEW j \in DOMAIN w, i # j,
             w[i].status = "sending", w[j].status = "sending"
      PROVE  w[i].seq # w[j].seq
  <2>1. /\ f[i] # f[j] /\ v[f[i]].status = "sending" /\ v[f[j]].status = "sending"
        /\ w[i].seq = v[f[i]].seq /\ w[j].seq = v[f[j]].seq
      BY <1>1, <1>4, Zenon
  <2>2. v[f[i]].seq # v[f[j]].seq
      BY <1>2, <1>4, <2>1, Zenon DEF Apart
  <2> QED  BY <2>1, <2>2, Zenon
<1>5. (Distinct(v) => Distinct(w)) /\ (Apart(v) => Apart(w))
    BY <1>3, <1>4, Zenon DEF Distinct, Apart
<1>6. \A i \in DOMAIN w : \E j \in DOMAIN v :
          /\ w[i].msg = v[j].msg /\ w[i].id = v[j].id /\ w[i].seq = v[j].seq
          /\ (w[i].status = "sending") <=> (v[j].status = "sending")
    BY <1>1, <1>2, Zenon
<1> QED  BY <1>5, <1>6, Zenon DEF BubblesKept

\* ACKs that were under way before.
LEMMA AcksFollow ==
    ASSUME Known', AcksKept(push["author"], push'["author"])
    PROVE  \A i \in DOMAIN push'["author"] :
               push'["author"][i].cmd = "ack" => AckFollows(push'["author"][i].seq)
<1> SUFFICES ASSUME NEW i \in DOMAIN push'["author"], push'["author"][i].cmd = "ack"
             PROVE  AckFollows(push'["author"][i].seq)
    BY Zenon
<1>1. PICK d \in {0, 1} : \A j \in 1..i : j + d \in DOMAIN push["author"] /\ push'["author"][j] = push["author"][j + d]
    BY Zenon DEF AcksKept
<1>2. i \in 1..i
  <2>1. push' \in [User -> Seq(Notices(Range(order')))]
      BY Zenon DEF Known, Typed
  <2>2. i \in Nat \ {0}
      BY <2>1, Each, Zenon
  <2> QED  BY <2>2
<1> QED  BY <1>1, <1>2, Zenon DEF AckFollows, AckComes

\* Bubbles that were there before.
LEMMA BubblesFollow ==
    ASSUME Matched, \A m : Placed(m) => Placed(m)',
           NEW j \in DOMAIN view["author"], NEW b,
           b.msg = view["author"][j].msg, b.seq = view["author"][j].seq,
           (b.status = "sending") <=> (view["author"][j].status = "sending")
    PROVE  Follows(b)
<1>1. CASE b.status = "sending"
    BY <1>1, Zenon DEF Follows, Waiting
<1>2. CASE b.status # "sending"
  <2>1. Placed(b.msg) /\ b.seq <= seqno
      BY <1>2, Zenon DEF Matched
  <2> QED  BY <1>2, <2>1, Zenon DEF Follows, PlacedNext, Placed
<1> QED  BY <1>1, <1>2, Zenon

\* What goes on was under way before.
LEMMA HandlersFollow ==
    ASSUME FinishKept
    PROVE  \A t \in Finishing' : t.live = "yes" => UnderWay(t.msg, t.seq)
BY Zenon DEF FinishKept, UnderWay

\* Nothing the invariant speaks of changes, but for connections that handlers lose.
Settled ==
    /\ UNCHANGED <<order, unread, seqno>> /\ Sent' = Sent
    /\ FinishKept /\ QuietQueries
    /\ QuietRows /\ QuietLog /\ QuietPush
    /\ SendsKept(inbox["author"], inbox'["author"])
    /\ ViewKept(view["author"], view'["author"])

\* Such a step keeps Once and Counts.
LEMMA SettledCounts ==
    ASSUME ConversationInv, Known', UNCHANGED <<order, unread>>, Sent' = Sent, FinishKept, QuietRows, QuietLog,
           SendsKept(inbox["author"], inbox'["author"])
    PROVE  Once' /\ Counts'
<1>1. Known /\ Once /\ Counts
    BY Zenon DEF ConversationInv
<1>2. Once'
  <2>1. OnceKept
      BY Zenon DEF OnceKept, QuietRows
  <2> QED  BY <1>1, <2>1, OnceStays, Zenon
<1>3. Counts'
  <2>1. CountsKept
      BY Zenon DEF CountsKept, QuietLog, FinishKept
  <2> QED  BY <1>1, <2>1, CountsStay, Zenon
<1> QED  BY <1>2, <1>3

\* Such a step keeps the invariant.
LEMMA SettledKeeps ==
    ASSUME ConversationInv, Known', Settled, Distinct(view["reader"])'
    PROVE  ConversationInv'
<1>1. Known /\ Once /\ Counts /\ Matched /\ ShownInv
    BY Zenon DEF ConversationInv
<1>2. Once' /\ Counts'
    BY SettledCounts, Zenon DEF Settled
<1>5. /\ Distinct(view["author"]) => Distinct(view'["author"])
      /\ Apart(view["author"]) => Apart(view'["author"])
      /\ \A i \in DOMAIN view'["author"] : \E j \in DOMAIN view["author"] :
                /\ view'["author"][i].msg = view["author"][j].msg
                /\ view'["author"][i].id = view["author"][j].id
                /\ view'["author"][i].seq = view["author"][j].seq
                /\ (view'["author"][i].status = "sending") <=> (view["author"][j].status = "sending")
  <2>1. BubblesKept(view["author"], view'["author"])
      BY KeptBubbles, Zenon DEF Settled
  <2> QED  BY <2>1, Zenon DEF BubblesKept
<1>6. Matched'
  <2>1. \A m : Placed(m) => Placed(m)'
      BY Zenon DEF Placed, Settled, QuietLog
  <2>2. \A t \in Finishing' : t.live = "yes" => UnderWay(t.msg, t.seq)
      BY HandlersFollow, Zenon DEF Settled
  <2>3. \A i \in DOMAIN push'["author"] : push'["author"][i].cmd = "ack" => AckFollows(push'["author"][i].seq)
      BY AcksFollow, Zenon DEF Settled, QuietPush
  <2>4. \A i \in DOMAIN view'["author"] : Follows(view'["author"][i])
      BY <1>1, <1>5, <2>1, BubblesFollow, Zenon
  <2>5. MatchKept
      BY <1>1, <1>5, <2>1, <2>2, <2>3, <2>4, Zenon DEF MatchKept, Settled, Matched
  <2> QED  BY <1>1, <2>5, MatchedStays, Zenon
<1>7. ShownInv'
  <2>1. ShownKept
    <3>1. NoneReused' => NoneReused
        BY Zenon DEF NoneReused, Settled, QuietLog
    <3> QED  BY <1>5, <3>1, Zenon DEF ShownKept, Settled, QuietRows, QuietPush, QuietQueries
  <2>2. NoneReused' => AcksAreNew'
      BY <1>1, <2>1, AcksStayNew, Zenon DEF ShownInv, ShownKept
  <2> QED  BY <2>2, Zenon DEF ShownInv
<1> QED  BY <1>2, <1>6, <1>7, Zenon DEF ConversationInv

\* A calm step keeps the invariant.
LEMMA CalmKeeps ==
    ASSUME ConversationInv, Known', Calm, Distinct(view["reader"])'
    PROVE  ConversationInv'
<1>1. FinishKept
    BY SameFinishing, Zenon DEF Calm, ConversationInv
<1>2. Settled
    BY <1>1, Zenon DEF Calm, Settled
<1> QED  BY <1>2, SettledKeeps, Zenon

\* A page that changes none of the fields above, and one whose bubbles change places.
LEMMA ViewsKept ==
    ASSUME NEW K, NEW v \in Seq(Bubbles(K))
    PROVE  /\ ViewKept(v, v)
           /\ \A w : (\E id : w = markRecalled(v, id) \/ w = applyEdit(v, id)) => ViewKept(v, w)
           /\ ViewKept(v, markMessagesRead(v))
           /\ \A existing : ViewKept(v, rebuild(v, existing))
<1>1. ASSUME NEW w, SameBubbles(v, w)
      PROVE  ViewKept(v, w)
  <2> DEFINE f == [i \in DOMAIN w |-> i]
  <2>1. f \in [DOMAIN w -> DOMAIN v] /\ \A i \in DOMAIN w : f[i] = i
      BY <1>1 DEF SameBubbles
  <2> HIDE DEF f
  <2>2. Carries(f, v, w)
      BY <1>1, <2>1 DEF SameBubbles, Carries
  <2> QED  BY <2>1, <2>2, Zenon DEF ViewKept
<1>2. ViewKept(v, v)
    BY <1>1, Zenon DEF SameBubbles
<1>3. ASSUME NEW w, \/ \E id : w = markRecalled(v, id) \/ w = applyEdit(v, id)
                    \/ w = markMessagesRead(v)
      PROVE  ViewKept(v, w)
  <2>1. SameBubbles(v, w)
      BY <1>3, Marks, Zenon
  <2> QED  BY <1>1, <2>1, Zenon
<1>4. ASSUME NEW existing PROVE ViewKept(v, rebuild(v, existing))
  <2>1. PICK w : w = rebuild(v, existing)
      BY Zenon
  <2>2. Shuffled(v, w)
      BY <2>1, Rebuilds, Zenon
  <2>3. PICK f \in [DOMAIN w -> DOMAIN v] : /\ \A i \in DOMAIN w : w[i] = v[f[i]]
                                           /\ \A i, j \in DOMAIN w : i # j => f[i] # f[j]
      BY <2>2, Zenon DEF Shuffled
  <2>4. ViewKept(v, w)
      BY <2>3, Zenon DEF ViewKept, Carries
  <2> QED  BY <2>1, <2>4, Zenon
<1> QED  BY <1>2, <1>3, <1>4, Zenon

\* What is left as it is.
LEMMA Still ==
    ASSUME Known
    PROVE  /\ SendsKept(inbox["author"], inbox["author"])
           /\ AcksKept(push["author"], push["author"])
           /\ ViewKept(view["author"], view["author"])
           /\ push' = push => QuietPush
           /\ row' = row => QuietRows
           /\ log' = log => QuietLog
           /\ task' = task => (Finishing' = Finishing /\ QuietQueries)
<1>1. /\ inbox \in [User -> Seq(Requests(Range(order)))] /\ push \in [User -> Seq(Notices(Range(order)))]
      /\ view \in [User -> Seq(Bubbles(Range(order)))]
    BY Zenon DEF Known, Typed
<1>2. /\ inbox["author"] \in Seq(Requests(Range(order))) /\ push["author"] \in Seq(Notices(Range(order)))
      /\ view["author"] \in Seq(Bubbles(Range(order)))
    BY <1>1, Each, Zenon
<1>3. /\ SendsKept(inbox["author"], inbox["author"])
      /\ AcksKept(push["author"], push["author"])
      /\ ViewKept(view["author"], view["author"])
    BY <1>2, SendsMoves, AcksMoves, ViewsKept, Zenon
<1>4. push' = push => QuietPush
    BY <1>3, Zenon DEF QuietPush
<1>5. task' = task => Finishing' = Finishing /\ QuietQueries
    BY Zenon DEF Finishing, QuietQueries
<1> QED  BY <1>3, <1>4, <1>5, Zenon DEF QuietRows, QuietLog

\* The author's connection carries what it carried, less the first, or a notice
\* about no message.
LEMMA QuietPushes ==
    ASSUME Known, AcksKept(push["author"], push'["author"]),
           \/ push'["author"] = push["author"] \/ push'["author"] = <<>>
           \/ push["author"] # <<>> /\ push'["author"] = Tail(push["author"])
           \/ \E n \in Notices(Range(order)) :
                 n.id = Unassigned /\ push'["author"] = Append(push["author"], n)
    PROVE  QuietPush
<1>0. PICK p, q : p = push["author"] /\ q = push'["author"]
    BY Zenon
<1>1. p \in Seq(Notices(Range(order)))
  <2>1. push \in [User -> Seq(Notices(Range(order)))]
      BY Zenon DEF Known, Typed
  <2> QED  BY <1>0, <2>1, Each, Zenon
<1>2. CASE q = p \/ q = <<>>
  <2>1. \A i \in DOMAIN q : q = p
      BY <1>2
  <2> QED  BY <1>0, <2>1, Zenon DEF QuietPush
<1>3. CASE p # <<>> /\ q = Tail(p)
  <2>1. \A i \in DOMAIN q : i + 1 \in DOMAIN p /\ q[i] = p[i + 1]
      BY <1>1, <1>3, Taken, Zenon
  <2> QED  BY <1>0, <2>1, Zenon DEF QuietPush
<1>4. ASSUME NEW n \in Notices(Range(order)), n.id = Unassigned, q = Append(p, n) PROVE QuietPush
  <2>1. \A i \in DOMAIN q : (i \in DOMAIN p /\ q[i] = p[i]) \/ q[i] = n
    <3>1. /\ \A i \in DOMAIN p : q[i] = p[i]
          /\ \A i \in DOMAIN q : i \in DOMAIN p \/ i = Len(p) + 1
          /\ q[Len(p) + 1] = n
        BY <1>1, <1>4, Put
    <3> QED  BY <3>1, Zenon
  <2>2. \A i \in DOMAIN q : (\E j \in DOMAIN p : p[j].id = q[i].id) \/ Over(q[i].id)
      BY <1>4, <2>1, Zenon DEF Over
  <2> QED  BY <1>0, <2>2, Zenon DEF QuietPush
<1> QED  BY <1>0, <1>2, <1>3, <1>4, Zenon

\* A handler of another kind starts or ends.
LEMMA QuietTasks ==
    ASSUME NEW t,
           \/ t.op # "finish" /\ t.op # "queried" /\ task' = task \cup {t}
           \/ t.op # "finish" /\ task' = task \ {t}
    PROVE  Finishing' = Finishing /\ QuietQueries
<1>1. CASE t.op # "finish" /\ t.op # "queried" /\ task' = task \cup {t}
    BY <1>1, Zenon DEF Finishing, QuietQueries
<1>2. CASE t.op # "finish" /\ task' = task \ {t}
  <2>1. Finishing' = Finishing
      BY <1>2 DEF Finishing
  <2>2. task' \subseteq task
      BY <1>2
  <2> QED  BY <2>1, <2>2, Zenon DEF QuietQueries
<1> QED  BY <1>1, <1>2, Zenon

-----------------------------------------------------------------------------
(* The calm steps, one action at a time                                    *)

\* Save writes the row of a message whose handler has finished.
LEMMA SaveKeeps ==
    ASSUME ConversationInv, NEW m \in Message, Save(m)
    PROVE  ConversationInv'
<1>0. Known /\ row \in [Message -> Rows] /\ ShownInv
    BY Zenon DEF ConversationInv, Known, Typed
<1>1. /\ UNCHANGED <<up, inbox, push, task, order, dedup, offq, unread, kind, view, load, seqno, asked, log>>
      /\ row[m].state = "queued" /\ row' = [row EXCEPT ![m].state = "saved"]
    BY Zenon DEF Save, clients
<1>2. row' \in [Message -> Rows] /\ QuietRows
    BY <1>0, <1>1 DEF Rows, QuietRows
<1>3. Known'
    BY <1>0, <1>1, <1>2, Zenon DEF Known, Typed
<1>4. Calm
    BY <1>0, <1>1, <1>2, Still, Zenon DEF Calm, Sent
<1>5. Distinct(view["reader"])'
    BY <1>0, <1>1, Zenon DEF ShownInv
<1> QED  BY <1>3, <1>4, <1>5, CalmKeeps, Zenon

\* The author asks for a change of a message that has its MsgId.
LEMMA ChangeKeeps ==
    ASSUME ConversationInv, NEW op \in {"recall", "edit"}, NEW i \in DOMAIN view["author"], Change(op, i)
    PROVE  ConversationInv'
<1>0. /\ Known /\ ShownInv /\ view \in [User -> Seq(Bubbles(Range(order)))]
      /\ asked' = asked \cup {<<op, view["author"][i].id>>}
      /\ UNCHANGED <<up, push, task, order, dedup, offq, unread, row, view, load, seqno, kind, log>>
    BY Zenon DEF ConversationInv, Known, Typed, Change, gateway
<1>1. PICK r : /\ r = Request(op, view["author"][i].id, 0, 0) /\ Ask("author", r)
               /\ view["author"][i].id # Unassigned
    BY Zenon DEF Change
<1>2. r \in Requests(Range(order)) /\ r.op # "send"
  <2>1. view["author"][i] \in Bubbles(Range(order))
      BY <1>0, Each, Zenon
  <2>2. view["author"][i].id \in Range(order)
      BY <1>1, <2>1 DEF Bubbles
  <2> QED  BY <1>1, <2>2 DEF Request, Requests
<1>3. inbox' \in [User -> Seq(Requests(Range(order)))] /\ SendsKept(inbox["author"], inbox'["author"])
  <2>1. "author" \in User
      BY DEF User
  <2> QED  BY <1>0, <1>1, <1>2, <2>1, AskEffect, Zenon
<1>4. Known'
    BY <1>0, <1>3, Zenon DEF Known, Typed
<1>5. Sent' = Sent
    BY <1>0 DEF Sent
<1>6. Calm
    BY <1>0, <1>3, <1>5, Still, Zenon DEF Calm
<1>7. Distinct(view["reader"])'
    BY <1>0, Zenon DEF ShownInv
<1> QED  BY <1>4, <1>6, <1>7, CalmKeeps, Zenon

\* Requests for the history, and their timeout.
LEMMA LoadsKeep ==
    ASSUME ConversationInv, NEW u \in User,
           LoadHistory(u) \/ RetryHistoryRequest(u) \/ LoadTimeout(u)
    PROVE  ConversationInv'
<1>0. /\ Known /\ ShownInv /\ view \in [User -> Seq(Bubbles(Range(order)))] /\ order \in Seq(Message)
      /\ DOMAIN load = User /\ \A w \in User : load[w].before \in Nat
      /\ inbox \in [User -> Seq(Requests(Range(order)))]
      /\ UNCHANGED <<up, push, task, order, dedup, offq, unread, row, view, seqno, asked, kind, log>>
    BY Zenon DEF ConversationInv, Known, Typed, LoadHistory, RetryHistoryRequest, LoadTimeout, gateway
<1>1. \A at \in Nat : Request("history", Unassigned, 0, at) \in Requests(Range(order))
                      /\ Request("history", Unassigned, 0, at).op # "send"
    BY DEF Request, Requests
<1>2. BeforeTs(view[u], Now) \in Nat
  <2>1. Now \in Nat /\ view[u] \in Seq(Bubbles(Range(order)))
      BY <1>0, RangeIn
  <2>2. CASE view[u] = <<>>
      BY <2>1, <2>2 DEF BeforeTs
  <2>3. CASE view[u] # <<>>
    <3>1. view[u][1] \in Bubbles(Range(order))
        BY <2>1, <2>3
    <3> QED  BY <2>3, <3>1 DEF BeforeTs, Bubbles
  <2> QED  BY <2>2, <2>3
<1>3. /\ inbox' \in [User -> Seq(Requests(Range(order)))] /\ SendsKept(inbox["author"], inbox'["author"])
      /\ DOMAIN load' = User /\ \A w \in User : load'[w].before \in Nat
  <2>1. CASE LoadHistory(u)
    <3>1. Ask(u, Request("history", Unassigned, 0, BeforeTs(view[u], Now)))
        BY <2>1, Zenon DEF LoadHistory
    <3>2. load' = [load EXCEPT ![u] = [at |-> IF up[u] THEN "sent" ELSE "asking",
                                      existing |-> IdsOf(view[u]), before |-> BeforeTs(view[u], Now)]]
        BY <2>1, Zenon DEF LoadHistory
    <3>3. DOMAIN load' = User /\ \A w \in User : load'[w].before \in Nat
        BY <1>0, <1>2, <3>2
    <3> QED  BY <1>0, <1>1, <1>2, <3>1, <3>3, AskEffect, Zenon
  <2>2. CASE RetryHistoryRequest(u)
    <3>1. Ask(u, Request("history", Unassigned, 0, load[u].before))
        BY <2>2, Zenon DEF RetryHistoryRequest
    <3>2. DOMAIN load' = User /\ \A w \in User : load'[w].before \in Nat
        BY <1>0, <2>2 DEF RetryHistoryRequest, NoLoad
    <3> QED  BY <1>0, <1>1, <3>1, <3>2, AskEffect, Zenon
  <2>3. CASE LoadTimeout(u)
    <3>1. DOMAIN load' = User /\ \A w \in User : load'[w].before \in Nat
        BY <1>0, <2>3 DEF LoadTimeout, NoLoad
    <3> QED  BY <1>0, <2>3, <3>1, Still, Zenon DEF LoadTimeout
  <2> QED  BY <2>1, <2>2, <2>3, Zenon
<1>4. Known'
    BY <1>0, <1>3, Zenon DEF Known, Typed
<1>5. Calm
    BY <1>0, <1>3, Still, Zenon DEF Calm, Sent
<1>6. Distinct(view["reader"])'
    BY <1>0, Zenon DEF ShownInv
<1> QED  BY <1>4, <1>5, <1>6, CalmKeeps, Zenon

-----------------------------------------------------------------------------
(* What the pages receive                                                  *)

\* A bubble that is added stands alone.
LEMMA AddedIsDistinct ==
    ASSUME NEW K, NEW v \in Seq(Bubbles(K)), NEW b \in Bubbles(K), NEW w, NewBubble(v, w, b), Distinct(v)
    PROVE  Distinct(w)
<1>1. /\ \A i \in DOMAIN v : w[i] = v[i]
      /\ \A i \in DOMAIN w : i \in DOMAIN v \/ i = Len(v) + 1
      /\ w[Len(v) + 1] = b
    BY Put DEF NewBubble
<1>2. \A i \in DOMAIN v : b.id = Unassigned \/ v[i].id # b.id
    BY Zenon DEF NewBubble, IdsOf
<1>3. ASSUME NEW i \in DOMAIN w, NEW j \in DOMAIN w, i # j, w[i].id = w[j].id
      PROVE  w[i].id = Unassigned
  <2>1. CASE i \in DOMAIN v /\ j \in DOMAIN v
      BY <1>1, <1>3, <2>1, Zenon DEF Distinct
  <2>2. CASE i \in DOMAIN v /\ j = Len(v) + 1
      BY <1>1, <1>2, <1>3, <2>2, Zenon
  <2>3. CASE j \in DOMAIN v /\ i = Len(v) + 1
      BY <1>1, <1>2, <1>3, <2>3, Zenon
  <2> QED  BY <1>1, <1>3, <2>1, <2>2, <2>3, Zenon
<1> QED  BY <1>3, Zenon DEF Distinct

\* A message that comes in is shown, or changes a bubble, or nothing.
LEMMA ShownEffect ==
    ASSUME Known, NEW u \in User, NEW n \in Notices(Range(order)), n.cmd \in {"chat", "forward", "file"}
    PROVE  /\ Shown(u, n) \in Seq(Bubbles(Range(order)))
           /\ Distinct(view[u]) => Distinct(Shown(u, n))
           /\ \/ ViewKept(view[u], Shown(u, n))
              \/ \E b \in Bubbles(Range(order)) :
                    /\ b.msg = n.id /\ b.id = n.id /\ b.seq = 0 /\ b.status = "sent"
                    /\ NewBubble(view[u], Shown(u, n), b)
           /\ n.id \in Range(order) /\ n.id \in Message
<1> DEFINE b == [msg |-> n.id, id |-> n.id, seq |-> 0, at |-> n.at, status |-> "sent",
                 recalled |-> "no", text |-> n.text]
<1>1. /\ Range(order) \subseteq Message /\ Unassigned \notin Message
      /\ view[u] \in Seq(Bubbles(Range(order)))
    BY RangeIn DEF Known, Typed
<1>2. n.id \in Range(order) /\ n.at \in Nat /\ n.text \in Texts
    BY DEF Notices
<1>3. /\ b \in Bubbles(Range(order)) /\ b.msg = n.id /\ b.id = n.id /\ b.seq = 0 /\ b.status = "sent"
    BY <1>1, <1>2 DEF Bubbles
<1>4. Shown(u, n) \in {markRecalled(view[u], n.id), addMessage(view[u], b), view[u]}
    BY DEF Shown
<1> HIDE DEF b
<1>5. PICK v, w : v = view[u] /\ w = Shown(u, n)
    BY Zenon
<1>6. CASE w = addMessage(v, b) /\ w # v
  <2>1. w \in Seq(Bubbles(Range(order))) /\ NewBubble(v, w, b)
      BY <1>1, <1>3, <1>5, <1>6, Adds, Zenon
  <2>2. Distinct(v) => Distinct(w)
      BY <1>1, <1>3, <1>5, <2>1, AddedIsDistinct, Zenon
  <2> QED  BY <1>1, <1>2, <1>3, <1>5, <2>1, <2>2, Zenon
<1>7. CASE w = v \/ w = markRecalled(v, n.id)
  <2>1. w \in Seq(Bubbles(Range(order)))
      BY <1>1, <1>5, <1>7, Marks, Zenon
  <2>2. ViewKept(v, w)
      BY <1>1, <1>5, <1>7, ViewsKept, Zenon
  <2>3. Distinct(v) => Distinct(w)
      BY <2>2, KeptBubbles, Zenon DEF BubblesKept
  <2> QED  BY <1>1, <1>2, <1>5, <2>1, <2>2, <2>3, Zenon
<1> QED  BY <1>4, <1>5, <1>6, <1>7, Zenon

\* A notice the page of the author takes leaves its connection quiet.
LEMMA ReceiveIsQuiet ==
    ASSUME Known, NEW u \in User, NEW cmds, Receives(u, cmds)
    PROVE  /\ QuietPush
           /\ push' \in [User -> Seq(Notices(Range(order)))]
           /\ Head(push[u]) \in Notices(Range(order)) /\ Head(push[u]).cmd \in cmds
           /\ UNCHANGED <<up, task, order, dedup, offq, unread, row, seqno, asked, kind>>
<1>1. QuietPush
  <2>1. /\ push[u] # <<>> /\ AcksKept(push["author"], push'["author"])
        /\ IF u = "author" THEN push'["author"] = Tail(push["author"]) ELSE push'["author"] = push["author"]
      BY ReceiveEffect, Zenon
  <2> QED  BY <2>1, QuietPushes, Zenon
<1>2. /\ push' \in [User -> Seq(Notices(Range(order)))]
      /\ Head(push[u]) \in Notices(Range(order)) /\ Head(push[u]).cmd \in cmds
      /\ UNCHANGED <<up, task, order, dedup, offq, unread, row, seqno, asked, kind>>
    BY ReceiveEffect, Zenon
<1> QED  BY <1>1, <1>2, Zenon

\* A message for the reader, who may send a receipt.
LEMMA OnReaderMessageKeeps ==
    ASSUME ConversationInv, OnMessage("reader")
    PROVE  ConversationInv'
<1>0. /\ Known /\ ShownInv /\ "reader" \in User /\ Receives("reader", {"chat", "forward", "file"})
      /\ view \in [User -> Seq(Bubbles(Range(order)))]
      /\ UNCHANGED <<load, log>>
    BY Zenon DEF ConversationInv, OnMessage, User, Known, Typed
<1>1. PICK n : n = Head(push["reader"])
    BY Zenon
<1>2. /\ QuietPush /\ push' \in [User -> Seq(Notices(Range(order)))]
      /\ n \in Notices(Range(order)) /\ n.cmd \in {"chat", "forward", "file"}
      /\ UNCHANGED <<up, task, order, dedup, offq, unread, row, seqno, asked, kind>>
    BY <1>0, <1>1, ReceiveIsQuiet, Zenon
<1>3. /\ Shown("reader", n) \in Seq(Bubbles(Range(order))) /\ n.id \in Range(order)
      /\ Distinct(view["reader"]) => Distinct(Shown("reader", n))
    BY <1>0, <1>2, ShownEffect, Zenon
<1>4. view' = [view EXCEPT !["reader"] = Shown("reader", n)]
    BY <1>1, Zenon DEF OnMessage
<1>5. /\ view' \in [User -> Seq(Bubbles(Range(order)))] /\ view'["author"] = view["author"]
      /\ view'["reader"] = Shown("reader", n)
    BY <1>0, <1>3, <1>4 DEF User
<1>6. inbox' = inbox \/ Ask("reader", Request("receipt", n.id, 0, 0))
    BY <1>1, Zenon DEF OnMessage
<1>7. inbox' \in [User -> Seq(Requests(Range(order)))] /\ SendsKept(inbox["author"], inbox'["author"])
  <2>1. CASE inbox' = inbox
      BY <1>0, <2>1, Still, Zenon DEF Known, Typed
  <2>2. CASE Ask("reader", Request("receipt", n.id, 0, 0))
    <3>1. /\ Request("receipt", n.id, 0, 0) \in Requests(Range(order))
          /\ Request("receipt", n.id, 0, 0).op # "send"
        BY <1>3 DEF Request, Requests
    <3> QED  BY <1>0, <2>2, <3>1, AskEffect, Zenon
  <2> QED  BY <1>6, <2>1, <2>2, Zenon
<1>8. Known'
    BY <1>0, <1>2, <1>5, <1>7, Zenon DEF Known, Typed
<1>9. Calm
    BY <1>0, <1>2, <1>5, <1>7, Still, Zenon DEF Calm, Sent
<1>10. Distinct(view["reader"])'
    BY <1>0, <1>3, <1>5, Zenon DEF ShownInv, Distinct
<1> QED  BY <1>8, <1>9, <1>10, CalmKeeps, Zenon

\* The login is answered with a request for what is stored.
LEMMA OnLoginRespKeeps ==
    ASSUME ConversationInv, OnLoginResp
    PROVE  ConversationInv'
<1>0. /\ Known /\ ShownInv /\ "reader" \in User /\ Receives("reader", {"login"})
      /\ Ask("reader", Request("offline", Unassigned, 0, 0))
      /\ UNCHANGED <<view, load, log>>
    BY Zenon DEF ConversationInv, OnLoginResp, User
<1>1. /\ QuietPush /\ push' \in [User -> Seq(Notices(Range(order)))]
      /\ UNCHANGED <<up, task, order, dedup, offq, unread, row, seqno, asked, kind>>
    BY <1>0, ReceiveIsQuiet, Zenon
<1>2. inbox' \in [User -> Seq(Requests(Range(order)))] /\ SendsKept(inbox["author"], inbox'["author"])
  <2>1. /\ Request("offline", Unassigned, 0, 0) \in Requests(Range(order))
        /\ Request("offline", Unassigned, 0, 0).op # "send"
      BY DEF Request, Requests
  <2> QED  BY <1>0, <2>1, AskEffect, Zenon
<1>3. Known'
    BY <1>0, <1>1, <1>2, Zenon DEF Known, Typed
<1>4. Calm
    BY <1>0, <1>1, <1>2, Still, Zenon DEF Calm, Sent
<1>5. Distinct(view["reader"])'
    BY <1>0, Zenon DEF ShownInv
<1> QED  BY <1>3, <1>4, <1>5, CalmKeeps, Zenon

\* A change the reader is told of.
LEMMA OnChangeKeeps ==
    ASSUME ConversationInv, OnChange
    PROVE  ConversationInv'
<1>0. /\ Known /\ ShownInv /\ "reader" \in User /\ Receives("reader", {"recall", "edit"})
      /\ view \in [User -> Seq(Bubbles(Range(order)))]
      /\ UNCHANGED <<inbox, load>>
    BY Zenon DEF ConversationInv, OnChange, User, Known, Typed
<1>1. PICK w, id : /\ view' = [view EXCEPT !["reader"] = w]
                   /\ w = markRecalled(view["reader"], id) \/ w = applyEdit(view["reader"], id)
                   /\ log' = log \/ log' = log \cup {<<"early", id>>}
  <2>1. PICK n : n = Head(push["reader"])
      BY Zenon
  <2>2. /\ view' = [view EXCEPT !["reader"] =
                      IF n.cmd = "recall" THEN markRecalled(view["reader"], n.id)
                      ELSE applyEdit(view["reader"], n.id)]
        /\ log' = log \/ log' = log \cup {<<"early", n.id>>}
      BY <2>1, Zenon DEF OnChange, Log
  <2> QED  BY <2>2, Zenon
<1>2. /\ QuietPush /\ push' \in [User -> Seq(Notices(Range(order)))]
      /\ UNCHANGED <<up, task, order, dedup, offq, unread, row, seqno, asked, kind>>
    BY <1>0, ReceiveIsQuiet, Zenon
<1>3. w \in Seq(Bubbles(Range(order))) /\ (Distinct(view["reader"]) => Distinct(w))
  <2>1. view["reader"] \in Seq(Bubbles(Range(order)))
      BY <1>0, Each, Zenon
  <2>2. w \in Seq(Bubbles(Range(order))) /\ ViewKept(view["reader"], w)
      BY <1>1, <2>1, Marks, ViewsKept, Zenon
  <2> QED  BY <2>2, KeptBubbles, Zenon DEF BubblesKept
<1>4. /\ view' \in [User -> Seq(Bubbles(Range(order)))] /\ view'["author"] = view["author"]
      /\ view'["reader"] = w
    BY <1>0, <1>1, <1>3 DEF User
<1>5. QuietLog
    BY <1>1 DEF QuietLog
<1>6. Known'
    BY <1>0, <1>2, <1>4, Zenon DEF Known, Typed
<1>7. Calm
    BY <1>0, <1>2, <1>4, <1>5, Still, Zenon DEF Calm, Sent
<1>8. Distinct(view["reader"])'
    BY <1>0, <1>3, <1>4, Zenon DEF ShownInv, Distinct
<1> QED  BY <1>6, <1>7, <1>8, CalmKeeps, Zenon

\* A change of the places or the looks of the bubbles of a page.
LEMMA LooksKept ==
    ASSUME Known, ShownInv, NEW u \in User, NEW w \in Seq(Bubbles(Range(order))), ViewKept(view[u], w),
           view' = [view EXCEPT ![u] = w]
    PROVE  /\ view' \in [User -> Seq(Bubbles(Range(order)))]
           /\ ViewKept(view["author"], view'["author"]) /\ Distinct(view["reader"])'
<1>0. view \in [User -> Seq(Bubbles(Range(order)))] /\ "author" \in User /\ "reader" \in User
    BY DEF Known, Typed, User
<1>1. /\ view' \in [User -> Seq(Bubbles(Range(order)))]
      /\ u = "author" => view'["author"] = w /\ view'["reader"] = view["reader"]
      /\ u = "reader" => view'["reader"] = w /\ view'["author"] = view["author"]
    BY <1>0
<1>2. u = "author" \/ u = "reader"
    BY DEF User
<1>3. ViewKept(view["author"], view'["author"])
    BY <1>1, <1>2, Still, Zenon
<1>4. Distinct(w) \/ u = "author"
    BY <1>2, KeptBubbles, Zenon DEF BubblesKept, ShownInv
<1>5. Distinct(view["reader"])'
  <2>1. PICK r : r = view'["reader"]
      BY Zenon
  <2>2. Distinct(r)
      BY <1>1, <1>2, <1>4, <2>1, Zenon DEF ShownInv
  <2>3. Distinct(view'["reader"])
      BY <2>1, <2>2, Zenon
  <2> QED  BY <2>3, Zenon DEF Distinct
<1> QED  BY <1>1, <1>3, <1>5, Zenon

\* A page that waits for no history.
LEMMA Unloaded ==
    ASSUME NEW u, NEW f, DOMAIN f = User, \A r \in User : f[r].before \in Nat
    PROVE  LET g == [f EXCEPT ![u] = NoLoad] IN DOMAIN g = User /\ \A r \in User : g[r].before \in Nat
BY DEF NoLoad

\* A read receipt and the signal of the history; the notice of an error.
LEMMA OnSignalKeeps ==
    ASSUME ConversationInv, NEW u \in User, OnReadReceipt \/ OnHistory(u) \/ OnRecallError
    PROVE  ConversationInv'
<1>0. /\ Known /\ ShownInv /\ "author" \in User /\ view \in [User -> Seq(Bubbles(Range(order)))]
      /\ UNCHANGED <<inbox, log>> /\ \E r \in User : \E cmds : Receives(r, cmds)
      /\ DOMAIN load = User /\ \A r \in User : load[r].before \in Nat
    BY Zenon DEF ConversationInv, OnReadReceipt, OnHistory, OnRecallError, User, Known, Typed
<1>1. /\ QuietPush /\ push' \in [User -> Seq(Notices(Range(order)))]
      /\ UNCHANGED <<up, task, order, dedup, offq, unread, row, seqno, asked, kind>>
    BY <1>0, ReceiveIsQuiet, Zenon
<1>2. DOMAIN load' = User /\ \A r \in User : load'[r].before \in Nat
  <2>1. load' = load \/ load' = [load EXCEPT ![u] = NoLoad]
      BY Zenon DEF OnReadReceipt, OnHistory, OnRecallError
  <2> QED  BY <1>0, <2>1, Unloaded, Zenon
<1>3. /\ view' \in [User -> Seq(Bubbles(Range(order)))]
      /\ ViewKept(view["author"], view'["author"]) /\ Distinct(view["reader"])'
  <2>1. CASE view' = view
      BY <1>0, <2>1, Still, Zenon DEF ShownInv
  <2>2. CASE view' = [view EXCEPT !["author"] = markMessagesRead(view["author"])]
    <3>1. /\ markMessagesRead(view["author"]) \in Seq(Bubbles(Range(order)))
          /\ ViewKept(view["author"], markMessagesRead(view["author"]))
      <4>1. view["author"] \in Seq(Bubbles(Range(order)))
          BY <1>0, Each, Zenon
      <4> QED  BY <4>1, Marks, ViewsKept, Zenon
    <3> QED  BY <1>0, <2>2, <3>1, LooksKept, Zenon
  <2>3. CASE view' = [view EXCEPT ![u] = rebuild(view[u], load[u].existing)]
    <3>1. view[u] \in Seq(Bubbles(Range(order)))
        BY <1>0
    <3>2. /\ rebuild(view[u], load[u].existing) \in Seq(Bubbles(Range(order)))
          /\ ViewKept(view[u], rebuild(view[u], load[u].existing))
        BY <3>1, Rebuilds, ViewsKept, Zenon
    <3> QED  BY <1>0, <2>3, <3>2, LooksKept, Zenon
  <2> QED  BY <2>1, <2>2, <2>3, Zenon DEF OnReadReceipt, OnHistory, OnRecallError
<1>4. Known'
    BY <1>0, <1>1, <1>2, <1>3, Zenon DEF Known, Typed
<1>5. Calm
    BY <1>0, <1>1, <1>3, Still, Zenon DEF Calm, Sent
<1> QED  BY <1>3, <1>4, <1>5, CalmKeeps, Zenon

\* A connection starts empty, but for the login of the reader.
LEMMA ConnectKeeps ==
    ASSUME ConversationInv, NEW u \in User, Connect(u)
    PROVE  ConversationInv'
<1>0. /\ Known /\ ShownInv /\ push \in [User -> Seq(Notices(Range(order)))] /\ up \in [User -> BOOLEAN]
      /\ up' = [up EXCEPT ![u] = TRUE]
      /\ push' = [push EXCEPT ![u] = IF u = "reader" THEN <<Bare("login")>> ELSE <<>>]
      /\ UNCHANGED <<inbox, task, order, dedup, offq, unread, row, kind, view, load, seqno, asked, log>>
    BY Zenon DEF ConversationInv, Known, Typed, Connect, gateway, clients
<1>1. Bare("login") \in Notices(Range(order)) /\ "author" \in User
    BY DEF Bare, Notice, Notices, Texts, User
<1>2. /\ <<Bare("login")>> \in Seq(Notices(Range(order))) /\ <<>> \in Seq(Notices(Range(order)))
    BY <1>1
<1>3. /\ push' \in [User -> Seq(Notices(Range(order)))] /\ up' \in [User -> BOOLEAN]
      /\ push'["author"] = push["author"] \/ push'["author"] = <<>>
    BY <1>0, <1>1, <1>2 DEF User
<1>4. QuietPush
  <2>1. push["author"] \in Seq(Notices(Range(order)))
      BY <1>0, Each, Zenon
  <2>2. AcksKept(push["author"], push'["author"])
      BY <1>3, <2>1, AcksMoves, Zenon
  <2> QED  BY <1>0, <1>3, <2>2, QuietPushes, Zenon
<1>5. Known'
    BY <1>0, <1>3, Zenon DEF Known, Typed
<1>6. Calm
    BY <1>0, <1>4, Still, Zenon DEF Calm, Sent
<1>7. Distinct(view["reader"])'
    BY <1>0, Zenon DEF ShownInv
<1> QED  BY <1>5, <1>6, <1>7, CalmKeeps, Zenon

-----------------------------------------------------------------------------
(* The handlers whose steps are calm                                       *)

\* A handler that is asked and changes nothing else the invariant speaks of.
LEMMA AskedKeeps ==
    ASSUME ConversationInv, NEW u \in User, NEW ops, Takes(u, ops),
           UNCHANGED <<order, dedup, unread>>, QuietPush, QuietQueries, QuietRows, QuietLog,
           Finishing' = Finishing,
           push' \in [User -> Seq(Notices(Range(order)))], offq' \in Seq(Notices(Range(order))),
           task' \subseteq Tasks(Range(order)), row' \in [Message -> Rows]
    PROVE  ConversationInv'
<1>0. Known /\ ShownInv
    BY Zenon DEF ConversationInv
<1>1. /\ inbox' \in [User -> Seq(Requests(Range(order)))]
      /\ SendsKept(inbox["author"], inbox'["author"])
      /\ UNCHANGED <<up, kind, view, load, seqno, asked>>
    BY <1>0, TakeEffect, Zenon
<1>2. Known'
    BY <1>0, <1>1, Zenon DEF Known, Typed
<1>3. Calm
    BY <1>0, <1>1, Still, Zenon DEF Calm, Sent
<1>4. Distinct(view["reader"])'
    BY <1>0, <1>1, Zenon DEF ShownInv
<1> QED  BY <1>2, <1>3, <1>4, CalmKeeps, Zenon

\* A handler that goes on and changes nothing else the invariant speaks of.
LEMMA RunKeeps ==
    ASSUME ConversationInv, NEW t \in task, t.op # "finish", Runs(t, t.op), Ends(t),
           UNCHANGED <<order, dedup, unread>>, QuietPush, QuietRows, QuietLog,
           push' \in [User -> Seq(Notices(Range(order)))], offq' \in Seq(Notices(Range(order))),
           row' \in [Message -> Rows]
    PROVE  ConversationInv'
<1>0. Known /\ ShownInv /\ UNCHANGED <<up, inbox, kind, view, load, seqno, asked>>
    BY Zenon DEF ConversationInv, Runs, clients
<1>1. Finishing' = Finishing /\ QuietQueries
    BY QuietTasks, Zenon DEF Ends
<1>2. task' \subseteq Tasks(Range(order))
    BY <1>0 DEF Known, Typed, Ends
<1>3. Known'
    BY <1>0, <1>2, Zenon DEF Known, Typed
<1>4. Calm
    BY <1>0, <1>1, Still, Zenon DEF Calm, Sent
<1>5. Distinct(view["reader"])'
    BY <1>0, Zenon DEF ShownInv
<1> QED  BY <1>3, <1>4, <1>5, CalmKeeps, Zenon

\* The variables as Known types them.
LEMMA GatewayTypes ==
    ASSUME Known
    PROVE  /\ "author" \in User /\ "reader" \in User
           /\ order \in Seq(Message) /\ Range(order) \subseteq Message
           /\ push \in [User -> Seq(Notices(Range(order)))] /\ offq \in Seq(Notices(Range(order)))
           /\ task \subseteq Tasks(Range(order)) /\ row \in [Message -> Rows]
           /\ inbox \in [User -> Seq(Requests(Range(order)))]
           /\ kind \in [Message -> {"chat", "forward", "file"}] /\ unread \in Nat
<1>1. "author" \in User /\ "reader" \in User
    BY DEF User
<1> QED  BY <1>1, RangeIn, Zenon DEF Known, Typed

\* The rate limit.
LEMMA RefuseKeeps ==
    ASSUME ConversationInv, Refuse
    PROVE  ConversationInv'
<1>0. /\ Known /\ Takes("author", {"send"})
      /\ UNCHANGED <<push, task, order, dedup, offq, unread, row, log>>
    BY Zenon DEF ConversationInv, Refuse, gateway
<1> QED  BY <1>0, AskedKeeps, GatewayTypes, Still, Zenon

\* What a request or a handler is about.
LEMMA AboutTypes ==
    ASSUME NEW K
    PROVE  /\ \A r \in Requests(K) : r.op \in {"recall", "edit", "receipt"} => r.msg \in K
           /\ \A r \in Requests(K) : r.op = "send" => r.msg \in Message /\ r.seq \in Nat
           /\ \A r \in Requests(K) : r.at \in Nat
           /\ \A t \in Tasks(K) : t.op \in {"finish", "recall", "edit"} => t.msg \in K /\ t.by = "author"
           /\ \A t \in Tasks(K) : t.op = "drained" => t.by = "reader" /\ t.list \in Seq(Notices(K))
           /\ \A t \in Tasks(K) : t.op = "queried" => t.by \in User /\ t.list \in Seq(Copies(K))
           /\ \A t \in Tasks(K) : t.live \in {"yes", "no"}
           /\ Copies(K) \subseteq Notices(K)
<1>1. /\ \A r \in Requests(K) : r.op \in {"recall", "edit", "receipt"} => r.msg \in K
      /\ \A r \in Requests(K) : r.op = "send" => r.msg \in Message /\ r.seq \in Nat
      /\ \A r \in Requests(K) : r.at \in Nat
    BY DEF Requests
<1>2. /\ \A t \in Tasks(K) : t.op \in {"finish", "recall", "edit"} => t.msg \in K /\ t.by = "author"
      /\ \A t \in Tasks(K) : t.op = "drained" => t.by = "reader" /\ t.list \in Seq(Notices(K))
      /\ \A t \in Tasks(K) : t.op = "queried" => t.by \in User /\ t.list \in Seq(Copies(K))
      /\ \A t \in Tasks(K) : t.live \in {"yes", "no"}
    BY DEF Tasks
<1>3. Copies(K) \subseteq Notices(K)
    BY DEF Copies, Notices
<1> QED  BY <1>1, <1>2, <1>3

\* handleRecall: the row is there, so it is no new one.
LEMMA HandleRecallKeeps ==
    ASSUME ConversationInv, HandleRecall
    PROVE  ConversationInv'
<1>0. /\ Known /\ "author" \in User /\ Takes("author", {"recall"})
      /\ UNCHANGED <<order, dedup, offq, unread, log>>
    BY Zenon DEF ConversationInv, HandleRecall, User
<1>1. PICK m : m = Head(inbox["author"]).msg
    BY Zenon
<1>2. m \in Range(order) /\ m \in Message
  <2>1. Head(inbox["author"]) \in Requests(Range(order)) /\ Head(inbox["author"]).op \in {"recall"}
      BY <1>0, TakeEffect, Zenon
  <2> QED  BY <1>0, <1>1, <2>1, AboutTypes, GatewayTypes
<1>3. CASE /\ row[m].state = "saved" /\ row' = [row EXCEPT ![m].recalled = "yes"]
           /\ task' = task \cup {Task("author", "recall", m, 0, <<>>)} /\ UNCHANGED push
  <2>1. row' \in [Message -> Rows] /\ QuietRows
      BY Zenon, <1>0, <1>2, <1>3, GatewayTypes DEF Rows, QuietRows
  <2>2. PICK t : t = Task("author", "recall", m, 0, <<>>)
      BY Zenon
  <2>3. t \in Tasks(Range(order)) /\ t.op # "finish" /\ t.op # "queried"
      BY <1>2, <2>2 DEF Task, Tasks
  <2>4. task' \subseteq Tasks(Range(order)) /\ task' = task \cup {t}
      BY <1>0, <1>3, <2>2, <2>3, GatewayTypes, Zenon
  <2>5. Finishing' = Finishing /\ QuietQueries
      BY <2>3, <2>4, QuietTasks, Zenon
  <2> QED  BY <1>0, <1>3, <2>1, <2>4, <2>5, AskedKeeps, GatewayTypes, Still, Zenon
<1>4. CASE TrySend("author", Bare("error")) /\ UNCHANGED <<row, task>>
  <2>1. PICK n : n = Bare("error")
      BY Zenon
  <2>2. n \in Notices(Range(order)) /\ n.cmd # "ack" /\ n.id = Unassigned
      BY <2>1 DEF Bare, Notice, Notices, Texts
  <2>3. /\ push' \in [User -> Seq(Notices(Range(order)))]
        /\ push'["author"] = push["author"] \/ push'["author"] = Append(push["author"], n)
        /\ AcksKept(push["author"], push'["author"])
      BY <1>0, <1>4, <2>1, <2>2, PushEffect, Zenon
  <2>4. QuietPush
      BY <1>0, <2>2, <2>3, QuietPushes, Zenon
  <2> QED  BY <1>0, <1>4, <2>3, <2>4, AskedKeeps, GatewayTypes, Still, Zenon
<1> QED  BY <1>1, <1>3, <1>4, Zenon DEF HandleRecall

\* The notices of a recall and of an edit go to the reader only.
LEMMA TellsReader ==
    ASSUME Known, NEW cmd \in {"recall", "edit"}, NEW m \in Range(order),
           Deliver(Notice(cmd, m, 0, 0, "first"))
    PROVE  /\ push' \in [User -> Seq(Notices(Range(order)))] /\ offq' \in Seq(Notices(Range(order)))
           /\ QuietPush
<1>1. PICK n : n = Notice(cmd, m, 0, 0, "first")
    BY Zenon
<1>2. n \in Notices(Range(order))
    BY <1>1 DEF Notice, Notices, Texts
<1>3. /\ push' \in [User -> Seq(Notices(Range(order)))] /\ offq' \in Seq(Notices(Range(order)))
      /\ push'["author"] = push["author"]
    BY <1>1, <1>2, DeliverEffect, GatewayTypes, Zenon
<1>4. QuietPush
    BY <1>3, QuietPushes, Still, Zenon
<1> QED  BY <1>3, <1>4, Zenon

\* The reader is told of a recall.
LEMMA NotifyRecallKeeps ==
    ASSUME ConversationInv, NEW t \in task, NotifyRecall(t)
    PROVE  ConversationInv'
<1>0. /\ Known /\ t.op = "recall" /\ t.op # "finish" /\ Runs(t, t.op) /\ Ends(t)
      /\ Deliver(Notice("recall", t.msg, 0, 0, "first"))
      /\ UNCHANGED <<order, dedup, unread, row, log>>
  <2>1. t.op = "recall"
      BY Zenon DEF NotifyRecall, Runs
  <2>2. t.op # "finish"
      BY <2>1
  <2> QED  BY <2>1, <2>2, Zenon DEF ConversationInv, NotifyRecall
<1>1. t.msg \in Range(order)
  <2>1. t \in Tasks(Range(order))
      BY <1>0, GatewayTypes, Zenon
  <2> QED  BY <1>0, <2>1, AboutTypes, Zenon
<1>2. /\ push' \in [User -> Seq(Notices(Range(order)))] /\ offq' \in Seq(Notices(Range(order)))
      /\ QuietPush
    BY <1>0, <1>1, TellsReader, Zenon
<1> QED  BY <1>0, <1>2, RunKeeps, GatewayTypes, Still, Zenon

\* handleEdit.
LEMMA HandleEditKeeps ==
    ASSUME ConversationInv, HandleEdit
    PROVE  ConversationInv'
<1>1. PICK m : m = Head(inbox["author"]).msg
    BY Zenon
<1>0. /\ Known /\ "author" \in User /\ Takes("author", {"edit"})
      /\ Deliver(Notice("edit", m, 0, 0, "first"))
      /\ task' = task \cup {Task("author", "edit", m, 0, <<>>)}
      /\ UNCHANGED <<order, dedup, unread, row, log>>
    BY <1>1, Zenon DEF ConversationInv, HandleEdit, User
<1>2. m \in Range(order)
  <2>1. Head(inbox["author"]) \in Requests(Range(order)) /\ Head(inbox["author"]).op \in {"edit"}
      BY <1>0, TakeEffect, Zenon
  <2> QED  BY <1>0, <1>1, <2>1, AboutTypes, Zenon
<1>3. /\ push' \in [User -> Seq(Notices(Range(order)))] /\ offq' \in Seq(Notices(Range(order)))
      /\ QuietPush
    BY <1>0, <1>2, TellsReader, Zenon
<1>4. PICK t : t = Task("author", "edit", m, 0, <<>>)
    BY Zenon
<1>5. t \in Tasks(Range(order)) /\ t.op # "finish" /\ t.op # "queried"
    BY <1>2, <1>4 DEF Task, Tasks
<1>6. task' \subseteq Tasks(Range(order)) /\ task' = task \cup {t}
    BY <1>0, <1>4, <1>5, GatewayTypes, Zenon
<1>7. Finishing' = Finishing /\ QuietQueries
    BY <1>5, <1>6, QuietTasks, Zenon
<1> QED  BY <1>0, <1>3, <1>6, <1>7, AskedKeeps, GatewayTypes, Still, Zenon

\* UpdateMessageContent changes a row that is there.
LEMMA UpdateKeeps ==
    ASSUME ConversationInv, NEW t \in task, UpdateMessageContent(t)
    PROVE  ConversationInv'
<1>0. /\ Known /\ t.op = "edit" /\ t.op # "finish" /\ Runs(t, t.op) /\ Ends(t)
      /\ \/ row[t.msg].state = "saved" /\ row' = [row EXCEPT ![t.msg].text = "edited"] /\ log' = log
         \/ log' = log \cup {<<"unsaved", t.msg>>} /\ row' = row
      /\ UNCHANGED <<push, order, dedup, offq, unread>>
  <2>1. t.op = "edit"
      BY Zenon DEF UpdateMessageContent, Runs
  <2>2. t.op # "finish"
      BY <2>1
  <2> QED  BY <2>1, <2>2, Zenon DEF ConversationInv, UpdateMessageContent, Log
<1>1. t.msg \in Message
  <2>1. t \in Tasks(Range(order)) /\ Range(order) \subseteq Message
      BY <1>0, GatewayTypes, Zenon
  <2>2. t.msg \in Range(order)
      BY <1>0, <2>1, AboutTypes, Zenon
  <2> QED  BY <2>1, <2>2, Zenon
<1>2. row \in [Message -> Rows]
    BY <1>0, GatewayTypes, Zenon
<1>3. row' \in [Message -> Rows] /\ QuietRows
    BY <1>0, <1>1, <1>2 DEF Rows, Texts, QuietRows
<1>4. QuietLog
    BY <1>0 DEF QuietLog
<1> QED  BY <1>0, <1>3, <1>4, RunKeeps, GatewayTypes, Still, Zenon

\* handleOffline drains the queue.
LEMMA HandleOfflineKeeps ==
    ASSUME ConversationInv, HandleOffline
    PROVE  ConversationInv'
<1>0. /\ Known /\ "reader" \in User /\ Takes("reader", {"offline"})
      /\ task' = task \cup {Task("reader", "drained", Unassigned, 0, offq)} /\ offq' = <<>>
      /\ UNCHANGED <<push, order, dedup, unread, row, log>>
    BY Zenon DEF ConversationInv, HandleOffline, User
<1>1. PICK t : t = Task("reader", "drained", Unassigned, 0, offq)
    BY Zenon
<1>2. t \in Tasks(Range(order)) /\ t.op # "finish" /\ t.op # "queried"
  <2>1. offq \in Seq(Notices(Range(order)))
      BY <1>0, GatewayTypes, Zenon
  <2> QED  BY <1>1, <2>1 DEF Task, Tasks
<1>3. task' \subseteq Tasks(Range(order)) /\ task' = task \cup {t}
    BY <1>0, <1>1, <1>2, GatewayTypes, Zenon
<1>4. Finishing' = Finishing /\ QuietQueries
    BY <1>2, <1>3, QuietTasks, Zenon
<1>5. offq' \in Seq(Notices(Range(order)))
    BY <1>0
<1> QED  BY <1>0, <1>3, <1>4, <1>5, AskedKeeps, GatewayTypes, Still, Zenon

\* No more is sent than there is.
LEMMA FitsIn ==
    ASSUME NEW t, NEW S, t.list \in Seq(S), t.live \in {"yes", "no"}, push[t.by] \in Seq(Notices(Range(order)))
    PROVE  /\ Fits(t) \in 0..Len(t.list)
           /\ t.live = "no" => Fits(t) = 0
           /\ Len(push[t.by]) <= Buffer => Len(push[t.by]) + Fits(t) <= Buffer
<1>1. Buffer \in Nat \ {0}
    BY ConversationAssumption DEF ConversationAssumption
<1>2. PICK a, b, p : /\ a = Len(t.list) /\ p = Len(push[t.by])
                     /\ b = IF Full(t.by) THEN 0 ELSE Buffer - p
    BY Zenon
<1>3. a \in Nat /\ b \in Nat /\ p \in Nat /\ (p <= Buffer => p + b <= Buffer)
  <2>1. a \in Nat /\ p \in Nat /\ (Full(t.by) <=> p >= Buffer)
      BY <1>1, <1>2 DEF Full
  <2>2. b = IF p >= Buffer THEN 0 ELSE Buffer - p
      BY <1>2, <2>1, Zenon
  <2> QED  BY <1>1, <2>1, <2>2
<1>4. Min({a, b}) \in 0..a /\ Min({a, b}) <= b
  <2> DEFINE P == {a, b}
  <2>1. P \in SUBSET Nat /\ P # {} /\ a \in P /\ b \in P
      BY <1>3
  <2> HIDE DEF P
  <2>2. \E x \in P : \A y \in P : x <= y
      BY <2>1, LeastExists, Zenon
  <2>3. Min(P) \in P /\ Min(P) <= a /\ Min(P) <= b
      BY Zenon, <2>1, <2>2 DEF Min
  <2> QED  BY <1>3, <2>1, <2>3 DEF P
<1>5. Fits(t) = IF t.live = "no" THEN 0 ELSE Min({a, b})
    BY <1>2, Zenon DEF Fits
<1> QED  BY <1>1, <1>2, <1>3, <1>4, <1>5

\* What was drained goes to the reader, or back into the queue.
LEMMA DeliverOfflineKeeps ==
    ASSUME ConversationInv, NEW t \in task, DeliverOffline(t)
    PROVE  ConversationInv'
<1>1. PICK k : k = Fits(t)
    BY Zenon
<1>0. /\ Known /\ t.op = "drained" /\ t.op # "finish" /\ Runs(t, t.op) /\ Ends(t)
      /\ push' = [push EXCEPT ![t.by] = push[t.by] \o SubSeq(t.list, 1, k)]
      /\ offq' = offq \o SubSeq(t.list, k + 1, Len(t.list))
      /\ UNCHANGED <<order, dedup, unread, row, log>>
  <2>1. t.op = "drained"
      BY Zenon DEF DeliverOffline, Runs
  <2>2. t.op # "finish"
      BY <2>1
  <2> QED  BY <1>1, <2>1, <2>2, Zenon DEF ConversationInv, DeliverOffline
<1>2. /\ t.by = "reader" /\ t.list \in Seq(Notices(Range(order))) /\ t.live \in {"yes", "no"}
      /\ push \in [User -> Seq(Notices(Range(order)))] /\ offq \in Seq(Notices(Range(order)))
  <2>1. t \in Tasks(Range(order))
      BY <1>0, GatewayTypes, Zenon
  <2> QED  BY <1>0, <2>1, AboutTypes, GatewayTypes, Zenon
<1>3. push[t.by] \in Seq(Notices(Range(order)))
    BY <1>2, Each, Zenon
<1>4. k \in 0..Len(t.list)
    BY <1>1, <1>2, <1>3, FitsIn, Zenon
<1>5. SubSeq(t.list, 1, k) \in Seq(Notices(Range(order))) /\ SubSeq(t.list, k + 1, Len(t.list)) \in Seq(Notices(Range(order)))
    BY <1>2, <1>4, Cut, Zenon
<1>6. /\ push[t.by] \o SubSeq(t.list, 1, k) \in Seq(Notices(Range(order)))
      /\ offq' \in Seq(Notices(Range(order)))
    BY <1>0, <1>2, <1>3, <1>5, Joined, Zenon
<1>7. push' \in [User -> Seq(Notices(Range(order)))] /\ push'["author"] = push["author"]
    BY <1>0, <1>2, <1>6 DEF User
<1>8. QuietPush
    BY <1>0, <1>7, QuietPushes, Still, Zenon
<1> QED  BY <1>0, <1>6, <1>7, <1>8, RunKeeps, GatewayTypes, Still, Zenon

\* QueryHistory copies rows that are there.
LEMMA QueryRows ==
    ASSUME Known, NEW before \in Nat, NEW q, q = QueryHistory(before)
    PROVE  /\ q \in Seq(Copies(Range(order)))
           /\ \A i \in DOMAIN q : Over(q[i].id)
<1> DEFINE old == {i \in DOMAIN order : i < before /\ row[order[i]].state = "saved"}
           a == Filter(order, old)
           r == Reverse(a)
<1>1. /\ order \in Seq(Message) /\ Range(order) \subseteq Message /\ row \in [Message -> Rows]
      /\ kind \in [Message -> {"chat", "forward", "file"}]
    BY GatewayTypes, Zenon
<1>2. \A m \in Message : StampOf(m) \in Nat
    BY <1>1, RangeIn
<1>3. q = [i \in 1..Cardinality(old) |-> RowNotice(r[i])]
    BY Zenon DEF QueryHistory
<1>4. old \in SUBSET (DOMAIN order) /\ \A i \in old : row[order[i]].state = "saved"
    OBVIOUS
<1>5. ASSUME NEW m \in Range(order) PROVE RowNotice(m) \in Copies(Range(order)) /\ RowNotice(m).id = m
  <2>1. kind[m] \in {"chat", "forward", "file"} /\ StampOf(m) \in Nat /\ row[m] \in Rows
      BY <1>1, <1>2
  <2>2. (IF row[m].recalled = "yes" THEN "gone" ELSE row[m].text) \in Texts
      BY <2>1 DEF Rows, Texts
  <2>3. \A x \in Texts : Notice(kind[m], m, 0, StampOf(m), x) \in Copies(Range(order))
                         /\ Notice(kind[m], m, 0, StampOf(m), x).id = m
      BY <2>1 DEF Copies, Notice
  <2> QED  BY Zenon, <2>2, <2>3 DEF RowNotice
<1> HIDE DEF old
<1>6. /\ a \in Seq(Message) /\ Cardinality(old) \in Nat /\ Len(a) = Cardinality(old)
      /\ Picked(a, order, old)
    BY Zenon, <1>1, <1>4, FilterPicks
<1>7. PICK f \in [1..Len(a) -> old] : \A k \in 1..Len(a) : a[k] = order[f[k]]
    BY Zenon, <1>6 DEF Picked
<1> HIDE DEF a
<1>8. \A i \in 1..Len(a) : (Len(a) - i) + 1 \in 1..Len(a) /\ r[i] = a[(Len(a) - i) + 1]
    BY Zenon, <1>6, Reversed
<1> HIDE DEF r
<1>9. ASSUME NEW i \in 1..Len(a) PROVE r[i] \in Range(order) /\ row[r[i]].state = "saved"
  <2>1. PICK k \in 1..Len(a) : r[i] = a[k]
      BY Zenon, <1>8
  <2>2. f[k] \in old /\ r[i] = order[f[k]]
      BY Zenon, <1>7, <2>1
  <2> QED  BY Zenon, <1>4, <2>2 DEF Range
<1>10. ASSUME NEW i \in 1..Len(a)
       PROVE  RowNotice(r[i]) \in Copies(Range(order)) /\ Over(RowNotice(r[i]).id)
  <2>1. RowNotice(r[i]) \in Copies(Range(order)) /\ RowNotice(r[i]).id = r[i]
      BY Zenon, <1>5, <1>9
  <2>2. row[r[i]].state # "none"
      BY <1>9
  <2>3. row[RowNotice(r[i]).id].state # "none"
      BY Zenon, <2>1, <2>2
  <2> QED  BY Zenon, <2>1, <2>3 DEF Over
<1>11. q = [i \in 1..Len(a) |-> RowNotice(r[i])]
    BY Zenon, <1>3, <1>6
<1>12. q \in [1..Len(a) -> Copies(Range(order))] /\ \A i \in 1..Len(a) : Over(q[i].id)
  <2>1. \A i \in 1..Len(a) : q[i] = RowNotice(r[i])
      BY <1>11
  <2> QED  BY Zenon, <1>10, <1>11, <2>1
<1>13. q \in Seq(Copies(Range(order))) /\ DOMAIN q = 1..Len(a)
    BY <1>6, <1>12
<1> QED  BY Zenon, <1>12, <1>13

\* handleHistory reads the rows.
LEMMA HandleHistoryKeeps ==
    ASSUME ConversationInv, NEW u \in User, HandleHistory(u)
    PROVE  ConversationInv'
<1>1. PICK q : q = QueryHistory(Head(inbox[u]).at)
    BY Zenon
<1>0. /\ Known /\ Takes(u, {"history"})
      /\ task' = task \cup {Task(u, "queried", Unassigned, 0, q)}
      /\ log' = log \cup {<<"between", t.msg>> : t \in {t \in task : u = "reader" /\ t.op = "edit"}}
      /\ UNCHANGED <<push, order, dedup, offq, unread, row>>
    BY <1>1, Zenon DEF ConversationInv, HandleHistory
<1>2. q \in Seq(Copies(Range(order))) /\ \A i \in DOMAIN q : Over(q[i].id)
  <2>1. Head(inbox[u]) \in Requests(Range(order))
      BY <1>0, TakeEffect, Zenon
  <2>2. Head(inbox[u]).at \in Nat
      BY <2>1, AboutTypes, Zenon
  <2> QED  BY <1>0, <1>1, <2>2, QueryRows, Zenon
<1>3. PICK t : t = Task(u, "queried", Unassigned, 0, q)
    BY Zenon
<1>4. t \in Tasks(Range(order)) /\ t.op = "queried" /\ t.op # "finish" /\ t.list = q
    BY <1>2, <1>3 DEF Task, Tasks
<1>5. task' \subseteq Tasks(Range(order)) /\ task' = task \cup {t}
    BY <1>0, <1>3, <1>4, GatewayTypes, Zenon
<1>6. Finishing' = Finishing
    BY <1>4, <1>5, Zenon DEF Finishing
<1>7. QuietQueries
    BY <1>2, <1>4, <1>5, Zenon DEF QuietQueries
<1>8. QuietLog
    BY <1>0 DEF QuietLog
<1> QED  BY <1>0, <1>5, <1>6, <1>7, <1>8, AskedKeeps, GatewayTypes, Still, Zenon

\* Copies are added to what the connection of the author carries.
LEMMA CopiesAdded ==
    ASSUME Known, NEW t \in task, t.op = "queried", NEW x \in Seq(Notices(Range(order))),
           \A i \in DOMAIN x : /\ x[i].cmd # "ack"
                               /\ x[i].id = Unassigned \/ \E j \in DOMAIN t.list : t.list[j].id = x[i].id,
           push'["author"] = push["author"] \o x
    PROVE  QuietPush
<1>0. PICK p, q : p = push["author"] /\ q = push'["author"]
    BY Zenon
<1>1. p \in Seq(Notices(Range(order))) /\ q = p \o x
    BY <1>0, GatewayTypes, Each, Zenon
<1>2. AcksKept(p, q)
    BY <1>1, AcksMoves, Zenon
<1>3. \A i \in DOMAIN q : (i \in DOMAIN p /\ q[i] = p[i]) \/ \E j \in DOMAIN x : q[i] = x[j]
    BY <1>1, Joined
<1>4. \A i \in DOMAIN q :
          \/ \E j \in DOMAIN p : p[j].id = q[i].id
          \/ Over(q[i].id)
          \/ \E s \in task : s.op = "queried" /\ \E j \in DOMAIN s.list : s.list[j].id = q[i].id
  <2> SUFFICES ASSUME NEW i \in DOMAIN q, NEW j \in DOMAIN x, q[i] = x[j]
               PROVE  Over(q[i].id) \/ \E k \in DOMAIN t.list : t.list[k].id = q[i].id
      BY <1>3, Zenon
  <2> QED  BY Zenon DEF Over
<1> QED  BY <1>0, <1>2, <1>4, Zenon DEF QuietPush

\* The rows go to who asked, then the signal.
LEMMA DeliverHistoryKeeps ==
    ASSUME ConversationInv, NEW t \in task, DeliverHistory(t)
    PROVE  ConversationInv'
<1>1. PICK a : a = SubSeq(t.list, 1, Fits(t))
    BY Zenon
<1>0. /\ Known /\ t.op = "queried" /\ t.op # "finish" /\ Runs(t, t.op) /\ Ends(t)
      /\ \E x \in {<<>>, a, Append(a, Bare("history"))} : push' = [push EXCEPT ![t.by] = push[t.by] \o x]
      /\ UNCHANGED <<order, dedup, offq, unread, row, log>>
  <2>1. t.op = "queried"
      BY Zenon DEF DeliverHistory, Runs
  <2>2. t.op # "finish"
      BY <2>1
  <2>3. Known /\ t \in Tasks(Range(order))
      BY GatewayTypes, Zenon DEF ConversationInv
  <2>4. t.by \in User
      BY <2>1, <2>3, AboutTypes, Zenon
  <2>5. push[t.by] \o <<>> = push[t.by]
    <3>1. push[t.by] \in Seq(Notices(Range(order)))
        BY <2>3, <2>4, GatewayTypes
    <3> QED  BY <3>1
  <2>6. \E x \in {<<>>, a, Append(a, Bare("history"))} : push' = [push EXCEPT ![t.by] = push[t.by] \o x]
      BY <1>1, <2>5, Zenon DEF DeliverHistory
  <2> QED  BY <2>1, <2>2, <2>3, <2>6, Zenon DEF DeliverHistory
<1>2. /\ t.by \in User /\ t.list \in Seq(Copies(Range(order))) /\ t.live \in {"yes", "no"}
      /\ push \in [User -> Seq(Notices(Range(order)))] /\ offq \in Seq(Notices(Range(order)))
      /\ Copies(Range(order)) \subseteq Notices(Range(order))
  <2>1. t \in Tasks(Range(order))
      BY <1>0, GatewayTypes, Zenon
  <2> QED  BY <1>0, <2>1, AboutTypes, GatewayTypes, Zenon
<1>3. push[t.by] \in Seq(Notices(Range(order)))
    BY <1>2
<1>4. Fits(t) \in 0..Len(t.list)
    BY <1>2, <1>3, FitsIn, Zenon
<1>5. a \in Seq(Copies(Range(order))) /\ \A i \in DOMAIN a : i \in DOMAIN t.list /\ a[i] = t.list[i]
    BY <1>1, <1>2, <1>4, Cut, Zenon
<1>6. PICK x \in {<<>>, a, Append(a, Bare("history"))} : push' = [push EXCEPT ![t.by] = push[t.by] \o x]
    BY <1>0, Zenon
<1>7. /\ x \in Seq(Notices(Range(order)))
      /\ \A i \in DOMAIN x : /\ x[i].cmd # "ack"
                             /\ x[i].id = Unassigned \/ \E j \in DOMAIN t.list : t.list[j].id = x[i].id
  <2>1. PICK n : n = Bare("history")
      BY Zenon
  <2>2. n \in Notices(Range(order)) /\ n.cmd # "ack" /\ n.id = Unassigned
      BY <2>1 DEF Bare, Notice, Notices, Texts
  <2>3. a \in Seq(Notices(Range(order))) /\ \A i \in DOMAIN a : a[i].cmd # "ack"
    <3>1. \A c \in Copies(Range(order)) : c.cmd # "ack"
        BY DEF Copies
    <3>2. \A i \in DOMAIN a : a[i] \in Copies(Range(order))
        BY <1>5
    <3>3. a \in Seq(Notices(Range(order)))
        BY <1>2, <1>5
    <3> QED  BY <3>1, <3>2, <3>3, Zenon
  <2>4. CASE x = <<>>
      BY <2>4
  <2>5. CASE x = a
      BY <1>5, <2>3, <2>5, Zenon
  <2>6. CASE x = Append(a, n)
    <3>1. /\ x \in Seq(Notices(Range(order)))
          /\ \A i \in DOMAIN a : x[i] = a[i]
          /\ \A i \in DOMAIN x : i \in DOMAIN a \/ i = Len(a) + 1
          /\ x[Len(a) + 1] = n
        BY <2>2, <2>3, <2>6, Put
    <3> QED  BY <1>5, <2>2, <2>3, <3>1, Zenon
  <2> QED  BY <1>6, <2>1, <2>4, <2>5, <2>6, Zenon
<1>8. push[t.by] \o x \in Seq(Notices(Range(order)))
    BY <1>3, <1>7, Joined, Zenon
<1>9. /\ push' \in [User -> Seq(Notices(Range(order)))]
      /\ t.by = "author" => push'["author"] = push["author"] \o x
      /\ t.by # "author" => push'["author"] = push["author"]
  <2>1. "author" \in User
      BY DEF User
  <2> QED  BY Zenon, <1>2, <1>6, <1>8, <2>1
<1>10. QuietPush
  <2>1. CASE t.by = "author"
      BY <1>0, <1>7, <1>9, <2>1, CopiesAdded, Zenon
  <2>2. CASE t.by # "author"
      BY <1>0, <1>9, <2>2, QuietPushes, Still, Zenon
  <2> QED  BY <2>1, <2>2, Zenon
<1> QED  BY <1>0, <1>2, <1>9, <1>10, RunKeeps, GatewayTypes, Still, Zenon

-----------------------------------------------------------------------------
(* The steps of sending: duplicates, placing and finishing                 *)

\* The request of a message that is about to be handled.
LEMMA SendTaken ==
    ASSUME ConversationInv, Takes("author", {"send"}), NEW r, r = Head(inbox["author"])
    PROVE  /\ r.op = "send" /\ r.msg \in Message /\ r.msg \in Sent \ Range(order) /\ r.seq \in Nat
           /\ UnderWay(r.msg, r.seq)
           /\ r = inbox["author"][1] /\ 1 \in DOMAIN inbox["author"]
           /\ inbox' \in [User -> Seq(Requests(Range(order)))]
           /\ inbox'["author"] = Tail(inbox["author"]) /\ inbox["author"] # <<>>
           /\ SendsKept(inbox["author"], inbox'["author"])
           /\ UNCHANGED <<up, kind, view, load, seqno, asked>>
<1>0. Known /\ Once /\ "author" \in User
    BY Zenon DEF ConversationInv, User
<1>1. /\ inbox' \in [User -> Seq(Requests(Range(order)))]
      /\ r \in Requests(Range(order)) /\ r.op \in {"send"}
      /\ r = inbox["author"][1] /\ 1 \in DOMAIN inbox["author"] /\ inbox["author"] # <<>>
      /\ SendsKept(inbox["author"], inbox'["author"])
      /\ UNCHANGED <<up, kind, view, load, seqno, asked>>
    BY <1>0, TakeEffect, Zenon
<1>2. r.op = "send" /\ r.msg \in Message /\ r.seq \in Nat
    BY <1>1, AboutTypes, Zenon
<1>3. r.msg \in Sent \ Range(order)
    BY <1>0, <1>1, <1>2, Zenon DEF Once
<1>4. UnderWay(r.msg, r.seq)
    BY <1>1, <1>2, Zenon DEF UnderWay
<1>5. inbox'["author"] = Tail(inbox["author"])
  <2>1. inbox' = [inbox EXCEPT !["author"] = Tail(@)] /\ inbox \in [User -> Seq(Requests(Range(order)))]
      BY <1>0, GatewayTypes, Zenon DEF Takes
  <2> QED  BY <1>0, <2>1
<1> QED  BY <1>1, <1>2, <1>3, <1>4, <1>5, Zenon

\* An ACK of a message that was under way may be added.
LEMMA AckAdded ==
    ASSUME Known, NEW n \in Notices(Range(order)), AckFollows(n.seq),
           push'["author"] = push["author"] \/ push'["author"] = Append(push["author"], n)
    PROVE  \A i \in DOMAIN push'["author"] :
               push'["author"][i].cmd = "ack" => AckFollows(push'["author"][i].seq)
<1>0. PICK p, q : p = push["author"] /\ q = push'["author"]
    BY Zenon
<1>1. p \in Seq(Notices(Range(order)))
    BY <1>0, GatewayTypes, Each, Zenon
<1>2. \A i \in DOMAIN p : p[i].cmd = "ack" => AckFollows(p[i].seq)
    BY <1>0, Zenon DEF AckFollows, AckComes
<1>3. CASE q = p
    BY <1>0, <1>2, <1>3, Zenon
<1>4. CASE q = Append(p, n)
  <2>1. \A i \in DOMAIN q : (i \in DOMAIN p /\ q[i] = p[i]) \/ q[i] = n
      BY <1>1, <1>4, Put
  <2> QED  BY <1>0, <1>2, <2>1, Zenon
<1> QED  BY <1>0, <1>3, <1>4, Zenon

\* The author's page stays as it is.
LEMMA PageFollows ==
    ASSUME Matched, \A m : Placed(m) => Placed(m)', view'["author"] = view["author"]
    PROVE  (\A i \in DOMAIN view'["author"] : Follows(view'["author"][i])) /\ Apart(view'["author"])
<1>1. \A i \in DOMAIN view["author"] : Follows(view["author"][i])
    BY BubblesFollow, Zenon
<1> QED  BY <1>1, Zenon DEF Matched

\* The ACK of the message that had the seq before.
LEMMA DuplicateKeeps ==
    ASSUME ConversationInv, Duplicate
    PROVE  ConversationInv'
<1>1. PICK r : r = Head(inbox["author"])
    BY Zenon
<1>0. /\ Known /\ Once /\ Matched /\ ShownInv /\ "author" \in User /\ Takes("author", {"send"})
      /\ r.seq \in DOMAIN dedup /\ TrySend("author", Ack(dedup[r.seq], r.seq))
      /\ log' = log \cup {<<"reused", r.msg>>}
      /\ UNCHANGED <<task, order, dedup, offq, unread, row>>
    BY <1>1, Zenon DEF ConversationInv, Duplicate, Log, User
<1>2. /\ r.msg \in Message /\ r.seq \in Nat /\ UnderWay(r.msg, r.seq)
      /\ inbox' \in [User -> Seq(Requests(Range(order)))]
      /\ SendsKept(inbox["author"], inbox'["author"])
      /\ UNCHANGED <<up, kind, view, load, seqno, asked>>
    BY <1>0, <1>1, SendTaken, Zenon
<1>3. PICK n : n = Ack(dedup[r.seq], r.seq)
    BY Zenon
<1>4. n \in Notices(Range(order)) /\ n.seq = r.seq
  <2>1. dedup[r.seq] \in Range(order) /\ Now \in Nat
      BY <1>0, RangeIn DEF Known, Typed
  <2>2. PICK d, s, R : d = dedup[r.seq] /\ s = r.seq /\ R = Range(order)
      BY Zenon
  <2>3. d \in R /\ s \in Nat /\ n = Ack(d, s) /\ Now \in Nat
      BY <1>2, <1>3, <2>1, <2>2, Zenon
  <2>4. n \in Notices(R) /\ n.seq = s
      BY <2>3 DEF Ack, Notice, Notices, Texts
  <2> QED  BY <2>2, <2>4, Zenon
<1>5. /\ push' \in [User -> Seq(Notices(Range(order)))]
      /\ push'["author"] = push["author"] \/ push'["author"] = Append(push["author"], n)
    BY <1>0, <1>3, <1>4, PushEffect, Zenon
<1>6. Known'
    BY <1>0, <1>2, <1>5, Zenon DEF Known, Typed
<1>7. FinishKept
    BY <1>0, SameFinishing, Zenon DEF Finishing
<1>8. Once' /\ Counts'
  <2>1. OnceKept
      BY <1>0, <1>2, <1>7, Zenon DEF OnceKept, Sent
  <2>2. CountsKept
      BY <1>0, <1>7 DEF CountsKept, FinishKept
  <2> QED  BY <1>0, <1>6, <2>1, <2>2, OnceStays, CountsStay, Zenon DEF ConversationInv
<1>9. Matched'
  <2>1. (\A m : Placed(m) => Placed(m)') /\ Placed(r.msg)'
      BY <1>0, Zenon DEF Placed
  <2>2. AckFollows(n.seq)
      BY <1>2, <1>4, <2>1, Zenon DEF AckFollows
  <2>3. \A i \in DOMAIN push'["author"] : push'["author"][i].cmd = "ack" => AckFollows(push'["author"][i].seq)
      BY <1>0, <1>4, <1>5, <2>2, AckAdded, Zenon
  <2>4. \A t \in Finishing' : t.live = "yes" => UnderWay(t.msg, t.seq)
      BY <1>7, HandlersFollow, Zenon
  <2>5. (\A i \in DOMAIN view'["author"] : Follows(view'["author"][i])) /\ Apart(view'["author"])
      BY <1>0, <1>2, <2>1, PageFollows, Zenon
  <2>6. MatchKept
      BY <1>2, <2>1, <2>3, <2>4, <2>5, Zenon DEF MatchKept
  <2> QED  BY <1>0, <2>6, MatchedStays, Zenon
<1>10. ShownInv'
  <2>1. ~NoneReused'
      BY <1>0, <1>2, Zenon DEF NoneReused
  <2> QED  BY <1>0, <1>2, <2>1, Zenon DEF ShownInv
<1> QED  BY <1>6, <1>8, <1>9, <1>10, Zenon DEF ConversationInv

\* The messages that have a MsgId, with one more.
LEMMA RangeGrows ==
    ASSUME order \in Seq(Message), NEW m \in Message, order' = Append(order, m)
    PROVE  order' \in Seq(Message) /\ Range(order') = Range(order) \cup {m}
<1>1. /\ order' \in Seq(Message) /\ DOMAIN order \subseteq DOMAIN order'
      /\ \A i \in DOMAIN order : order'[i] = order[i]
      /\ \A i \in DOMAIN order' : i \in DOMAIN order \/ i = Len(order) + 1
      /\ order'[Len(order) + 1] = m /\ Len(order) + 1 \in DOMAIN order'
    OBVIOUS
<1> QED  BY <1>1, Zenon DEF Range

\* What Place does to the types.
LEMMA PlaceTypes ==
    ASSUME ConversationInv, Takes("author", {"send"}), NEW r, r = Head(inbox["author"]), Place(r),
           \/ dedup' = dedup
           \/ dedup' = [q \in DOMAIN dedup \cup {r.seq} |-> IF q = r.seq THEN r.msg ELSE dedup[q]]
    PROVE  /\ Known' /\ Range(order') = Range(order) \cup {r.msg}
           /\ push'["author"] = push["author"]
           /\ Task("author", "finish", r.msg, r.seq, <<>>) \in Tasks(Range(order'))
<1>0. /\ Known /\ order' = Append(order, r.msg) /\ Deliver([Original(r.msg) EXCEPT !.at = Now])
      /\ task' = task \cup {Task("author", "finish", r.msg, r.seq, <<>>)}
      /\ UNCHANGED <<unread, row>>
    BY Zenon DEF ConversationInv, Place
<1>1. /\ r.msg \in Message /\ r.seq \in Nat
      /\ inbox' \in [User -> Seq(Requests(Range(order)))]
      /\ UNCHANGED <<up, kind, view, load, seqno, asked>>
    BY SendTaken, Zenon
<1>2. /\ order \in Seq(Message) /\ push \in [User -> Seq(Notices(Range(order)))]
      /\ offq \in Seq(Notices(Range(order))) /\ task \subseteq Tasks(Range(order))
      /\ kind \in [Message -> {"chat", "forward", "file"}]
      /\ view \in [User -> Seq(Bubbles(Range(order)))]
    BY <1>0, GatewayTypes, Zenon DEF Known, Typed
<1>3. PICK K : K = Range(order')
    BY Zenon
<1>4. order' \in Seq(Message) /\ K = Range(order) \cup {r.msg}
    BY <1>0, <1>1, <1>2, <1>3, RangeGrows, Zenon
<1>5. Range(order) \subseteq K /\ r.msg \in K
    BY <1>4, Zenon
<1>6. /\ Seq(Notices(Range(order))) \subseteq Seq(Notices(K)) /\ Tasks(Range(order)) \subseteq Tasks(K)
      /\ Seq(Requests(Range(order))) \subseteq Seq(Requests(K))
      /\ Seq(Bubbles(Range(order))) \subseteq Seq(Bubbles(K))
    BY <1>5, Widens, Zenon
<1>7. /\ push \in [User -> Seq(Notices(K))] /\ offq \in Seq(Notices(K)) /\ task \subseteq Tasks(K)
      /\ inbox' \in [User -> Seq(Requests(K))] /\ view \in [User -> Seq(Bubbles(K))]
    BY <1>1, <1>2, <1>6
<1>8. PICK n : n = [Original(r.msg) EXCEPT !.at = Now]
    BY Zenon
<1>9. n \in Notices(K)
  <2>1. kind[r.msg] \in {"chat", "forward", "file"} /\ Now \in Nat
      BY <1>1, <1>2, RangeIn
  <2>2. n = [cmd |-> kind[r.msg], id |-> r.msg, seq |-> 0, at |-> Now, text |-> "first"]
      BY <1>8 DEF Original, Notice
  <2> QED  BY <1>5, <2>1, <2>2 DEF Notices, Texts
<1>10. /\ push' \in [User -> Seq(Notices(K))] /\ offq' \in Seq(Notices(K))
       /\ push'["author"] = push["author"]
    BY <1>0, <1>7, <1>8, <1>9, DeliverEffect, Zenon
<1>11. Task("author", "finish", r.msg, r.seq, <<>>) \in Tasks(K)
    BY <1>1, <1>5 DEF Task, Tasks
<1>12. task' \subseteq Tasks(K)
    BY <1>0, <1>7, <1>11, Zenon
<1>13. DOMAIN dedup' \subseteq Nat /\ \A q \in DOMAIN dedup' : dedup'[q] \in K
  <2>1. DOMAIN dedup \subseteq Nat /\ \A q \in DOMAIN dedup : dedup[q] \in K
      BY <1>0, <1>5, Zenon DEF Known, Typed
  <2> QED  BY <1>1, <1>5, <2>1
<1>14. /\ unread' \in Nat /\ row' \in [Message -> Rows] /\ up' \in [User -> BOOLEAN]
       /\ kind' \in [Message -> {"chat", "forward", "file"}] /\ seqno' \in Nat
       /\ DOMAIN load' = User /\ \A u \in User : load'[u].before \in Nat
    BY <1>0, <1>1, Zenon DEF Known, Typed
<1>15. Known'
    BY <1>1, <1>3, <1>4, <1>7, <1>10, <1>12, <1>13, <1>14, Zenon DEF Known, Typed
<1> QED  BY <1>3, <1>4, <1>10, <1>11, <1>15, Zenon

\* A message that is placed was sent once, and has no MsgId yet.
LEMMA PlaceOnce ==
    ASSUME ConversationInv, Takes("author", {"send"}), NEW r, r = Head(inbox["author"]),
           Range(order') = Range(order) \cup {r.msg}, UNCHANGED row,
           NEW x, x.op = "finish", x.msg = r.msg, Finishing' = Finishing \cup {x}
    PROVE  Once'
<1>0. Known /\ Once
    BY Zenon DEF ConversationInv
<1>1. /\ r.op = "send" /\ r.msg \in Message /\ r.msg \in Sent \ Range(order)
      /\ r = inbox["author"][1] /\ 1 \in DOMAIN inbox["author"]
      /\ inbox'["author"] = Tail(inbox["author"]) /\ inbox["author"] # <<>>
      /\ UNCHANGED asked
    BY SendTaken, Zenon
<1>2. Sent' = Sent
    BY <1>1, Zenon DEF Sent
<1>3. PICK s, t : s = inbox["author"] /\ t = inbox'["author"]
    BY Zenon
<1>4. s \in Seq(Requests(Range(order))) /\ s # <<>> /\ t = Tail(s)
    BY <1>0, <1>1, <1>3, GatewayTypes, Each, Zenon
<1>5. /\ DOMAIN t \subseteq Nat \ {0}
      /\ \A i \in DOMAIN t : i + 1 \in DOMAIN s /\ t[i] = s[i + 1] /\ i + 1 # 1
      /\ \A i, j \in DOMAIN t : i # j => i + 1 # j + 1
  <2>1. Tail(s) \in Seq(Requests(Range(order)))
        /\ \A i \in DOMAIN Tail(s) : i + 1 \in DOMAIN s /\ Tail(s)[i] = s[i + 1]
      BY <1>4, Taken
  <2>2. DOMAIN t \subseteq Nat \ {0}
      BY <1>4, <2>1
  <2> QED  BY <1>4, <2>1, <2>2
<1>6. /\ \A i \in DOMAIN s : s[i].op = "send" => s[i].msg \in Sent \ Range(order)
      /\ \A i, j \in DOMAIN s : (i # j /\ s[i].op = "send" /\ s[j].op = "send") => s[i].msg # s[j].msg
      /\ 1 \in DOMAIN s /\ s[1] = r
    BY <1>0, <1>1, <1>3, Zenon DEF Once
<1>7. \A i \in DOMAIN t : t[i].op = "send" => t[i].msg \in Sent \ Range(order')
    BY <1>1, <1>5, <1>6, Zenon
<1>8. \A i, j \in DOMAIN t : (i # j /\ t[i].op = "send" /\ t[j].op = "send") => t[i].msg # t[j].msg
  <2> SUFFICES ASSUME NEW i \in DOMAIN t, NEW j \in DOMAIN t, i # j, t[i].op = "send", t[j].op = "send"
               PROVE  t[i].msg # t[j].msg
      BY Zenon
  <2>1. i + 1 \in DOMAIN s /\ j + 1 \in DOMAIN s /\ i + 1 # j + 1 /\ t[i] = s[i + 1] /\ t[j] = s[j + 1]
      BY <1>5, Zenon
  <2> QED  BY <1>6, <2>1, Zenon
<1>9. row[r.msg].state = "none"
    BY <1>0, <1>1, Zenon DEF Once
<1>10. \A f, g \in Finishing' : f.msg = g.msg => f = g
  <2>1. \A f \in Finishing : f.msg # x.msg
      BY <1>0, <1>1, FinishingTypes, Zenon
  <2>2. \A f, g \in Finishing : f.msg = g.msg => f = g
      BY <1>0, Zenon DEF Once
  <2> QED  BY <2>1, <2>2, Zenon
<1>11. \A f \in Finishing' : row'[f.msg].state = "none"
    BY <1>0, <1>9, Zenon DEF Once
<1>12. \A m \in Message : row'[m].state # "none" => m \in Range(order')
    BY <1>0, Zenon DEF Once
<1>13. (\E k \in 0..Written : Sent' = 1..k) /\ Range(order') \subseteq Sent'
    BY <1>0, <1>1, <1>2, Zenon DEF Once
<1>14. /\ \A i \in DOMAIN inbox'["author"] :
              inbox'["author"][i].op = "send" => inbox'["author"][i].msg \in Sent' \ Range(order')
       /\ \A i, j \in DOMAIN inbox'["author"] :
              (i # j /\ inbox'["author"][i].op = "send" /\ inbox'["author"][j].op = "send") =>
              inbox'["author"][i].msg # inbox'["author"][j].msg
    BY <1>2, <1>3, <1>7, <1>8, Zenon
<1> QED  BY <1>10, <1>11, <1>12, <1>13, <1>14, Zenon DEF Once

\* A message that is placed is not counted yet.
LEMMA PlaceCounts ==
    ASSUME ConversationInv, NEW m \in Message, m \notin Range(order),
           Range(order') = Range(order) \cup {m}, UNCHANGED <<unread, log>>,
           NEW x, x.msg = m, Finishing' = Finishing \cup {x}
    PROVE  Counts'
<1>0. Known /\ Counts
    BY Zenon DEF ConversationInv
<1>1. Pending' = Pending \cup {m}
    BY Zenon DEF Pending
<1>2. Counted' = Counted
    BY <1>1, Zenon DEF Counted
<1>3. \A k \in Pending' : <<"read", k>> \in log' => <<"uncounted", k>> \in log'
    BY <1>0, <1>1, Zenon DEF Counts
<1>4. unread' <= Cardinality(Counted') /\ \A k \in Message : <<"read", k>> \in log' => k \in Range(order')
    BY <1>0, <1>2, Zenon DEF Counts
<1> QED  BY <1>3, <1>4, Zenon DEF Counts

\* handleChat and handleForward give a message its MsgId.
LEMMA PlaceKeeps ==
    ASSUME ConversationInv, HandleChat \/ HandleForward
    PROVE  ConversationInv'
<1>1. PICK r : r = Head(inbox["author"])
    BY Zenon
<1>0. /\ Known /\ Matched /\ ShownInv /\ Takes("author", {"send"}) /\ Place(r)
      /\ \/ dedup' = dedup
         \/ dedup' = [q \in DOMAIN dedup \cup {r.seq} |-> IF q = r.seq THEN r.msg ELSE dedup[q]]
    BY <1>1, Zenon DEF ConversationInv, HandleChat, HandleForward
<1>2. /\ r.msg \in Message /\ r.msg \notin Range(order) /\ UnderWay(r.msg, r.seq)
      /\ SendsKept(inbox["author"], inbox'["author"])
      /\ UNCHANGED <<view, seqno>>
    BY <1>0, <1>1, SendTaken, Zenon
<1>3. PICK x : x = Task("author", "finish", r.msg, r.seq, <<>>)
    BY Zenon
<1>4. x.op = "finish" /\ x.op # "queried" /\ x.msg = r.msg /\ x.seq = r.seq
    BY <1>3 DEF Task
<1>5. task' = task \cup {x} /\ UNCHANGED <<unread, row, log>>
    BY <1>0, <1>3, Zenon DEF Place
<1>6. /\ Known' /\ Range(order') = Range(order) \cup {r.msg} /\ push'["author"] = push["author"]
    BY <1>0, <1>1, PlaceTypes, Zenon
<1>7. Finishing' = Finishing \cup {x}
    BY <1>4, <1>5, Zenon DEF Finishing
<1>8. Once'
    BY <1>0, <1>1, <1>4, <1>5, <1>6, <1>7, PlaceOnce, Zenon
<1>9. Counts'
    BY <1>2, <1>4, <1>5, <1>6, <1>7, PlaceCounts, Zenon
<1>10. AcksKept(push["author"], push'["author"])
    BY <1>0, <1>6, Still, Zenon
<1>11. Matched'
  <2>1. \A m : Placed(m) => Placed(m)'
      BY <1>5, <1>6, Zenon DEF Placed
  <2>2. \A i \in DOMAIN push'["author"] : push'["author"][i].cmd = "ack" => AckFollows(push'["author"][i].seq)
      BY <1>6, <1>10, AcksFollow, Zenon
  <2>3. \A t \in Finishing' : t.live = "yes" => UnderWay(t.msg, t.seq)
      BY <1>2, <1>4, <1>7, Zenon DEF UnderWay
  <2>4. (\A i \in DOMAIN view'["author"] : Follows(view'["author"][i])) /\ Apart(view'["author"])
      BY <1>0, <1>2, <2>1, PageFollows, Zenon
  <2>5. MatchKept
      BY <1>2, <2>1, <2>2, <2>3, <2>4, Zenon DEF MatchKept
  <2> QED  BY <1>0, <2>5, MatchedStays, Zenon
<1>12. ShownInv'
  <2>1. ShownKept
      BY <1>2, <1>4, <1>5, <1>6, <1>10, Zenon DEF ShownKept, NoneReused
  <2>2. NoneReused' => AcksAreNew'
      BY <1>0, <1>6, <2>1, AcksStayNew, Zenon DEF ShownInv, ShownKept
  <2> QED  BY <1>0, <1>2, <2>2, Zenon DEF ShownInv
<1> QED  BY <1>6, <1>8, <1>9, <1>11, <1>12, Zenon DEF ConversationInv

\* The handler that ends was the only one of its message.
LEMMA FinishOnce ==
    ASSUME ConversationInv, NEW t \in Finishing, Finishing' = Finishing \ {t},
           UNCHANGED <<order, inbox, asked>>, row' = [row EXCEPT ![t.msg].state = "queued"]
    PROVE  /\ Once' /\ row' \in [Message -> Rows] /\ Pending' = Pending \ {t.msg}
           /\ \A m \in Message : m # t.msg => row'[m] = row[m]
           /\ row[t.msg].state = "none" /\ row'[t.msg].state = "queued"
<1>0. Known /\ Once /\ row \in [Message -> Rows]
    BY Zenon DEF ConversationInv, Known, Typed
<1>1. t.msg \in Message /\ t.msg \in Range(order) /\ row[t.msg].state = "none"
      /\ \A f \in Finishing : f.msg \in Message
    BY <1>0, FinishingTypes, Zenon DEF Once
<1>2. /\ row' \in [Message -> Rows] /\ \A m \in Message : m # t.msg => row'[m] = row[m]
      /\ row'[t.msg].state = "queued"
    BY <1>0, <1>1 DEF Rows
<1>3. \A f, g \in Finishing : f.msg = g.msg => f = g
    BY <1>0, Zenon DEF Once
<1>4. \A f \in Finishing' : f \in Finishing /\ f.msg # t.msg
    BY <1>3, Zenon
<1>5. Pending' = Pending \ {t.msg}
  <2>1. Pending' \subseteq Pending \ {t.msg}
      BY <1>4, Zenon DEF Pending
  <2>2. Pending \ {t.msg} \subseteq Pending'
    <3> SUFFICES ASSUME NEW m \in Pending, m # t.msg PROVE m \in Pending'
        BY Zenon
    <3>1. PICK f \in Finishing : f.msg = m
        BY Zenon DEF Pending
    <3>2. f \in Finishing'
        BY <3>1, Zenon
    <3> QED  BY <3>1, <3>2, Zenon DEF Pending
  <2> QED  BY <2>1, <2>2, Zenon
<1>6. Once'
  <2>1. \A f \in Finishing' : row'[f.msg].state = "none"
      BY <1>0, <1>1, <1>2, <1>4, Zenon DEF Once
  <2>2. \A m \in Message : row'[m].state # "none" => m \in Range(order')
      BY <1>0, <1>1, <1>2, Zenon DEF Once
  <2>3. \A f, g \in Finishing' : f.msg = g.msg => f = g
      BY <1>3, <1>4, Zenon
  <2>4. Sent' = Sent
      BY Zenon DEF Sent
  <2> QED  BY <1>0, <2>1, <2>2, <2>3, <2>4, Zenon DEF Once
<1> QED  BY <1>1, <1>2, <1>5, <1>6, Zenon

\* The messages that have a MsgId, and those the count may have counted, are finitely many.
LEMMA CountedFinite ==
    ASSUME Known
    PROVE  IsFiniteSet(Counted) /\ Cardinality(Counted) \in Nat
<1>1. IsFiniteSet(Message)
    BY ConversationAssumption, FS_Interval DEF ConversationAssumption, Message
<1>2. Counted \in SUBSET Message
    BY GatewayTypes, Zenon DEF Counted
<1>3. IsFiniteSet(Counted)
    BY <1>1, <1>2, FS_Subset, Zenon
<1> QED  BY <1>3, FS_CardinalityType, Zenon

\* Increment counts the message that can be counted from now on.
LEMMA FinishCounts ==
    ASSUME ConversationInv, NEW m \in Pending, Pending' = Pending \ {m},
           UNCHANGED <<order, log>>, unread' = unread + 1
    PROVE  Counts'
<1>0. Known /\ Counts /\ unread \in Nat
    BY GatewayTypes, Zenon DEF ConversationInv
<1>1. m \in Range(order) /\ m \notin Counted
    BY <1>0, FinishingTypes, Zenon DEF Pending, Counted
<1>2. <<"read", m>> \in log => <<"uncounted", m>> \in log
    BY <1>0, Zenon DEF Counts
<1>3. Counted' = Counted \cup {m}
    BY <1>1, <1>2 DEF Counted
<1>4. IsFiniteSet(Counted) /\ Cardinality(Counted) \in Nat
    BY <1>0, CountedFinite, Zenon
<1>5. Cardinality(Counted') = Cardinality(Counted) + 1
    BY <1>1, <1>3, <1>4, FS_AddElement, Zenon
<1>6. unread <= Cardinality(Counted)
    BY <1>0, Zenon DEF Counts
<1>7. unread' <= Cardinality(Counted')
  <2>1. \A a, b \in Nat : a <= b => a + 1 <= b + 1
      OBVIOUS
  <2> QED  BY <1>0, <1>4, <1>5, <1>6, <2>1, Zenon
<1>8. /\ \A k \in Message : <<"read", k>> \in log' => k \in Range(order')
      /\ \A k \in Pending' : <<"read", k>> \in log' => <<"uncounted", k>> \in log'
    BY <1>0, Zenon DEF Counts
<1> QED  BY <1>7, <1>8, Zenon DEF Counts

\* The ACK of a message whose handler finishes is the first notice with its id.
LEMMA FinishShown ==
    ASSUME Known, AcksAreNew, NEW m \in Message, row[m].state = "none", row'[m].state = "queued",
           \A k \in Message : k # m => row'[k] = row[k],
           NEW n \in Notices(Range(order)), n.cmd = "ack", n.id = m,
           push'["author"] = push["author"] \/ push'["author"] = Append(push["author"], n),
           UNCHANGED <<order, view>>, task' \subseteq task
    PROVE  AcksAreNew'
<1>0. PICK p, q, v : p = push["author"] /\ q = push'["author"] /\ v = view["author"]
    BY Zenon
<1>1. /\ Range(order) \in SUBSET Message /\ Unassigned \notin Message
      /\ p \in Seq(Notices(Range(order))) /\ v \in Seq(Bubbles(Range(order)))
  <2>1. order \in Seq(Message) /\ push \in [User -> Seq(Notices(Range(order)))]
        /\ view \in [User -> Seq(Bubbles(Range(order)))]
      BY Zenon DEF Known, Typed
  <2>2. Range(order) \subseteq Message /\ Unassigned \notin Message
      BY <2>1, RangeIn
  <2> QED  BY <1>0, <2>1, <2>2, Each, Zenon
<1>2. /\ \A i \in DOMAIN p : p[i].id \in Message \cup {Unassigned}
      /\ \A i \in DOMAIN v : v[i].id \in Message \cup {Unassigned}
  <2>1. (\A i \in DOMAIN p : p[i] \in Notices(Range(order))) /\ (\A i \in DOMAIN v : v[i] \in Bubbles(Range(order)))
      BY <1>1
  <2> QED  BY <1>1, <2>1, IdTypes, Zenon
<1>3. \A t \in task : \A i \in DOMAIN t.list : t.list[i].id \in Message \cup {Unassigned}
    BY <1>1, IdTypes, Zenon DEF Known, Typed
<1>4. /\ \A k \in Message \cup {Unassigned} : Over(k) => Over(k)' /\ k # m
      /\ Over(m)'
  <2>1. row'[m].state # "none" /\ ~(row[m].state # "none")
      OBVIOUS
  <2> QED  BY <1>1, <2>1, Zenon DEF Over
<1>5. /\ Distinct(v) /\ \A i \in DOMAIN v : Over(v[i].id)
      /\ \A i \in DOMAIN p : Over(p[i].id)
      /\ \A t \in task : t.op = "queried" => \A i \in DOMAIN t.list : Over(t.list[i].id)
    BY <1>0, Zenon DEF AcksAreNew
<1>6. \A i \in DOMAIN p : p[i].cmd = "ack" => /\ \A j \in DOMAIN v : v[j].id # p[i].id
                                              /\ \A j \in 1..(i - 1) : p[j].id # p[i].id
    BY <1>0, Zenon DEF AcksAreNew
<1>7. \A i \in DOMAIN q : \/ i \in DOMAIN p /\ q[i] = p[i] /\ \A j \in 1..(i - 1) : q[j] = p[j]
                          \/ q[i] = n /\ \A j \in 1..(i - 1) : j \in DOMAIN p /\ q[j] = p[j]
  <2>1. CASE q = p
      BY <2>1, Zenon
  <2>2. CASE q = Append(p, n)
    <3>1. /\ \A i \in DOMAIN p : q[i] = p[i] /\ \A j \in 1..(i - 1) : j \in DOMAIN p
          /\ \A i \in DOMAIN q : i \in DOMAIN p \/ i = Len(p) + 1
          /\ q[Len(p) + 1] = n /\ \A j \in 1..((Len(p) + 1) - 1) : j \in DOMAIN p
        BY <1>1, <2>2
    <3> QED  BY <3>1, Zenon
  <2> QED  BY <1>0, <2>1, <2>2, Zenon
<1>8. \A i \in DOMAIN q : Over(q[i].id)'
    BY <1>2, <1>4, <1>5, <1>7, Zenon
<1>9. \A i \in DOMAIN v : Over(v[i].id)'
    BY <1>2, <1>4, <1>5, Zenon
<1>10. \A t \in task' : t.op = "queried" => \A i \in DOMAIN t.list : Over(t.list[i].id)'
    BY <1>3, <1>4, <1>5, Zenon
<1>11. ASSUME NEW i \in DOMAIN q, q[i].cmd = "ack"
       PROVE  (\A j \in DOMAIN v : v[j].id # q[i].id) /\ (\A j \in 1..(i - 1) : q[j].id # q[i].id)
  <2>1. CASE i \in DOMAIN p /\ q[i] = p[i] /\ \A j \in 1..(i - 1) : q[j] = p[j]
      BY <1>6, <1>11, <2>1, Zenon
  <2>2. CASE q[i] = n /\ \A j \in 1..(i - 1) : j \in DOMAIN p /\ q[j] = p[j]
      BY <1>2, <1>4, <1>5, <2>2, Zenon
  <2> QED  BY <1>7, <2>1, <2>2, Zenon
<1>12. (\A i \in DOMAIN push["author"] : push["author"][i].cmd = "ack" =>
          /\ \A j \in DOMAIN view["author"] : view["author"][j].id # push["author"][i].id
          /\ \A j \in 1..(i - 1) : push["author"][j].id # push["author"][i].id)'
    BY <1>0, <1>11, Zenon
<1>13. /\ Distinct(view["author"])' /\ (\A i \in DOMAIN view["author"] : Over(view["author"][i].id))'
       /\ (\A i \in DOMAIN push["author"] : Over(push["author"][i].id))'
       /\ (\A t \in task : t.op = "queried" => \A i \in DOMAIN t.list : Over(t.list[i].id))'
    BY <1>0, <1>5, <1>8, <1>9, <1>10, Zenon DEF Distinct, Over
<1> QED  BY <1>12, <1>13, Zenon DEF AcksAreNew

\* The end of handleChat and handleForward.
LEMMA FinishSendKeeps ==
    ASSUME ConversationInv, NEW t \in task, FinishSend(t)
    PROVE  ConversationInv'
<1>0. /\ Known /\ Matched /\ ShownInv /\ t.op = "finish" /\ unread' = unread + 1
      /\ (t.live = "yes" /\ TrySend(t.by, Ack(t.msg, t.seq))) \/ push' = push
      /\ row' = [row EXCEPT ![t.msg].state = "queued"] /\ task' = task \ {t}
      /\ UNCHANGED <<up, inbox, kind, view, load, seqno, asked, order, dedup, offq, log>>
    BY Zenon DEF ConversationInv, FinishSend, Runs, clients, Increment, Answer, Ends
<1>1. t \in Finishing /\ Finishing' = Finishing \ {t}
    BY <1>0, Zenon DEF Finishing
<1>2. t.by = "author" /\ t.msg \in Range(order) /\ t.msg \in Message /\ t.seq \in Nat /\ "author" \in User
    BY <1>0, <1>1, FinishingTypes, GatewayTypes, Zenon
<1>3. /\ Once' /\ row' \in [Message -> Rows] /\ Pending' = Pending \ {t.msg}
      /\ \A m \in Message : m # t.msg => row'[m] = row[m]
      /\ row[t.msg].state = "none" /\ row'[t.msg].state = "queued"
    BY <1>0, <1>1, FinishOnce, Zenon
<1>4. PICK n : n = Ack(t.msg, t.seq)
    BY Zenon
<1>5. n \in Notices(Range(order)) /\ n.cmd = "ack" /\ n.id = t.msg /\ n.seq = t.seq
  <2>1. Now \in Nat
      BY <1>0, RangeIn DEF Known, Typed
  <2> QED  BY <1>2, <1>4, <2>1 DEF Ack, Notice, Notices, Texts
<1>6. /\ push' \in [User -> Seq(Notices(Range(order)))]
      /\ push'["author"] = push["author"] \/ (t.live = "yes" /\ push'["author"] = Append(push["author"], n))
    BY <1>0, <1>2, <1>4, <1>5, PushEffect, GatewayTypes, Zenon
<1>7. Known'
  <2>1. unread' \in Nat
      BY <1>0, GatewayTypes
  <2>2. task' \subseteq Tasks(Range(order))
      BY <1>0, GatewayTypes, Zenon
  <2> QED  BY <1>0, <1>3, <1>6, <2>1, <2>2, Zenon DEF Known, Typed
<1>8. Counts'
  <2>1. t.msg \in Pending
      BY <1>1, Zenon DEF Pending
  <2> QED  BY <1>0, <1>3, <2>1, FinishCounts, Zenon
<1>9. Matched'
  <2>1. \A m : Placed(m) => Placed(m)'
      BY <1>0, Zenon DEF Placed
  <2>2. \A i \in DOMAIN push'["author"] : push'["author"][i].cmd = "ack" => AckFollows(push'["author"][i].seq)
    <3>1. CASE push'["author"] = push["author"]
        BY <3>1, Zenon DEF AckFollows, AckComes
    <3>2. CASE t.live = "yes" /\ push'["author"] = Append(push["author"], n)
      <4>1. UnderWay(t.msg, t.seq) /\ Placed(t.msg)'
          BY <1>0, <1>1, <1>2, <3>2, Zenon DEF UnderWay, Placed
      <4>2. AckFollows(n.seq)
          BY <1>5, <4>1, Zenon DEF AckFollows
      <4> QED  BY <1>0, <1>5, <3>2, <4>2, AckAdded, Zenon
    <3> QED  BY <1>6, <3>1, <3>2, Zenon
  <2>3. \A f \in Finishing' : f.live = "yes" => UnderWay(f.msg, f.seq)
      BY <1>1, Zenon DEF UnderWay
  <2>4. (\A i \in DOMAIN view'["author"] : Follows(view'["author"][i])) /\ Apart(view'["author"])
      BY <1>0, <2>1, PageFollows, Zenon
  <2>5. MatchKept
      BY <1>0, <2>1, <2>2, <2>3, <2>4, Still, Zenon DEF MatchKept
  <2> QED  BY <1>0, <2>5, MatchedStays, Zenon
<1>10. ShownInv'
  <2>1. task' \subseteq task
      BY <1>0, Zenon
  <2>2. AcksAreNew => AcksAreNew'
      BY <1>0, <1>2, <1>3, <1>5, <1>6, <2>1, FinishShown, Zenon
  <2> QED  BY <1>0, <2>2, Zenon DEF ShownInv, NoneReused
<1> QED  BY <1>3, <1>7, <1>8, <1>9, <1>10, Zenon DEF ConversationInv

=============================================================================
