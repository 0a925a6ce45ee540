------------------------- MODULE ConversationProofs -------------------------
(***************************************************************************)
(* Conversation for any number of messages and any size of the buffers:    *)
(* the steps that write, confirm or read a message, or lose a connection   *)
(* or a page, keep ConversationInv as well, and the properties follow.     *)
(***************************************************************************)
EXTENDS ConversationSteps

-----------------------------------------------------------------------------
(* What the author's page takes in                                         *)

\* A notice is taken and its id may now stand in the page.
LEMMA TakenShown ==
    ASSUME Known, Known', AcksAreNew, push["author"] # <<>>, push'["author"] = Tail(push["author"]),
           UNCHANGED <<row, task>>, Distinct(view'["author"]),
           \A i \in DOMAIN view'["author"] :
              \/ view'["author"][i].id = push["author"][1].id
              \/ \E j \in DOMAIN view["author"] : view["author"][j].id = view'["author"][i].id
    PROVE  AcksAreNew'
<1>0. PICK p, q, v, w : p = push["author"] /\ q = push'["author"] /\ v = view["author"] /\ w = view'["author"]
    BY Zenon
<1>1. p \in Seq(Notices(Range(order)))
    BY <1>0, GatewayTypes, Each, Zenon
<1>2. /\ 1 \in DOMAIN p /\ DOMAIN q \subseteq Nat \ {0}
      /\ \A i \in DOMAIN q : i + 1 \in DOMAIN p /\ q[i] = p[i + 1] /\ 1 \in 1..((i + 1) - 1)
      /\ \A i \in DOMAIN q : \A j \in 1..(i - 1) : j \in DOMAIN q /\ j + 1 \in 1..((i + 1) - 1)
  <2>1. p # <<>> /\ q = Tail(p)
      BY <1>0, Zenon
  <2>2. 1 \in DOMAIN p /\ \A i \in DOMAIN q : i + 1 \in DOMAIN p /\ q[i] = p[i + 1]
      BY <1>1, <2>1, Taken
  <2>3. DOMAIN q = 1..Len(q) /\ Len(q) \in Nat
      BY <1>1, <2>1
  <2> QED  BY <2>2, <2>3
<1>3. /\ \A i \in DOMAIN v : Over(v[i].id)
      /\ \A i \in DOMAIN p : Over(p[i].id)
      /\ \A t \in task : t.op = "queried" => \A i \in DOMAIN t.list : Over(t.list[i].id)
      /\ \A i \in DOMAIN p : p[i].cmd = "ack" => /\ \A j \in DOMAIN v : v[j].id # p[i].id
                                                 /\ \A j \in 1..(i - 1) : p[j].id # p[i].id
    BY <1>0, Zenon DEF AcksAreNew
<1>4. /\ Distinct(w)
      /\ \A i \in DOMAIN w : w[i].id = p[1].id \/ \E j \in DOMAIN v : v[j].id = w[i].id
    BY <1>0, Zenon
<1>5. /\ \A i \in DOMAIN w : Over(w[i].id)
      /\ \A i \in DOMAIN q : Over(q[i].id)
  <2>1. \A i \in DOMAIN q : \E j \in DOMAIN p : q[i] = p[j]
      BY <1>2, Zenon
  <2>2. \A i \in DOMAIN w : Over(w[i].id)
      BY <1>2, <1>3, <1>4, Zenon
  <2>3. \A i \in DOMAIN q : Over(q[i].id)
      BY <1>3, <2>1, Zenon
  <2> QED  BY <2>2, <2>3
<1>6. ASSUME NEW i \in DOMAIN q, q[i].cmd = "ack"
      PROVE  (\A j \in DOMAIN w : w[j].id # q[i].id) /\ (\A j \in 1..(i - 1) : q[j].id # q[i].id)
  <2>1. /\ i + 1 \in DOMAIN p /\ q[i] = p[i + 1] /\ 1 \in 1..((i + 1) - 1)
        /\ \A j \in 1..(i - 1) : j + 1 \in 1..((i + 1) - 1) /\ q[j] = p[j + 1]
      BY <1>2, Zenon
  <2>2. /\ \A j \in DOMAIN v : v[j].id # q[i].id
        /\ \A j \in 1..((i + 1) - 1) : p[j].id # q[i].id
      BY <1>3, <1>6, <2>1, Zenon
  <2>3. \A j \in DOMAIN w : w[j].id # q[i].id
      BY <1>4, <2>1, <2>2, Zenon
  <2>4. \A j \in 1..(i - 1) : q[j].id # q[i].id
      BY <2>1, <2>2, Zenon
  <2> QED  BY <2>3, <2>4
<1>7. (\A i \in DOMAIN push["author"] : push["author"][i].cmd = "ack" =>
          /\ \A j \in DOMAIN view["author"] : view["author"][j].id # push["author"][i].id
          /\ \A j \in 1..(i - 1) : push["author"][j].id # push["author"][i].id)'
    BY <1>0, <1>6, Zenon
<1>8. /\ Distinct(view["author"])' /\ (\A i \in DOMAIN view["author"] : Over(view["author"][i].id))'
      /\ (\A i \in DOMAIN push["author"] : Over(push["author"][i].id))'
      /\ (\A t \in task : t.op = "queried" => \A i \in DOMAIN t.list : Over(t.list[i].id))'
    BY <1>0, <1>3, <1>4, <1>5, Zenon DEF Distinct, Over
<1> QED  BY <1>7, <1>8, Zenon DEF AcksAreNew

\* The bubbles after an ACK.
LEMMA ConfirmedApart ==
    ASSUME NEW v, NEW w, NEW seq, NEW id, Confirmed(v, w, seq, id), Apart(v)
    PROVE  /\ Apart(w)
           /\ (Distinct(v) /\ \A j \in DOMAIN v : v[j].id # id) => Distinct(w)
<1>1. /\ DOMAIN w = DOMAIN v
      /\ \A i \in DOMAIN v :
            \/ w[i] = v[i]
            \/ /\ v[i].seq = seq /\ v[i].status = "sending"
               /\ w[i].id = id /\ w[i].status = "sent"
    BY Zenon DEF Confirmed
<1>2. Apart(w)
  <2>1. \A i \in DOMAIN w : i \in DOMAIN v /\ (w[i].status = "sending" => w[i] = v[i])
      BY <1>1
  <2> SUFFICES ASSUME NEW i \in DOMAIN w, NEW j \in DOMAIN w, i # j,
                      w[i].status = "sending", w[j].status = "sending"
               PROVE  w[i].seq # w[j].seq
      BY Zenon DEF Apart
  <2>2. i \in DOMAIN v /\ w[i] = v[i] /\ j \in DOMAIN v /\ w[j] = v[j]
      BY <2>1, Zenon
  <2> QED  BY <2>2, Zenon DEF Apart
<1>3. ASSUME Distinct(v), \A j \in DOMAIN v : v[j].id # id,
             NEW i \in DOMAIN w, NEW j \in DOMAIN w, i # j, w[i].id = w[j].id
      PROVE  w[i].id = Unassigned
  <2>1. CASE w[i] = v[i] /\ w[j] = v[j]
      BY <1>1, <1>3, <2>1, Zenon DEF Distinct
  <2>2. CASE w[i] = v[i] /\ w[j].id = id
      BY <1>1, <1>3, <2>2, Zenon
  <2>3. CASE w[j] = v[j] /\ w[i].id = id
      BY <1>1, <1>3, <2>3, Zenon
  <2>4. CASE v[i].seq = seq /\ v[i].status = "sending" /\ v[j].seq = seq /\ v[j].status = "sending"
    <3>1. i \in DOMAIN v /\ j \in DOMAIN v
        BY <1>1, Zenon
    <3>2. v[i].seq # v[j].seq
        BY <1>3, <2>4, <3>1, Zenon DEF Apart
    <3> QED  BY <2>4, <3>2, Zenon
  <2> QED  BY <1>1, <2>1, <2>2, <2>3, <2>4, Zenon
<1>4. (Distinct(v) /\ \A j \in DOMAIN v : v[j].id # id) => Distinct(w)
    BY <1>3, Zenon DEF Distinct
<1> QED  BY <1>2, <1>4

\* A page step that changes only what the author's page shows.
LEMMA AuthorSees ==
    ASSUME ConversationInv, NEW cmds, Receives("author", cmds), UNCHANGED <<inbox, load, log>>,
           NEW w \in Seq(Bubbles(Range(order))), view' = [view EXCEPT !["author"] = w],
           \A i \in DOMAIN w : Follows(w[i]), Apart(w),
           AcksAreNew => Distinct(w),
           \A i \in DOMAIN w : \/ w[i].id = push["author"][1].id
                               \/ \E j \in DOMAIN view["author"] : view["author"][j].id = w[i].id
    PROVE  ConversationInv'
<1>0. Known /\ Once /\ Matched /\ ShownInv /\ "author" \in User /\ "reader" \in User
      /\ view \in [User -> Seq(Bubbles(Range(order)))]
    BY GatewayTypes, Zenon DEF ConversationInv, Known, Typed
<1>1. /\ push' \in [User -> Seq(Notices(Range(order)))] /\ push["author"] # <<>>
      /\ push'["author"] = Tail(push["author"]) /\ AcksKept(push["author"], push'["author"])
      /\ UNCHANGED <<up, task, order, dedup, offq, unread, row, seqno, asked, kind>>
    BY <1>0, ReceiveEffect, Zenon
<1>2. /\ view' \in [User -> Seq(Bubbles(Range(order)))] /\ view'["author"] = w
      /\ view'["reader"] = view["reader"]
    BY <1>0
<1>3. Known'
    BY <1>0, <1>1, <1>2, Zenon DEF Known, Typed
<1>4. FinishKept /\ Sent' = Sent
    BY <1>0, <1>1, SameFinishing, Zenon DEF Finishing, Sent
<1>5. Once' /\ Counts'
    BY <1>0, <1>1, <1>3, <1>4, SettledCounts, Still, Zenon
<1>6. Matched'
  <2>1. \A m : Placed(m) => Placed(m)'
      BY <1>1, Zenon DEF Placed
  <2>2. \A i \in DOMAIN push'["author"] : push'["author"][i].cmd = "ack" => AckFollows(push'["author"][i].seq)
      BY <1>1, <1>3, AcksFollow, Zenon
  <2>3. \A t \in Finishing' : t.live = "yes" => UnderWay(t.msg, t.seq)
      BY <1>4, HandlersFollow, Zenon
  <2>4. (\A i \in DOMAIN view'["author"] : Follows(view'["author"][i])) /\ Apart(view'["author"])
      BY <1>2, Zenon
  <2>5. MatchKept
      BY <1>0, <1>1, <2>1, <2>2, <2>3, <2>4, Still, Zenon DEF MatchKept
  <2> QED  BY <1>0, <2>5, MatchedStays, Zenon
<1>7. ShownInv'
  <2>1. AcksAreNew => AcksAreNew'
      BY <1>0, <1>1, <1>2, <1>3, TakenShown, Zenon
  <2>2. Distinct(view["reader"])'
      BY <1>0, <1>2, Zenon DEF ShownInv, Distinct
  <2> QED  BY <1>0, <2>1, <2>2, Zenon DEF ShownInv, NoneReused
<1> QED  BY <1>3, <1>5, <1>6, <1>7, Zenon DEF ConversationInv

\* The ACK finds the bubble that waits for it, or none.
LEMMA OnAckKeeps ==
    ASSUME ConversationInv, OnAck
    PROVE  ConversationInv'
<1>1. PICK n, v, w : /\ n = Head(push["author"]) /\ v = view["author"]
                     /\ w = confirmMessage(v, n.seq, n.id, n.at)
    BY Zenon
<1>0. /\ Known /\ Matched /\ "author" \in User /\ Receives("author", {"ack"}) /\ UNCHANGED <<inbox, load, log>>
      /\ view' = [view EXCEPT !["author"] = w] /\ view \in [User -> Seq(Bubbles(Range(order)))]
    BY <1>1, GatewayTypes, Zenon DEF ConversationInv, OnAck, Known, Typed
<1>2. /\ n \in Notices(Range(order)) /\ n.cmd \in {"ack"} /\ n = push["author"][1] /\ 1 \in DOMAIN push["author"]
      /\ UNCHANGED <<order>>
    BY <1>0, <1>1, ReceiveEffect, Zenon
<1>3. n.cmd = "ack" /\ n.id \in Range(order) /\ n.seq \in Nat /\ n.at \in Nat
    BY <1>2 DEF Notices
<1>4. v \in Seq(Bubbles(Range(order)))
    BY <1>0, <1>1, Each, Zenon
<1>5. w \in Seq(Bubbles(Range(order))) /\ Confirmed(v, w, n.seq, n.id)
    BY <1>1, <1>3, <1>4, Confirms, Zenon
<1>6. Apart(v)
    BY <1>0, <1>1, Zenon DEF Matched
<1>7. Apart(w) /\ (AcksAreNew => Distinct(w))
  <2>1. AcksAreNew => Distinct(v) /\ \A j \in DOMAIN v : v[j].id # n.id
      BY <1>1, <1>2, <1>3, Zenon DEF AcksAreNew
  <2> QED  BY <1>5, <1>6, <2>1, ConfirmedApart, Zenon
<1>8. /\ DOMAIN w = DOMAIN v
      /\ \A i \in DOMAIN v :
            \/ w[i] = v[i]
            \/ /\ v[i].seq = n.seq /\ v[i].status = "sending"
               /\ w[i].msg = v[i].msg /\ w[i].seq = n.seq /\ w[i].id = n.id /\ w[i].status = "sent"
    BY <1>5, Zenon DEF Confirmed
<1>9. \A i \in DOMAIN w : Follows(w[i])
  <2>1. \A m : Placed(m) => Placed(m)'
      BY <1>0, <1>2, Zenon DEF Placed
  <2>2. AckComes(n.seq)
      BY <1>2, <1>3, Zenon DEF AckComes
  <2> SUFFICES ASSUME NEW i \in DOMAIN w PROVE Follows(w[i])
      BY Zenon
  <2>3. CASE w[i] = v[i]
    <3>1. \A j \in DOMAIN v : Follows(v[j])
        BY <1>0, <1>1, <2>1, BubblesFollow, Zenon
    <3> QED  BY <1>8, <2>3, <3>1, Zenon
  <2>4. CASE /\ v[i].seq = n.seq /\ v[i].status = "sending"
             /\ w[i].msg = v[i].msg /\ w[i].seq = n.seq /\ w[i].status = "sent"
    <3>1. Waiting(v[i].msg, n.seq)
        BY <1>1, <1>8, <2>4, Zenon DEF Waiting
    <3>2. Placed(v[i].msg) /\ n.seq <= seqno
        BY <1>0, <2>2, <3>1, MatchedSays, Zenon
    <3>3. w[i].status # "sending"
        BY <2>4
    <3> QED  BY <2>1, <2>4, <3>2, <3>3, Zenon DEF Follows, PlacedNext, Placed
  <2> QED  BY <1>8, <2>3, <2>4, Zenon
<1>10. \A i \in DOMAIN w : \/ w[i].id = push["author"][1].id
                           \/ \E j \in DOMAIN view["author"] : view["author"][j].id = w[i].id
  <2>1. \A i \in DOMAIN w : w[i].id = n.id \/ \E j \in DOMAIN v : v[j].id = w[i].id
    <3> SUFFICES ASSUME NEW i \in DOMAIN w
                 PROVE  w[i].id = n.id \/ \E j \in DOMAIN v : v[j].id = w[i].id
        BY Zenon
    <3>1. i \in DOMAIN v /\ (w[i] = v[i] \/ w[i].id = n.id)
        BY <1>8, Zenon
    <3> QED  BY <3>1, Zenon
  <2>2. v = view["author"] /\ n.id = push["author"][1].id
      BY <1>1, <1>2, Zenon
  <2> QED  BY <2>1, <2>2, Zenon
<1> QED  BY <1>0, <1>5, <1>7, <1>9, <1>10, AuthorSees, Zenon

\* The author's own message comes back with the history.
LEMMA OnAuthorMessageKeeps ==
    ASSUME ConversationInv, OnMessage("author")
    PROVE  ConversationInv'
<1>1. PICK n, v, w : /\ n = Head(push["author"]) /\ v = view["author"] /\ w = Shown("author", n)
    BY Zenon
<1>0. /\ Known /\ Matched /\ "author" \in User /\ Receives("author", {"chat", "forward", "file"})
      /\ UNCHANGED <<load, log>>
      /\ view' = [view EXCEPT !["author"] = w] /\ view \in [User -> Seq(Bubbles(Range(order)))]
    BY <1>1, GatewayTypes, Zenon DEF ConversationInv, OnMessage, Known, Typed
<1>2. inbox' = inbox
  <2>1. "author" # "reader"
      OBVIOUS
  <2> QED  BY <2>1, Zenon DEF OnMessage
<1>3. /\ n \in Notices(Range(order)) /\ n.cmd \in {"chat", "forward", "file"}
      /\ n = push["author"][1] /\ 1 \in DOMAIN push["author"] /\ UNCHANGED order
    BY <1>0, <1>1, ReceiveEffect, Zenon
<1>4. /\ w \in Seq(Bubbles(Range(order))) /\ (Distinct(v) => Distinct(w))
      /\ \/ ViewKept(v, w)
         \/ \E b \in Bubbles(Range(order)) :
               /\ b.msg = n.id /\ b.id = n.id /\ b.seq = 0 /\ b.status = "sent"
               /\ NewBubble(v, w, b)
      /\ n.id \in Range(order)
    BY <1>0, <1>1, <1>3, ShownEffect, Zenon
<1>5. AcksAreNew => Distinct(w)
    BY <1>1, <1>4, Zenon DEF AcksAreNew
<1>6. (\A m : Placed(m) => Placed(m)') /\ Apart(v)
    BY <1>0, <1>1, <1>3, Zenon DEF Placed, Matched
<1>7. CASE ViewKept(v, w)
  <2>1. ViewKept(view["author"], w) /\ Apart(view["author"])
      BY <1>1, <1>6, <1>7, Zenon
  <2>5. BubblesKept(view["author"], w)
      BY <2>1, KeptBubbles, Zenon
  <2>2. /\ Apart(w)
        /\ \A i \in DOMAIN w : \E j \in DOMAIN view["author"] :
              /\ w[i].msg = view["author"][j].msg /\ w[i].id = view["author"][j].id
              /\ w[i].seq = view["author"][j].seq
              /\ (w[i].status = "sending") <=> (view["author"][j].status = "sending")
      BY <2>1, <2>5 DEF BubblesKept
  <2>3. \A i \in DOMAIN w : Follows(w[i])
      BY <1>0, <1>6, <2>2, BubblesFollow, Zenon
  <2>4. \A i \in DOMAIN w : \E j \in DOMAIN view["author"] : view["author"][j].id = w[i].id
      BY <2>2, Zenon
  <2> QED  BY <1>0, <1>2, <1>4, <1>5, <2>2, <2>3, <2>4, AuthorSees, Zenon
<1>8. ASSUME NEW b \in Bubbles(Range(order)), b.msg = n.id, b.id = n.id, b.seq = 0, b.status = "sent",
             NewBubble(v, w, b)
      PROVE  ConversationInv'
  <2>1. v \in Seq(Bubbles(Range(order))) /\ w = Append(v, b)
      BY <1>0, <1>1, <1>8, Each, Zenon DEF NewBubble
  <2>2. \A i \in DOMAIN w : (i \in DOMAIN v /\ w[i] = v[i]) \/ w[i] = b
      BY <2>1, Put
  <2>3. Follows(b) /\ b.status # "sending"
    <3>1. b.status # "sending" /\ b.seq <= seqno
        BY <1>0, <1>8 DEF Known, Typed
    <3>2. Placed(b.msg)'
        BY <1>3, <1>4, <1>8, Zenon DEF Placed
    <3> QED  BY <3>1, <3>2, Zenon DEF Follows, PlacedNext, Placed
  <2>4. \A i \in DOMAIN w : Follows(w[i])
    <3>1. \A i \in DOMAIN v : Follows(v[i])
        BY <1>0, <1>1, <1>6, BubblesFollow, Zenon
    <3> QED  BY <2>2, <2>3, <3>1, Zenon
  <2>5. Apart(w)
    <3> SUFFICES ASSUME NEW i \in DOMAIN w, NEW j \in DOMAIN w, i # j,
                        w[i].status = "sending", w[j].status = "sending"
                 PROVE  w[i].seq # w[j].seq
        BY Zenon DEF Apart
    <3>1. i \in DOMAIN v /\ w[i] = v[i] /\ j \in DOMAIN v /\ w[j] = v[j]
        BY <2>2, <2>3, Zenon
    <3> QED  BY <1>6, <3>1, Zenon DEF Apart
  <2>6. \A i \in DOMAIN w : \/ w[i].id = push["author"][1].id
                            \/ \E j \in DOMAIN view["author"] : view["author"][j].id = w[i].id
      BY <1>1, <1>3, <1>8, <2>2, Zenon
  <2> QED  BY <1>0, <1>2, <1>4, <1>5, <2>4, <2>5, <2>6, AuthorSees, Zenon
<1> QED  BY <1>4, <1>7, <1>8, Zenon

\* MarkRead clears the count, and the messages whose handlers have not counted them
\* yet may still be counted.
LEMMA ReadCounts ==
    ASSUME ConversationInv, NEW m \in Range(order), UNCHANGED <<order, task>>, unread' = 0,
           log' = log \cup {<<"read", m>>}
                      \cup {<<"uncounted", t.msg>> : t \in {t \in task : t.op = "finish"}}
    PROVE  Counts' /\ \A k : (<<"reused", k>> \in log') <=> (<<"reused", k>> \in log)
<1>0. Known /\ Counts
    BY Zenon DEF ConversationInv
<1>1. Finishing' = Finishing /\ Pending' = Pending
    BY Zenon DEF Pending, Finishing
<1>2. log' = log \cup {<<"read", m>>} \cup {<<"uncounted", k>> : k \in Pending}
    BY Zenon DEF Pending, Finishing
<1>3. \A k : /\ (<<"reused", k>> \in log') <=> (<<"reused", k>> \in log)
             /\ (<<"read", k>> \in log') <=> (<<"read", k>> \in log \/ k = m)
             /\ k \in Pending => <<"uncounted", k>> \in log'
    BY <1>2
<1>4. Cardinality(Counted') \in Nat
  <2>1. IsFiniteSet(Message)
      BY ConversationAssumption, FS_Interval DEF ConversationAssumption, Message
  <2>2. Counted' \in SUBSET Message
      BY <1>0, GatewayTypes, Zenon DEF Counted
  <2> QED  BY <2>1, <2>2, FS_Subset, FS_CardinalityType, Zenon
<1>5. unread' <= Cardinality(Counted')
    BY <1>4
<1>6. \A k \in Message : <<"read", k>> \in log' => k \in Range(order')
    BY <1>0, <1>3, Zenon DEF Counts
<1> QED  BY <1>1, <1>3, <1>5, <1>6, Zenon DEF Counts

\* handleReadReceipt.
LEMMA HandleReadReceiptKeeps ==
    ASSUME ConversationInv, HandleReadReceipt
    PROVE  ConversationInv'
<1>1. PICK r, n : r = Head(inbox["reader"]) /\ n = Bare("receipt")
    BY Zenon
<1>0. /\ Known /\ Once /\ Matched /\ ShownInv /\ "author" \in User /\ "reader" \in User
      /\ Takes("reader", {"receipt"}) /\ TrySend("author", n) /\ unread' = 0
      /\ log' = log \cup {<<"read", r.msg>>}
                    \cup {<<"uncounted", t.msg>> : t \in {t \in task : t.op = "finish"}}
      /\ UNCHANGED <<task, order, dedup, offq, row>>
    BY <1>1, GatewayTypes, Zenon DEF ConversationInv, HandleReadReceipt, MarkRead
<1>2. /\ inbox' \in [User -> Seq(Requests(Range(order)))]
      /\ r \in Requests(Range(order)) /\ r.op \in {"receipt"}
      /\ SendsKept(inbox["author"], inbox'["author"])
      /\ UNCHANGED <<up, kind, view, load, seqno, asked>>
    BY <1>0, <1>1, TakeEffect, Zenon
<1>3. r.msg \in Range(order)
    BY <1>2, AboutTypes
<1>4. n \in Notices(Range(order)) /\ n.id = Unassigned /\ n.cmd # "ack"
    BY <1>1 DEF Bare, Notice, Notices, Texts
<1>5. /\ push' \in [User -> Seq(Notices(Range(order)))]
      /\ push'["author"] = push["author"] \/ push'["author"] = Append(push["author"], n)
      /\ AcksKept(push["author"], push'["author"])
    BY <1>0, <1>4, PushEffect, Zenon
<1>6. QuietPush
    BY <1>0, <1>4, <1>5, QuietPushes, Zenon
<1>7. Known'
  <2>1. unread' \in Nat
      BY <1>0
  <2> QED  BY <1>0, <1>2, <1>5, <2>1, Zenon DEF Known, Typed
<1>8. FinishKept
    BY <1>0, SameFinishing, Zenon DEF Finishing
<1>9. Counts' /\ \A k : (<<"reused", k>> \in log') <=> (<<"reused", k>> \in log)
    BY <1>0, <1>3, ReadCounts, Zenon
<1>10. Once'
  <2>1. OnceKept
      BY <1>0, <1>2, <1>8, Zenon DEF OnceKept, Sent
  <2> QED  BY <1>0, <1>7, <2>1, OnceStays, Zenon
<1>11. Matched'
  <2>1. \A m : Placed(m) => Placed(m)'
      BY <1>0, <1>9, Zenon DEF Placed
  <2>2. \A i \in DOMAIN push'["author"] : push'["author"][i].cmd = "ack" => AckFollows(push'["author"][i].seq)
      BY <1>5, <1>7, AcksFollow, Zenon
  <2>3. \A t \in Finishing' : t.live = "yes" => UnderWay(t.msg, t.seq)
      BY <1>8, HandlersFollow, Zenon
  <2>4. (\A i \in DOMAIN view'["author"] : Follows(view'["author"][i])) /\ Apart(view'["author"])
      BY <1>0, <1>2, <2>1, PageFollows, Zenon
  <2>5. MatchKept
      BY <1>2, <2>1, <2>2, <2>3, <2>4, Zenon DEF MatchKept
  <2> QED  BY <1>0, <2>5, MatchedStays, Zenon
<1>12. ShownInv'
  <2>1. ShownKept
      BY <1>0, <1>2, <1>5, <1>6, <1>9, Zenon DEF ShownKept, NoneReused, QuietPush
  <2>2. NoneReused' => AcksAreNew'
      BY <1>0, <1>7, <2>1, AcksStayNew, Zenon DEF ShownInv, ShownKept
  <2> QED  BY <1>0, <1>2, <2>2, Zenon DEF ShownInv
<1> QED  BY <1>7, <1>9, <1>10, <1>11, <1>12, Zenon DEF ConversationInv

-----------------------------------------------------------------------------
(* Lost connections and reloaded pages                                     *)

\* A handler that loses its connection is otherwise the same.
LEMMA Cuts ==
    ASSUME NEW K, NEW t \in Tasks(K), NEW s, s = [t EXCEPT !.live = "no"]
    PROVE  /\ s \in Tasks(K) /\ s.op = t.op /\ s.msg = t.msg /\ s.seq = t.seq
           /\ s.list = t.list /\ s.live = "no"
BY DEF Tasks

\* What a lost connection leaves of the handlers.
LEMMA DisconnectTasks ==
    ASSUME ConversationInv, NEW u \in User,
           task' = {IF t.by = u THEN [t EXCEPT !.live = "no"] ELSE t : t \in task}
    PROVE  /\ task' \subseteq Tasks(Range(order)) /\ FinishKept /\ QuietQueries
           /\ u = "author" => \A t \in Finishing' : t.live = "no"
<1>0. Known /\ Once /\ task \subseteq Tasks(Range(order))
    BY GatewayTypes, Zenon DEF ConversationInv
<1> DEFINE G(t) == IF t.by = u THEN [t EXCEPT !.live = "no"] ELSE t
<1>1. task' = {G(t) : t \in task}
    OBVIOUS
<1>2. \A t \in task : /\ G(t) \in Tasks(Range(order)) /\ G(t).op = t.op /\ G(t).msg = t.msg
                      /\ G(t).seq = t.seq /\ G(t).list = t.list
                      /\ (t.by = u => G(t).live = "no") /\ (G(t) = t \/ G(t).live = "no")
  <2> SUFFICES ASSUME NEW t \in task
               PROVE  /\ G(t) \in Tasks(Range(order)) /\ G(t).op = t.op /\ G(t).msg = t.msg
                      /\ G(t).seq = t.seq /\ G(t).list = t.list
                      /\ (t.by = u => G(t).live = "no") /\ (G(t) = t \/ G(t).live = "no")
      BY Zenon
  <2>1. PICK s : s = [t EXCEPT !.live = "no"]
      BY Zenon
  <2>2. /\ s \in Tasks(Range(order)) /\ s.op = t.op /\ s.msg = t.msg /\ s.seq = t.seq
        /\ s.list = t.list /\ s.live = "no"
      BY <1>0, <2>1, Cuts, Zenon
  <2>3. CASE t.by = u
    <3>1. G(t) = s
        BY <2>1, <2>3, Zenon
    <3> QED  BY <2>2, <3>1, Zenon
  <2>4. CASE t.by # u
    <3>1. G(t) = t
        BY <2>4, Zenon
    <3> QED  BY <1>0, <2>4, <3>1, Zenon
  <2> QED  BY <2>3, <2>4
<1> HIDE DEF G
<1>3. task' \subseteq Tasks(Range(order))
    BY <1>1, <1>2, Zenon
<1>12. \A t \in task : G(t).op = t.op
    BY <1>2, Zenon
<1>4. Finishing' = {G(t) : t \in Finishing}
    BY <1>1, <1>12 DEF Finishing
<1>5. Finishing \subseteq task
    BY Zenon DEF Finishing
<1>6. Pending' = Pending
  <2>1. \A t \in Finishing : G(t).msg = t.msg
      BY <1>2, <1>5, Zenon
  <2> QED  BY <1>4, <2>1 DEF Pending
<1>7. ASSUME NEW t \in Finishing'
      PROVE  \E s \in Finishing : s.msg = t.msg /\ s.seq = t.seq /\ (t.live = "yes" => s.live = "yes")
  <2>1. PICK s \in Finishing : t = G(s)
      BY <1>4, Zenon
  <2>2. s.msg = t.msg /\ s.seq = t.seq /\ (t = s \/ t.live = "no")
      BY <1>2, <1>5, <2>1, Zenon
  <2> QED  BY <2>2
<1>8. ASSUME NEW t \in Finishing', NEW s \in Finishing', t.msg = s.msg PROVE t = s
  <2>1. PICK a \in Finishing, b \in Finishing : t = G(a) /\ s = G(b)
      BY <1>4, Zenon
  <2>2. a.msg = b.msg
      BY <1>2, <1>5, <1>8, <2>1, Zenon
  <2>3. a = b
      BY <1>0, <2>2, Zenon DEF Once
  <2> QED  BY <2>1, <2>3, Zenon
<1>9. FinishKept
    BY <1>6, <1>7, <1>8, Zenon DEF FinishKept
<1>10. QuietQueries
  <2>1. \A t \in task : G(t).list = t.list
      BY <1>2, Zenon
  <2>2. \A t \in task' : \E s \in task : s.op = t.op /\ s.list = t.list
      BY <1>1, <1>12, <2>1
  <2> QED  BY <2>2, Zenon DEF QuietQueries
<1>11. u = "author" => \A t \in Finishing' : t.live = "no"
  <2>1. \A t \in Finishing : t.by = "author"
      BY <1>0, FinishingTypes, Zenon
  <2> QED  BY <1>2, <1>4, <1>5, <2>1, Zenon
<1> QED  BY <1>3, <1>9, <1>10, <1>11

\* What a lost connection does to the queues.
LEMMA DisconnectEffect ==
    ASSUME ConversationInv, NEW u \in User, Disconnect(u)
    PROVE  /\ up' \in [User -> BOOLEAN] /\ inbox' \in [User -> Seq(Requests(Range(order)))]
           /\ push' \in [User -> Seq(Notices(Range(order)))] /\ task' \subseteq Tasks(Range(order))
           /\ FinishKept /\ QuietQueries /\ QuietPush /\ AcksKept(push["author"], push'["author"])
           /\ SendsKept(inbox["author"], inbox'["author"])
           /\ u = "author" => /\ inbox'["author"] = <<>> /\ push'["author"] = <<>>
                              /\ \A t \in Finishing' : t.live = "no"
           /\ UNCHANGED <<order, dedup, offq, unread, row>>
<1>0. /\ Known /\ up' = [up EXCEPT ![u] = FALSE] /\ inbox' = [inbox EXCEPT ![u] = <<>>]
      /\ push' = [push EXCEPT ![u] = <<>>]
      /\ task' = {IF t.by = u THEN [t EXCEPT !.live = "no"] ELSE t : t \in task}
      /\ UNCHANGED <<order, dedup, offq, unread, row>>
    BY Zenon DEF ConversationInv, Disconnect
<1>1. /\ push \in [User -> Seq(Notices(Range(order)))] /\ inbox \in [User -> Seq(Requests(Range(order)))]
      /\ up \in [User -> BOOLEAN] /\ "author" \in User
    BY <1>0, GatewayTypes, Zenon DEF Known, Typed
<1>2. /\ up' \in [User -> BOOLEAN] /\ inbox' \in [User -> Seq(Requests(Range(order)))]
      /\ push' \in [User -> Seq(Notices(Range(order)))]
    BY <1>0, <1>1
<1>3. /\ push'["author"] = push["author"] \/ push'["author"] = <<>>
      /\ inbox'["author"] = inbox["author"] \/ inbox'["author"] = <<>>
      /\ u = "author" => inbox'["author"] = <<>> /\ push'["author"] = <<>>
    BY <1>0, <1>1
<1>4. push["author"] \in Seq(Notices(Range(order))) /\ inbox["author"] \in Seq(Requests(Range(order)))
    BY <1>1, Each, Zenon
<1>5. AcksKept(push["author"], push'["author"]) /\ SendsKept(inbox["author"], inbox'["author"])
    BY <1>3, <1>4, AcksMoves, SendsMoves, Zenon
<1>6. QuietPush
    BY <1>0, <1>3, <1>5, QuietPushes, Zenon
<1>7. /\ task' \subseteq Tasks(Range(order)) /\ FinishKept /\ QuietQueries
      /\ u = "author" => \A t \in Finishing' : t.live = "no"
    BY <1>0, DisconnectTasks, Zenon
<1> QED  BY <1>0, <1>2, <1>3, <1>5, <1>6, <1>7, Zenon

\* The notices that are lost, and those that come again, concern no count and no ACK.
LEMMA LossesQuiet ==
    ASSUME NEW u, log' = log \cup Lost(u) \/ log' = log \cup Lost(u) \cup Twice(u)
    PROVE  QuietLog
<1>1. \A x \in log' : x \in log \/ \E why \in {"lost", "again"} : \E m : x = <<why, m>>
    BY Zenon DEF Lost, Twice
<1>2. \A x \in log : x \in log'
    BY Zenon
<1>3. ASSUME NEW m, NEW why \in {"read", "uncounted", "reused"}, <<why, m>> \in log' PROVE <<why, m>> \in log
  <2>1. \A y \in {"lost", "again"} : \A k : <<why, m>> # <<y, k>>
      OBVIOUS
  <2> QED  BY <1>1, <1>3, <2>1, Zenon
<1> QED  BY <1>2, <1>3, Zenon DEF QuietLog

\* A connection is lost.
LEMMA DropKeeps ==
    ASSUME ConversationInv, NEW u \in User, Drop(u)
    PROVE  ConversationInv'
<1>0. /\ Known /\ ShownInv /\ Disconnect(u) /\ log' = log \cup Lost(u)
      /\ UNCHANGED <<kind, view, load, seqno, asked>>
    BY Zenon DEF ConversationInv, Drop, clients
<1>1. /\ up' \in [User -> BOOLEAN] /\ inbox' \in [User -> Seq(Requests(Range(order)))]
      /\ push' \in [User -> Seq(Notices(Range(order)))] /\ task' \subseteq Tasks(Range(order))
      /\ FinishKept /\ QuietQueries /\ QuietPush
      /\ SendsKept(inbox["author"], inbox'["author"])
      /\ UNCHANGED <<order, dedup, offq, unread, row>>
    BY <1>0, DisconnectEffect, Zenon
<1>2. Known'
    BY <1>0, <1>1, Zenon DEF Known, Typed
<1>3. QuietLog
    BY <1>0, LossesQuiet, Zenon
<1>4. Settled
    BY <1>0, <1>1, <1>3, Still, Zenon DEF Settled, Sent
<1>5. Distinct(view["reader"])'
    BY <1>0, Zenon DEF ShownInv
<1> QED  BY <1>2, <1>4, <1>5, SettledKeeps, Zenon

\* The author's page, loaded anew, waits for nothing.
LEMMA EmptyPage ==
    ASSUME ConversationInv, Known', FinishKept, QuietQueries, QuietPush, QuietLog,
           SendsKept(inbox["author"], inbox'["author"]), AcksKept(push["author"], push'["author"]),
           inbox'["author"] = <<>>, push'["author"] = <<>>, view'["author"] = <<>>,
           \A t \in Finishing' : t.live = "no", Distinct(view["reader"])',
           UNCHANGED <<order, unread, row, asked>>
    PROVE  ConversationInv'
<1>0. Known /\ ShownInv
    BY Zenon DEF ConversationInv
<1>1. DOMAIN inbox'["author"] = {} /\ DOMAIN push'["author"] = {} /\ DOMAIN view'["author"] = {}
    OBVIOUS
<1>2. Once' /\ Counts'
    BY <1>0, SettledCounts, Still, Zenon DEF Sent
<1>3. Matched'
  <2>1. \A t \in Finishing' : t.live # "yes"
      OBVIOUS
  <2> QED  BY <1>1, <2>1, Zenon DEF Matched, Apart
<1>4. ShownKept
  <2>1. NoneReused' => NoneReused
      BY Zenon DEF NoneReused, QuietLog
  <2>2. Distinct(view'["author"])
      BY <1>1, Zenon DEF Distinct
  <2> QED  BY <1>1, <2>1, <2>2, Zenon DEF ShownKept, QuietPush, QuietQueries
<1>5. ShownInv'
  <2>1. NoneReused' => AcksAreNew'
      BY <1>0, <1>4, AcksStayNew, Zenon DEF ShownInv, ShownKept
  <2> QED  BY <2>1, Zenon DEF ShownInv
<1> QED  BY <1>2, <1>3, <1>5, Zenon DEF ConversationInv

\* A page is loaded anew.
LEMMA ReloadKeeps ==
    ASSUME ConversationInv, NEW u \in User, Reload(u)
    PROVE  ConversationInv'
<1>0. /\ Known /\ ShownInv /\ Disconnect(u) /\ log' = log \cup Lost(u) \cup Twice(u)
      /\ view' = [view EXCEPT ![u] = <<>>] /\ load' = [load EXCEPT ![u] = NoLoad]
      /\ seqno' = (IF u = "author" THEN 0 ELSE seqno)
      /\ UNCHANGED <<kind, asked>> /\ view \in [User -> Seq(Bubbles(Range(order)))]
    BY Zenon DEF ConversationInv, Reload, Known, Typed
<1>1. /\ up' \in [User -> BOOLEAN] /\ inbox' \in [User -> Seq(Requests(Range(order)))]
      /\ push' \in [User -> Seq(Notices(Range(order)))] /\ task' \subseteq Tasks(Range(order))
      /\ FinishKept /\ QuietQueries /\ QuietPush /\ AcksKept(push["author"], push'["author"])
      /\ SendsKept(inbox["author"], inbox'["author"])
      /\ u = "author" => /\ inbox'["author"] = <<>> /\ push'["author"] = <<>>
                         /\ \A t \in Finishing' : t.live = "no"
      /\ UNCHANGED <<order, dedup, offq, unread, row>>
    BY <1>0, DisconnectEffect, Zenon
<1>2. view' \in [User -> Seq(Bubbles(Range(order)))] /\ view'[u] = <<>>
    BY <1>0
<1>3. DOMAIN load' = User /\ \A x \in User : load'[x].before \in Nat
  <2>1. DOMAIN load = User /\ \A x \in User : load[x].before \in Nat
      BY <1>0, Zenon DEF Known, Typed
  <2>2. NoLoad.before \in Nat
      BY DEF NoLoad
  <2>3. DOMAIN load' = User /\ \A x \in User : load'[x] = load[x] \/ load'[x] = NoLoad
      BY <1>0, <2>1
  <2> QED  BY <2>1, <2>2, <2>3, Zenon
<1>4. Known'
  <2>1. seqno' \in Nat
      BY <1>0 DEF Known, Typed
  <2> QED  BY <1>0, <1>1, <1>2, <1>3, <2>1, Zenon DEF Known, Typed
<1>5. QuietLog
    BY <1>0, LossesQuiet, Zenon
<1>6. Distinct(<<>>)
    BY DEF Distinct
<1>7. CASE u = "author"
  <2>1. view'["reader"] = view["reader"]
      BY <1>0, <1>7 DEF User
  <2>2. Distinct(view["reader"])'
      BY <1>0, <2>1, Zenon DEF ShownInv
  <2> QED  BY <1>0, <1>1, <1>2, <1>4, <1>5, <1>7, <2>2, EmptyPage, Zenon
<1>8. CASE u = "reader"
  <2>1. view'["author"] = view["author"] /\ seqno' = seqno
      BY <1>0, <1>8 DEF User
  <2>2. Settled
      BY <1>0, <1>1, <1>5, <2>1, Still, Zenon DEF Settled, Sent
  <2>3. Distinct(view["reader"])'
      BY <1>2, <1>6, <1>8, Zenon
  <2> QED  BY <1>4, <2>2, <2>3, SettledKeeps, Zenon
<1> QED  BY <1>7, <1>8, Zenon DEF User

-----------------------------------------------------------------------------
(* The author sends a message                                              *)

\* What waits or is under way has a seq that is not the next one.
LEMMA NextSeqIsNew ==
    ASSUME ConversationInv
    PROVE  /\ seqno \in Nat
           /\ \A i \in DOMAIN view["author"] :
                 view["author"][i].seq <= seqno + 1 /\ view["author"][i].seq # seqno + 1
           /\ \A i \in DOMAIN inbox["author"] : inbox["author"][i].op = "send" =>
                 inbox["author"][i].seq <= seqno + 1 /\ inbox["author"][i].seq # seqno + 1
           /\ \A t \in Finishing : t.live = "yes" => t.seq <= seqno + 1 /\ t.seq # seqno + 1
           /\ \A i \in DOMAIN push["author"] : push["author"][i].cmd = "ack" =>
                 push["author"][i].seq <= seqno + 1 /\ push["author"][i].seq # seqno + 1
<1>1. Known /\ Matched /\ seqno \in Nat /\ view \in [User -> Seq(Bubbles(Range(order)))]
    BY Zenon DEF ConversationInv, Known, Typed
<1>2. \A a \in Nat : a <= seqno => a <= seqno + 1 /\ a # seqno + 1
    BY <1>1
<1>3. \A i \in DOMAIN view["author"] : view["author"][i].seq \in Nat /\ view["author"][i].seq <= seqno
  <2>1. \A i \in DOMAIN view["author"] : view["author"][i] \in Bubbles(Range(order))
      BY <1>1, Each, Zenon
  <2>2. \A b \in Bubbles(Range(order)) : b.seq \in Nat
      BY DEF Bubbles
  <2> QED  BY <1>1, <2>1, <2>2, Zenon DEF Matched
<1>4. \A i \in DOMAIN inbox["author"] : inbox["author"][i].op = "send" =>
          inbox["author"][i].seq \in Nat /\ inbox["author"][i].seq <= seqno
  <2>1. \A i \in DOMAIN inbox["author"] : inbox["author"][i] \in Requests(Range(order))
      BY <1>1, GatewayTypes, Each, Zenon
  <2> QED  BY <1>1, <2>1, AboutTypes, Zenon DEF Matched
<1>5. \A t \in Finishing : t.live = "yes" => t.seq \in Nat /\ t.seq <= seqno
    BY <1>1, FinishingTypes, Zenon DEF Matched
<1>6. \A i \in DOMAIN push["author"] : push["author"][i].cmd = "ack" =>
          push["author"][i].seq \in Nat /\ push["author"][i].seq <= seqno
  <2>1. \A i \in DOMAIN push["author"] : push["author"][i] \in Notices(Range(order))
      BY <1>1, GatewayTypes, Each, Zenon
  <2>2. \A n \in Notices(Range(order)) : n.seq \in Nat
      BY DEF Notices
  <2> QED  BY <1>1, <2>1, <2>2, Zenon DEF Matched
<1> QED  BY <1>1, <1>2, <1>3, <1>4, <1>5, <1>6, Zenon

\* The new bubble waits for its own ACK.
LEMMA SendMatched ==
    ASSUME ConversationInv, NEW b \in Bubbles(Range(order)), b.seq = seqno + 1, b.status = "sending",
           view'["author"] = Append(view["author"], b),
           NEW r \in Requests(Range(order)), r.msg = b.msg, r.seq = seqno + 1,
           inbox'["author"] = inbox["author"] \/ inbox'["author"] = Append(inbox["author"], r),
           UNCHANGED <<task, push, order, log>>, seqno' = seqno + 1
    PROVE  Matched'
<1>1. /\ Known /\ Matched /\ Apart(view["author"]) /\ view \in [User -> Seq(Bubbles(Range(order)))]
      /\ Finishing' = Finishing
    BY Zenon DEF ConversationInv, Known, Typed, Matched, Finishing
<1>2. \A i \in DOMAIN view'["author"] :
          (i \in DOMAIN view["author"] /\ view'["author"][i] = view["author"][i]) \/ view'["author"][i] = b
  <2>1. view["author"] \in Seq(Bubbles(Range(order)))
      BY <1>1, Each, Zenon
  <2> QED  BY <2>1, Put
<1>3. \A i \in DOMAIN inbox'["author"] :
          (i \in DOMAIN inbox["author"] /\ inbox'["author"][i] = inbox["author"][i]) \/ inbox'["author"][i] = r
  <2>1. inbox["author"] \in Seq(Requests(Range(order)))
      BY <1>1, GatewayTypes, Each, Zenon
  <2> QED  BY <2>1, Put
<1>4. \A m : (Placed(m)' <=> Placed(m))
    BY Zenon DEF Placed
<1>5. ASSUME NEW i \in DOMAIN view["author"], NEW c, c = view["author"][i]
      PROVE  /\ c.seq <= seqno' /\ (c.status # "sending" => Placed(c.msg)')
             /\ (c.status = "sending" => WaitsFor(c)')
  <2>1. c.seq <= seqno + 1 /\ c.seq # seqno + 1
      BY <1>5, NextSeqIsNew, Zenon
  <2>2. (c.status # "sending" => Placed(c.msg)) /\ (c.status = "sending" => WaitsFor(c))
      BY <1>1, <1>5, Zenon DEF Matched
  <2>3. ASSUME WaitsFor(c) PROVE WaitsFor(c)'
    <3>1. \A j \in DOMAIN inbox'["author"] :
              inbox'["author"][j].op = "send" /\ inbox'["author"][j].seq = c.seq => inbox'["author"][j].msg = c.msg
        BY <1>3, <2>1, <2>3, Zenon DEF WaitsFor
    <3>2. \A t \in Finishing' : t.live = "yes" /\ t.seq = c.seq => t.msg = c.msg
        BY <1>1, <2>3, Zenon DEF WaitsFor
    <3>3. \A j \in DOMAIN push'["author"] :
              push'["author"][j].cmd = "ack" /\ push'["author"][j].seq = c.seq => Placed(c.msg)'
        BY <1>4, <2>3, Zenon DEF WaitsFor
    <3> QED  BY <3>1, <3>2, <3>3, Zenon DEF WaitsFor
  <2> QED  BY <1>4, <2>1, <2>2, <2>3, Zenon
<1>6. b.seq <= seqno' /\ b.status = "sending" /\ WaitsFor(b)'
  <2>1. b.seq <= seqno'
      BY NextSeqIsNew
  <2>2. \A j \in DOMAIN inbox'["author"] :
            inbox'["author"][j].op = "send" /\ inbox'["author"][j].seq = b.seq => inbox'["author"][j].msg = b.msg
      BY <1>3, NextSeqIsNew, Zenon
  <2>3. \A t \in Finishing' : t.live = "yes" /\ t.seq = b.seq => t.msg = b.msg
      BY <1>1, NextSeqIsNew, Zenon
  <2>4. \A j \in DOMAIN push'["author"] :
            push'["author"][j].cmd = "ack" /\ push'["author"][j].seq = b.seq => Placed(b.msg)'
      BY NextSeqIsNew, Zenon
  <2> QED  BY <2>1, <2>2, <2>3, <2>4, Zenon DEF WaitsFor
<1>7. (\A i \in DOMAIN view["author"] : LET c == view["author"][i] IN
          /\ c.seq <= seqno
          /\ c.status # "sending" => Placed(c.msg)
          /\ c.status = "sending" => WaitsFor(c))'
    BY <1>2, <1>5, <1>6, Zenon DEF WaitsFor, Placed
<1>8. Apart(view'["author"])
  <2> SUFFICES ASSUME NEW i \in DOMAIN view'["author"], NEW j \in DOMAIN view'["author"], i # j,
                      view'["author"][i].status = "sending", view'["author"][j].status = "sending",
                      view'["author"][i].seq = view'["author"][j].seq
               PROVE  FALSE
      BY Zenon DEF Apart
  <2>1. ~(i \in DOMAIN view["author"] /\ j \in DOMAIN view["author"]
            /\ view'["author"][i] = view["author"][i] /\ view'["author"][j] = view["author"][j])
      BY <1>1, Zenon DEF Apart
  <2>2. \A k \in DOMAIN view["author"] : view["author"][k].seq # b.seq
      BY NextSeqIsNew, Zenon
  <2>3. view'["author"][i] = b /\ view'["author"][j] = b
      BY <1>2, <2>1, <2>2, Zenon
  <2>4. i \notin DOMAIN view["author"] /\ j \notin DOMAIN view["author"]
    <3>1. view["author"] \in Seq(Bubbles(Range(order)))
        BY <1>1, Each, Zenon
    <3>2. \A k \in DOMAIN view["author"] : view'["author"][k] = view["author"][k]
        BY <3>1, Put
    <3> QED  BY <2>2, <2>3, <3>2, Zenon
  <2>5. i = Len(view["author"]) + 1 /\ j = Len(view["author"]) + 1
    <3>1. view["author"] \in Seq(Bubbles(Range(order)))
        BY <1>1, Each, Zenon
    <3> QED  BY <2>4, <3>1, Put
  <2> QED  BY <2>5, Zenon
<1>9. /\ \A i \in DOMAIN inbox'["author"] : inbox'["author"][i].op = "send" => inbox'["author"][i].seq <= seqno'
      /\ \A t \in Finishing' : t.live = "yes" => t.seq <= seqno'
      /\ \A i \in DOMAIN push'["author"] : push'["author"][i].cmd = "ack" => push'["author"][i].seq <= seqno'
  <2>1. r.seq <= seqno'
      BY NextSeqIsNew
  <2> QED  BY <1>1, <1>3, <2>1, NextSeqIsNew, Zenon
<1> QED  BY <1>7, <1>8, <1>9, Zenon DEF Matched

\* The messages are sent in their order, each of them once.
LEMMA SendOnce ==
    ASSUME ConversationInv, NEW m \in Message, m = Cardinality(Sent) + 1,
           asked' = asked \cup {<<"send", m>>},
           NEW r \in Requests(Range(order)), r.msg = m,
           inbox'["author"] = inbox["author"] \/ inbox'["author"] = Append(inbox["author"], r),
           UNCHANGED <<task, order, row>>
    PROVE  Once'
<1>0. Known /\ Once /\ Finishing' = Finishing /\ Range(order') = Range(order)
    BY Zenon DEF ConversationInv, Finishing
<1>1. Sent' = Sent \cup {m}
    BY Zenon DEF Sent
<1>2. PICK k \in 0..Written : Sent = 1..k
    BY <1>0, Zenon DEF Once
<1>3. m = k + 1 /\ k \in Nat
  <2>1. k \in Nat
      BY <1>2, ConversationAssumption DEF ConversationAssumption
  <2>2. Cardinality(1..k) = k
      BY <2>1, FS_Interval
  <2> QED  BY <1>2, <2>1, <2>2
<1>4. m \notin Sent /\ \E l \in 0..Written : Sent' = 1..l
  <2>1. m \notin 1..k /\ 1..m = (1..k) \cup {m} /\ m \in 0..Written
      BY <1>3, ConversationAssumption DEF ConversationAssumption, Message
  <2> QED  BY <1>1, <1>2, <2>1, Zenon
<1>5. inbox["author"] \in Seq(Requests(Range(order)))
    BY <1>0, GatewayTypes, Each, Zenon
<1>6. \A i \in DOMAIN inbox'["author"] :
          \/ i \in DOMAIN inbox["author"] /\ inbox'["author"][i] = inbox["author"][i]
          \/ inbox'["author"][i] = r /\ i = Len(inbox["author"]) + 1
    BY <1>5, Put
<1>7. \A i \in DOMAIN inbox["author"] : inbox["author"][i].op = "send" =>
          inbox["author"][i].msg \in Sent \ Range(order) /\ inbox["author"][i].msg # m
    BY <1>0, <1>4, Zenon DEF Once
<1>8. Range(order) \subseteq Sent /\ m \notin Range(order)
    BY <1>0, <1>4, Zenon DEF Once
<1>9. \A i \in DOMAIN inbox'["author"] :
          inbox'["author"][i].op = "send" => inbox'["author"][i].msg \in Sent' \ Range(order')
    BY <1>0, <1>1, <1>6, <1>7, <1>8, Zenon
<1>10. ASSUME NEW i \in DOMAIN inbox'["author"], NEW j \in DOMAIN inbox'["author"], i # j,
              inbox'["author"][i].op = "send", inbox'["author"][j].op = "send"
       PROVE  inbox'["author"][i].msg # inbox'["author"][j].msg
  <2>1. CASE /\ i \in DOMAIN inbox["author"] /\ inbox'["author"][i] = inbox["author"][i]
             /\ j \in DOMAIN inbox["author"] /\ inbox'["author"][j] = inbox["author"][j]
      BY <1>0, <1>10, <2>1, Zenon DEF Once
  <2>2. CASE inbox'["author"][i] = r /\ i = Len(inbox["author"]) + 1
      BY <1>6, <1>7, <1>10, <2>2, Zenon
  <2>3. CASE inbox'["author"][j] = r /\ j = Len(inbox["author"]) + 1
      BY <1>6, <1>7, <1>10, <2>3, Zenon
  <2> QED  BY <1>6, <1>10, <2>1, <2>2, <2>3, Zenon
<1>11. /\ \A t, s \in Finishing' : t.msg = s.msg => t = s
       /\ \A t \in Finishing' : row'[t.msg].state = "none"
       /\ \A k_1 \in Message : row'[k_1].state # "none" => k_1 \in Range(order')
    BY <1>0, Zenon DEF Once
<1>12. Range(order') \subseteq Sent'
    BY <1>0, <1>1, <1>8, Zenon
<1> QED  BY <1>4, <1>9, <1>10, <1>11, <1>12, Zenon DEF Once

\* sendText, sendFile and forwardMessage.
LEMMA SendKeeps ==
    ASSUME ConversationInv, NEW m \in Message, NEW cmd, SendAs(m, cmd)
    PROVE  ConversationInv'
<1>1. PICK b, r : /\ b = [msg |-> m, id |-> Unassigned, seq |-> seqno + 1, at |-> Now,
                          status |-> "sending", recalled |-> "no", text |-> "first"]
                  /\ r = Request("send", m, seqno + 1, 0)
    BY Zenon
<1>0. /\ Known /\ Counts /\ ShownInv /\ m = Cardinality(Sent) + 1 /\ seqno' = seqno + 1
      /\ view' = [view EXCEPT !["author"] = addMessage(@, b)] /\ Ask("author", r)
      /\ asked' = asked \cup {<<"send", m>>}
      /\ UNCHANGED <<up, push, task, order, dedup, offq, unread, row, load, kind, log>>
      /\ view \in [User -> Seq(Bubbles(Range(order)))] /\ "author" \in User /\ "reader" \in User
      /\ seqno \in Nat
    BY <1>1, GatewayTypes, Zenon DEF ConversationInv, SendAs, gateway, Known, Typed
<1>2. /\ b \in Bubbles(Range(order)) /\ b.msg = m /\ b.seq = seqno + 1 /\ b.status = "sending"
      /\ b.id = Unassigned /\ r \in Requests(Range(order)) /\ r.msg = m /\ r.seq = seqno + 1
  <2>1. Now \in Nat /\ seqno + 1 \in Nat
      BY <1>0, GatewayTypes, RangeIn
  <2> QED  BY <1>1, <2>1 DEF Bubbles, Texts, Requests, Request
<1>3. /\ inbox' \in [User -> Seq(Requests(Range(order)))]
      /\ inbox'["author"] = inbox["author"] \/ inbox'["author"] = Append(inbox["author"], r)
    BY <1>0, <1>2, AskEffect, Zenon
<1>4. PICK v, w : v = view["author"] /\ w = addMessage(v, b)
    BY Zenon
<1>5. v \in Seq(Bubbles(Range(order))) /\ w \in Seq(Bubbles(Range(order))) /\ NewBubble(v, w, b)
  <2>1. v \in Seq(Bubbles(Range(order)))
      BY <1>0, <1>4, Each, Zenon
  <2> QED  BY <1>2, <1>4, <2>1, Adds DEF addMessage, NewBubble
<1>6. /\ view' \in [User -> Seq(Bubbles(Range(order)))] /\ view'["author"] = w
      /\ view'["reader"] = view["reader"]
    BY <1>0, <1>4, <1>5
<1>7. Known'
  <2>1. seqno' \in Nat
      BY <1>0
  <2> QED  BY <1>0, <1>3, <1>6, <2>1, Zenon DEF Known, Typed
<1>8. Once'
    BY <1>0, <1>2, <1>3, SendOnce, Zenon
<1>9. Counts'
  <2>1. CountsKept
      BY <1>0, Zenon DEF CountsKept, Pending, Finishing
  <2> QED  BY <1>0, <2>1, CountsStay, Zenon
<1>10. Matched'
  <2>1. view'["author"] = Append(view["author"], b)
      BY <1>4, <1>5, <1>6, Zenon DEF NewBubble
  <2> QED  BY <1>0, <1>2, <1>3, <2>1, SendMatched, Zenon
<1>11. ShownKept
  <2>1. Distinct(view["author"]) => Distinct(view'["author"])
      BY <1>2, <1>4, <1>5, <1>6, AddedIsDistinct, Zenon
  <2>2. \A i \in DOMAIN w : (i \in DOMAIN v /\ w[i] = v[i]) \/ w[i] = b
      BY <1>2, <1>5, Put DEF NewBubble
  <2>3. \A i \in DOMAIN view'["author"] :
            \/ view'["author"][i].id = Unassigned
            \/ \E j \in DOMAIN view["author"] : view["author"][j].id = view'["author"][i].id
      BY <1>2, <1>4, <1>6, <2>2, Zenon
  <2>4. AcksKept(push["author"], push'["author"])
      BY <1>0, Still, Zenon
  <2> QED  BY <1>0, <2>1, <2>3, <2>4, Zenon DEF ShownKept, NoneReused
<1>12. ShownInv'
  <2>1. NoneReused' => AcksAreNew'
      BY <1>0, <1>7, <1>11, AcksStayNew, Zenon DEF ShownInv, ShownKept
  <2> QED  BY <1>0, <1>6, <2>1, Zenon DEF ShownInv
<1> QED  BY <1>7, <1>8, <1>9, <1>10, <1>12, Zenon DEF ConversationInv

-----------------------------------------------------------------------------
(* The whole                                                               *)

\* The initial state.
LEMMA InitHolds == Init => ConversationInv
<1> SUFFICES ASSUME Init PROVE ConversationInv
    OBVIOUS
<1>1. /\ inbox["author"] = <<>> /\ push["author"] = <<>> /\ view["author"] = <<>> /\ view["reader"] = <<>>
      /\ task = {} /\ order = <<>> /\ log = {} /\ asked = {} /\ unread = 0 /\ seqno = 0
    BY DEF Init, User
<1>2. Range(order) = {} /\ DOMAIN <<>> = {}
    BY <1>1 DEF Range
<1>3. Known
  <2>1. kind \in [Message -> {"chat", "forward", "file"}]
      BY ConversationAssumption DEF Init, ConversationAssumption, Message
  <2>2. /\ up \in [User -> BOOLEAN] /\ inbox \in [User -> Seq(Requests(Range(order)))]
        /\ push \in [User -> Seq(Notices(Range(order)))] /\ view \in [User -> Seq(Bubbles(Range(order)))]
      BY DEF Init
  <2>3. /\ order \in Seq(Message) /\ offq \in Seq(Notices(Range(order)))
        /\ DOMAIN dedup = {} /\ unread \in Nat /\ seqno \in Nat
      BY DEF Init
  <2>4. row \in [Message -> Rows]
      BY DEF Init, NoRow, Rows, Texts
  <2>5. DOMAIN load = User /\ \A u \in User : load[u].before \in Nat
      BY DEF Init, NoLoad
  <2>6. task \subseteq Tasks(Range(order))
      BY <1>1
  <2>7. DOMAIN dedup \subseteq Nat /\ \A q \in DOMAIN dedup : dedup[q] \in Range(order)
      BY <2>3
  <2> QED  BY <2>1, <2>2, <2>3, <2>4, <2>5, <2>6, <2>7, Zenon DEF Known, Typed
<1>4. Finishing = {} /\ Pending = {} /\ Sent = {} /\ Counted = {}
    BY <1>1, <1>2 DEF Finishing, Pending, Sent, Counted
<1>5. Once
  <2>1. \E k \in 0..Written : Sent = 1..k
    <3>1. 0 \in 0..Written /\ Sent = 1..0
        BY <1>4, ConversationAssumption DEF ConversationAssumption
    <3> QED  BY <3>1, Zenon
  <2>2. \A m \in Message : row[m].state = "none"
      BY DEF Init, NoRow
  <2> QED  BY <1>1, <1>2, <1>4, <2>1, <2>2, Zenon DEF Once
<1>6. Counts
  <2>1. unread <= Cardinality(Counted)
      BY <1>1, <1>4, FS_EmptySet
  <2> QED  BY <1>1, <1>4, <2>1, Zenon DEF Counts
<1>7. Matched
    BY <1>1, <1>2, <1>4, Zenon DEF Matched, Apart
<1>8. ShownInv
    BY <1>1, <1>2, Zenon DEF ShownInv, AcksAreNew, Distinct
<1> QED  BY <1>3, <1>5, <1>6, <1>7, <1>8, Zenon DEF ConversationInv

\* The author acts.
LEMMA AuthorActsKeep ==
    ASSUME ConversationInv, AuthorActs
    PROVE  ConversationInv'
<1>1. ASSUME NEW m \in Message, sendText(m) \/ sendFile(m) \/ forwardMessage(m) PROVE ConversationInv'
    BY <1>1, SendKeeps, Zenon DEF sendText, sendFile, forwardMessage
<1>2. ASSUME NEW i \in DOMAIN view["author"], recallMessage(i) \/ editMessage(i) PROVE ConversationInv'
    BY <1>2, ChangeKeeps, Zenon DEF recallMessage, editMessage
<1> QED  BY <1>1, <1>2, Zenon DEF AuthorActs

\* A page acts.
LEMMA PageActsKeep ==
    ASSUME ConversationInv, PageActs
    PROVE  ConversationInv'
<1>1. ASSUME NEW u \in User,
             LoadHistory(u) \/ RetryHistoryRequest(u) \/ LoadTimeout(u) \/ OnMessage(u) \/ OnHistory(u)
      PROVE  ConversationInv'
  <2>1. CASE LoadHistory(u) \/ RetryHistoryRequest(u) \/ LoadTimeout(u)
      BY <2>1, LoadsKeep, Zenon
  <2>2. CASE OnMessage(u)
      BY <2>2, OnReaderMessageKeeps, OnAuthorMessageKeeps, Zenon DEF User
  <2>3. CASE OnHistory(u)
      BY <2>3, OnSignalKeeps, Zenon
  <2> QED  BY <1>1, <2>1, <2>2, <2>3, Zenon
<1>2. "author" \in User
    BY Zenon DEF User
<1>3. CASE OnReadReceipt \/ OnRecallError
    BY <1>2, <1>3, OnSignalKeeps, Zenon
<1> QED  BY <1>1, <1>3, OnAckKeeps, OnLoginRespKeeps, OnChangeKeeps, Zenon DEF PageActs

\* A handler of the gateway, or the store, acts.
LEMMA GatewayActsKeep ==
    ASSUME ConversationInv, GatewayActs
    PROVE  ConversationInv'
<1>1. ASSUME NEW t \in task,
             FinishSend(t) \/ NotifyRecall(t) \/ UpdateMessageContent(t) \/ DeliverOffline(t) \/ DeliverHistory(t)
      PROVE  ConversationInv'
    BY <1>1, FinishSendKeeps, NotifyRecallKeeps, UpdateKeeps, DeliverOfflineKeeps, DeliverHistoryKeeps, Zenon
<1>2. CASE Duplicate \/ HandleChat \/ HandleForward \/ Refuse
    BY <1>2, DuplicateKeeps, PlaceKeeps, RefuseKeeps, Zenon
<1>3. CASE HandleRecall \/ HandleEdit \/ HandleReadReceipt \/ HandleOffline
    BY <1>3, HandleRecallKeeps, HandleEditKeeps, HandleReadReceiptKeeps, HandleOfflineKeeps, Zenon
<1>4. ASSUME NEW u \in User, HandleHistory(u) PROVE ConversationInv'
    BY <1>4, HandleHistoryKeeps, Zenon
<1>5. ASSUME NEW m \in Message, Save(m) PROVE ConversationInv'
    BY <1>5, SaveKeeps, Zenon
<1> QED  BY <1>1, <1>2, <1>3, <1>4, <1>5, Zenon DEF GatewayActs

\* A step in which nothing happens.
LEMMA StutterKeeps ==
    ASSUME ConversationInv, UNCHANGED vars
    PROVE  ConversationInv'
<1>0. /\ Known /\ ShownInv
      /\ UNCHANGED <<up, inbox, push, task, order, dedup, offq, unread, row, kind, view, load, seqno, asked, log>>
    BY Zenon DEF ConversationInv, vars
<1>1. Known'
    BY <1>0, Zenon DEF Known, Typed
<1>2. Calm
    BY <1>0, Still, Zenon DEF Calm, Sent
<1>3. Distinct(view["reader"])'
    BY <1>0, Zenon DEF ShownInv
<1> QED  BY <1>1, <1>2, <1>3, CalmKeeps, Zenon

\* The inductive invariant of the conversation: what is under way speaks of messages
\* that have a MsgId, every message is sent and placed once, the count counts no
\* message twice, what waits in the author's page and what is under way for it agree
\* on the seq, and the ACK of a message reaches the page before any copy of it.
THEOREM ConversationInvariant == Spec => []ConversationInv
<1>1. ConversationInv /\ [Next]_vars => ConversationInv'
  <2> SUFFICES ASSUME ConversationInv, [Next]_vars PROVE ConversationInv'
      OBVIOUS
  <2>1. ASSUME NEW u \in User, Connect(u) \/ Drop(u) \/ Reload(u) PROVE ConversationInv'
      BY <2>1, ConnectKeeps, DropKeeps, ReloadKeeps, Zenon
  <2> QED  BY <2>1, AuthorActsKeep, PageActsKeep, GatewayActsKeep, StutterKeeps, Zenon DEF Next
<1> QED  BY <1>1, InitHolds, PTL DEF Spec

\* No message stands twice in a page under its MsgId, whatever comes in from the
\* live copy, the offline queue and the history, and however the connections and
\* pages come and go, unless a seq was used again (addMessage, confirmMessage).
THEOREM ShownOnceHolds == Spec => []ShownOnce
<1>1. ConversationInv => ShownOnce
  <2> SUFFICES ASSUME ConversationInv, NEW u \in User, NEW i \in DOMAIN view[u], NEW j \in DOMAIN view[u],
                      i # j, view[u][i].id = view[u][j].id, view[u][i].id # Unassigned
               PROVE  \E m \in Message : <<"reused", m>> \in log
      BY Zenon DEF ShownOnce
  <2>1. ShownInv
      BY Zenon DEF ConversationInv
  <2>2. CASE u = "reader"
      BY <2>1, <2>2, Zenon DEF ShownInv, Distinct
  <2>3. CASE u = "author"
    <3>1. ~Distinct(view["author"])
        BY <2>3, Zenon DEF Distinct
    <3>2. ~NoneReused
        BY <2>1, <3>1, Zenon DEF ShownInv, AcksAreNew
    <3> QED  BY <3>2, Zenon DEF NoneReused
  <2> QED  BY <2>2, <2>3, Zenon DEF User
<1> QED  BY <1>1, ConversationInvariant, PTL

\* What its author sees as sent has a MsgId, unless the ACK was that of an earlier
\* message with the same seq (handleChat, IsDuplicate, confirmMessage).
THEOREM SentIsPlacedHolds == Spec => []SentIsPlaced
<1>1. ConversationInv => SentIsPlaced
  <2>1. ConversationInv => Matched
      BY Zenon DEF ConversationInv
  <2> QED  BY <2>1, Zenon DEF Matched, Placed, SentIsPlaced
<1> QED  BY <1>1, ConversationInvariant, PTL

\* The unread count is at most the number of messages that have no read receipt, or
\* whose receipt overtook the count (handleReadReceipt, Increment).
THEOREM CountsUnreadHolds == Spec => []CountsUnreadOnly
<1>1. ConversationInv => CountsUnreadOnly
  <2> SUFFICES ASSUME ConversationInv PROVE CountsUnreadOnly
      OBVIOUS
  <2> DEFINE S == {m \in Range(order) : <<"read", m>> \notin log \/ <<"uncounted", m>> \in log}
  <2>1. Known /\ Counts /\ unread \in Nat /\ Range(order) \subseteq Message
      BY GatewayTypes, Zenon DEF ConversationInv
  <2>2. IsFiniteSet(Message)
      BY ConversationAssumption, FS_Interval DEF ConversationAssumption, Message
  <2>3. S \in SUBSET Message /\ Counted \in SUBSET S
      BY <2>1 DEF Counted
  <2> HIDE DEF S
  <2>4. IsFiniteSet(S)
      BY <2>2, <2>3, FS_Subset, Zenon
  <2>5. Cardinality(Counted) <= Cardinality(S) /\ Cardinality(Counted) \in Nat /\ Cardinality(S) \in Nat
      BY <2>1, <2>3, <2>4, FS_Subset, FS_CardinalityType, CountedFinite, Zenon
  <2>6. unread <= Cardinality(Counted)
      BY <2>1, Zenon DEF Counts
  <2>7. unread <= Cardinality(S)
    <3>1. \A a, b, c \in Nat : a <= b /\ b <= c => a <= c
        OBVIOUS
    <3> QED  BY <2>1, <2>5, <2>6, <3>1, Zenon
  <2> QED  BY <2>7, Zenon DEF S, CountsUnreadOnly
<1> QED  BY <1>1, ConversationInvariant, PTL

-----------------------------------------------------------------------------
(* Types, buffers and handlers                                             *)

\* No connection has more in its buffer than Client.send holds.
Room == \A u \in User : Len(push[u]) <= Buffer

\* A connection runs one handler.
OneHandler ==
    \A s, t \in task : (s.by = t.by /\ s.live = "yes" /\ t.live = "yes") => s = t

\* No message has two MsgIds.
OneId == \A i, j \in DOMAIN order : i # j => order[i] # order[j]

\* Client.Send leaves room.
LEMMA SendFits ==
    ASSUME Known, Room, NEW n, Deliver(n) \/ \E u \in User : TrySend(u, n)
    PROVE  Room'
<1>1. push \in [User -> Seq(Notices(Range(order)))] /\ "reader" \in User /\ Buffer \in Nat
    BY GatewayTypes, ConversationAssumption DEF ConversationAssumption
<1>2. ASSUME NEW u \in User, TrySend(u, n) PROVE Room'
  <2>1. CASE up[u] /\ ~Full(u)
    <3>1. push' = [push EXCEPT ![u] = Append(push[u], n)] /\ ~(Len(push[u]) >= Buffer)
        BY <1>2, <2>1 DEF TrySend, Full
    <3>2. push[u] \in Seq(Notices(Range(order))) /\ Len(push[u]) \in Nat
        BY <1>1
    <3>3. Len(Append(push[u], n)) <= Buffer
        BY <1>1, <3>1, <3>2
    <3> QED  BY <1>1, <3>1, <3>3 DEF Room
  <2>2. CASE ~(up[u] /\ ~Full(u))
    <3>1. push' = push
        BY <1>2, <2>2, Zenon DEF TrySend
    <3> QED  BY <3>1, Zenon DEF Room
  <2> QED  BY <2>1, <2>2
<1>3. CASE Deliver(n)
  <2>1. TrySend("reader", n) \/ push' = push
      BY <1>3, Zenon DEF Deliver
  <2>2. CASE push' = push
      BY <2>2, Zenon DEF Room
  <2> QED  BY <1>1, <1>2, <2>1, <2>2, Zenon
<1> QED  BY <1>2, <1>3

\* What a handler sends at once fits.
LEMMA ManyFit ==
    ASSUME Known, Room, NEW u \in User, NEW x, Len(x) \in Nat, x \in Seq(Notices(Range(order))),
           push' = [push EXCEPT ![u] = push[u] \o x], Len(push[u]) + Len(x) <= Buffer
    PROVE  Room'
<1>1. push \in [User -> Seq(Notices(Range(order)))]
    BY GatewayTypes
<1>2. Len(push[u] \o x) = Len(push[u]) + Len(x)
    BY <1>1
<1> QED  BY <1>1, <1>2 DEF Room

\* Pages leave room.
LEMMA PagesFit ==
    ASSUME Known, Room, AuthorActs \/ PageActs
    PROVE  Room'
<1>0. CASE push' = push
    BY <1>0, Zenon DEF Room
<1>1. CASE AuthorActs
    BY <1>0, <1>1, Zenon DEF AuthorActs, sendText, sendFile, forwardMessage, SendAs, recallMessage, editMessage, Change
<1>2. ASSUME NEW u \in User, LoadHistory(u) \/ RetryHistoryRequest(u) \/ LoadTimeout(u) PROVE Room'
    BY <1>0, <1>2, Zenon DEF LoadHistory, RetryHistoryRequest, LoadTimeout
<1>3. ASSUME NEW u \in User, NEW cmds, Receives(u, cmds) PROVE Room'
  <2>1. push \in [User -> Seq(Notices(Range(order)))] /\ Buffer \in Nat
      BY GatewayTypes, ConversationAssumption DEF ConversationAssumption
  <2>2. push[u] # <<>> /\ push' = [push EXCEPT ![u] = Tail(push[u])]
      BY <1>3, Zenon DEF Receives
  <2>3. Len(Tail(push[u])) <= Len(push[u]) /\ Len(push[u]) \in Nat /\ Len(Tail(push[u])) \in Nat
      BY <2>1, <2>2
  <2> QED  BY <2>1, <2>2, <2>3 DEF Room
<1>4. "author" \in User /\ "reader" \in User
    BY Zenon DEF User
<1>5. CASE PageActs
    BY <1>2, <1>3, <1>4, <1>5, Zenon DEF PageActs, OnMessage, OnHistory, OnAck, OnLoginResp, OnChange,
          OnReadReceipt, OnRecallError
<1> QED  BY <1>1, <1>5

\* What was drained, or found in the history, leaves room.
LEMMA AnswersFit ==
    ASSUME Known, Room, NEW t \in task, DeliverOffline(t) \/ DeliverHistory(t)
    PROVE  Room'
<1>0. PICK k : k = Fits(t)
    BY Zenon
<1>1. /\ t \in Tasks(Range(order)) /\ t.by \in User /\ t.live \in {"yes", "no"}
      /\ t.list \in Seq(Notices(Range(order)))
  <2>1. t \in Tasks(Range(order)) /\ (t.op = "drained" \/ t.op = "queried")
      BY GatewayTypes, Zenon DEF DeliverOffline, DeliverHistory, Runs
  <2>2. Copies(Range(order)) \subseteq Notices(Range(order))
      BY DEF Copies, Notices
  <2>3. t.by \in User /\ t.live \in {"yes", "no"}
      BY <2>1, AboutTypes, Zenon DEF User
  <2>4. t.list \in Seq(Notices(Range(order)))
    <3>1. CASE t.op = "drained"
        BY <2>1, <3>1, AboutTypes, Zenon
    <3>2. CASE t.op = "queried"
      <4>1. t.list \in Seq(Copies(Range(order)))
          BY <2>1, <3>2, AboutTypes, Zenon
      <4> QED  BY <2>2, <4>1
    <3> QED  BY <2>1, <3>1, <3>2
  <2> QED  BY <2>1, <2>3, <2>4
<1>2. PICK p : p = push[t.by]
    BY Zenon
<1>3. p \in Seq(Notices(Range(order))) /\ Len(p) \in Nat /\ Len(p) <= Buffer /\ Buffer \in Nat
    BY <1>1, <1>2, GatewayTypes, ConversationAssumption DEF Room, ConversationAssumption
<1>4. k \in 0..Len(t.list) /\ Len(p) + k <= Buffer
    BY <1>0, <1>1, <1>2, <1>3, FitsIn, Zenon
<1>5. PICK a : a = SubSeq(t.list, 1, k)
    BY Zenon
<1>6. a \in Seq(Notices(Range(order))) /\ Len(a) = k /\ k \in Nat
    BY <1>1, <1>4, <1>5
<1>7. PICK n : n = Bare("history")
    BY Zenon
<1>8. Append(a, n) \in Seq(Notices(Range(order))) /\ Len(Append(a, n)) = k + 1
  <2>1. n \in Notices(Range(order))
      BY <1>7 DEF Bare, Notice, Notices, Texts
  <2> QED  BY <1>6, <2>1
<1>9. ASSUME NEW x \in Seq(Notices(Range(order))), Len(p) + Len(x) <= Buffer,
             push' = [push EXCEPT ![t.by] = p \o x]
      PROVE  Room'
  <2>1. Len(x) \in Nat
      OBVIOUS
  <2> QED  BY <1>1, <1>2, <1>9, <2>1, ManyFit, Zenon
<1>10. CASE DeliverOffline(t)
  <2>1. push' = [push EXCEPT ![t.by] = p \o a]
      BY <1>0, <1>2, <1>5, <1>10, Zenon DEF DeliverOffline
  <2> QED  BY <1>4, <1>6, <1>9, <2>1, Zenon
<1>11. CASE DeliverHistory(t)
  <2>1. push' = [push EXCEPT ![t.by] = IF t.live = "no" THEN p
                                     ELSE IF Len(p) + k < Buffer THEN p \o Append(a, n) ELSE p \o a]
      BY <1>0, <1>2, <1>5, <1>7, <1>11, Zenon DEF DeliverHistory
  <2>2. CASE t.live = "no"
    <3>1. push' = push
      <4>1. push' = [push EXCEPT ![t.by] = push[t.by]] /\ push \in [User -> Seq(Notices(Range(order)))]
          BY <1>2, <2>1, <2>2, GatewayTypes, Zenon
      <4> QED  BY <4>1
    <3> QED  BY <3>1, Zenon DEF Room
  <2>3. CASE t.live # "no" /\ Len(p) + k < Buffer
    <3>1. push' = [push EXCEPT ![t.by] = p \o Append(a, n)]
        BY <2>1, <2>3, Zenon
    <3>2. Len(p) + Len(Append(a, n)) <= Buffer
        BY <1>3, <1>6, <1>8, <2>3
    <3> QED  BY <1>8, <1>9, <3>1, <3>2, Zenon
  <2>4. CASE t.live # "no" /\ ~(Len(p) + k < Buffer)
    <3>1. push' = [push EXCEPT ![t.by] = p \o a]
        BY <2>1, <2>4, Zenon
    <3> QED  BY <1>4, <1>6, <1>9, <3>1, Zenon
  <2> QED  BY <2>2, <2>3, <2>4
<1> QED  BY <1>10, <1>11

\* The handlers of the gateway leave room.
LEMMA HandlersFit ==
    ASSUME Known, Room, GatewayActs
    PROVE  Room'
<1>0. CASE push' = push
    BY <1>0, Zenon DEF Room
<1>1. "author" \in User /\ "reader" \in User /\ task \subseteq Tasks(Range(order))
    BY GatewayTypes, Zenon
<1>2. CASE Duplicate \/ HandleChat \/ HandleForward \/ Refuse
    BY <1>0, <1>1, <1>2, SendFits, Zenon DEF Duplicate, HandleChat, HandleForward, Place, Refuse
<1>3. CASE HandleRecall \/ HandleEdit \/ HandleReadReceipt \/ HandleOffline
    BY <1>0, <1>1, <1>3, SendFits, Zenon DEF HandleRecall, HandleEdit, HandleReadReceipt, HandleOffline
<1>4. ASSUME NEW u \in User, HandleHistory(u) PROVE Room'
    BY <1>0, <1>4, Zenon DEF HandleHistory
<1>5. ASSUME NEW m \in Message, Save(m) PROVE Room'
    BY <1>0, <1>5, Zenon DEF Save
<1>6. ASSUME NEW t \in task, FinishSend(t) PROVE Room'
  <2>1. t.op = "finish"
      BY <1>6, Zenon DEF FinishSend, Runs
  <2>2. t.by \in User
      BY <1>1, <2>1, AboutTypes
  <2> QED  BY <1>0, <1>6, <2>2, SendFits, Zenon DEF FinishSend, Answer
<1>7. ASSUME NEW t \in task, NotifyRecall(t) \/ UpdateMessageContent(t) PROVE Room'
    BY <1>0, <1>7, SendFits, Zenon DEF NotifyRecall, UpdateMessageContent
<1> QED  BY <1>2, <1>3, <1>4, <1>5, <1>6, <1>7, AnswersFit, Zenon DEF GatewayActs

\* A read loop begins a handler only when it runs none.
LEMMA BegunIsOne ==
    ASSUME OneHandler, NEW u, NEW ops, Takes(u, ops), NEW op, NEW m, NEW q, NEW list,
           task' = task \cup {Task(u, op, m, q, list)}
    PROVE  OneHandler'
<1>1. PICK n : n = Task(u, op, m, q, list)
    BY Zenon
<1>2. n.by = u
    BY <1>1 DEF Task
<1>3. \A t \in task : ~(t.by = u /\ t.live = "yes")
    BY Zenon DEF Takes
<1>4. ASSUME NEW s \in task', NEW t \in task', s.by = t.by, s.live = "yes", t.live = "yes" PROVE s = t
  <2>1. (s \in task \/ s = n) /\ (t \in task \/ t = n)
      BY <1>1, Zenon
  <2>2. CASE s \in task /\ t \in task
      BY <1>4, <2>2, Zenon DEF OneHandler
  <2> QED  BY <1>2, <1>3, <1>4, <2>1, <2>2, Zenon
<1> QED  BY <1>4, Zenon DEF OneHandler

\* The pages begin no handler.
LEMMA PagesBeginNone ==
    ASSUME AuthorActs \/ PageActs
    PROVE  task' = task /\ order' = order
<1>1. CASE AuthorActs
    BY <1>1, Zenon DEF AuthorActs, sendText, sendFile, forwardMessage, SendAs, recallMessage, editMessage,
          Change, gateway
<1>2. CASE PageActs
  <2>1. ASSUME NEW u, NEW cmds, Receives(u, cmds) PROVE task' = task /\ order' = order
      BY <2>1, Zenon DEF Receives, gateway
  <2>2. ASSUME NEW u \in User, LoadHistory(u) \/ RetryHistoryRequest(u) \/ LoadTimeout(u)
        PROVE  task' = task /\ order' = order
      BY <2>2, Zenon DEF LoadHistory, RetryHistoryRequest, LoadTimeout, gateway
  <2> QED  BY <1>2, <2>1, <2>2, Zenon DEF PageActs, OnMessage, OnHistory, OnAck, OnLoginResp, OnChange,
                OnReadReceipt, OnRecallError
<1> QED  BY <1>1, <1>2

\* Every handler of the gateway is alone on its connection.
LEMMA HandlersAlone ==
    ASSUME OneHandler, GatewayActs
    PROVE  OneHandler'
<1>0. CASE task' \subseteq task
    BY <1>0, Zenon DEF OneHandler
<1>1. CASE Duplicate \/ Refuse \/ HandleReadReceipt
    BY <1>0, <1>1, Zenon DEF Duplicate, Refuse, HandleReadReceipt, gateway
<1>2. CASE HandleChat \/ HandleForward
    BY <1>2, BegunIsOne, Zenon DEF HandleChat, HandleForward, Place
<1>3. CASE HandleRecall \/ HandleEdit \/ HandleOffline
  <2>1. CASE HandleRecall
    <3>1. PICK m : Takes("author", {"recall"}) /\ (task' = task \/ task' = task \cup {Task("author", "recall", m, 0, <<>>)})
        BY <2>1, Zenon DEF HandleRecall
    <3> QED  BY <1>0, <3>1, BegunIsOne, Zenon
  <2>2. CASE HandleEdit
      BY <2>2, BegunIsOne, Zenon DEF HandleEdit
  <2>3. CASE HandleOffline
      BY <2>3, BegunIsOne, Zenon DEF HandleOffline
  <2> QED  BY <1>3, <2>1, <2>2, <2>3
<1>4. ASSUME NEW u \in User, HandleHistory(u) PROVE OneHandler'
    BY <1>4, BegunIsOne, Zenon DEF HandleHistory
<1>5. ASSUME NEW m \in Message, Save(m) PROVE OneHandler'
    BY <1>0, <1>5, Zenon DEF Save
<1>6. ASSUME NEW t \in task,
             FinishSend(t) \/ NotifyRecall(t) \/ UpdateMessageContent(t) \/ DeliverOffline(t) \/ DeliverHistory(t)
      PROVE  OneHandler'
  <2>1. Ends(t)
      BY <1>6, Zenon DEF FinishSend, NotifyRecall, UpdateMessageContent, DeliverOffline, DeliverHistory
  <2>2. task' \subseteq task
      BY <2>1, Zenon DEF Ends
  <2> QED  BY <1>0, <2>2
<1> QED  BY <1>1, <1>2, <1>3, <1>4, <1>5, <1>6, Zenon DEF GatewayActs

\* A message gets a MsgId once.
LEMMA IdsOnce ==
    ASSUME ConversationInv, OneId, GatewayActs
    PROVE  OneId'
<1>0. CASE order' = order
    BY <1>0, Zenon DEF OneId
<1>1. ASSUME Takes("author", {"send"}), Place(Head(inbox["author"])) PROVE OneId'
  <2>1. PICK r : r = Head(inbox["author"])
      BY Zenon
  <2>2. r.msg \notin Range(order) /\ r.msg \in Message
      BY <1>1, <2>1, SendTaken, Zenon
  <2>3. order' = Append(order, r.msg) /\ order \in Seq(Message)
      BY <1>1, <2>1, GatewayTypes, Zenon DEF Place, ConversationInv
  <2>4. \A i \in DOMAIN order : order[i] # r.msg
      BY <2>2 DEF Range
  <2> QED  BY <2>2, <2>3, <2>4 DEF OneId
<1>2. CASE HandleChat \/ HandleForward
    BY <1>1, <1>2, Zenon DEF HandleChat, HandleForward
<1>3. CASE Duplicate \/ Refuse \/ HandleRecall \/ HandleEdit \/ HandleReadReceipt \/ HandleOffline
    BY <1>0, <1>3, Zenon DEF Duplicate, Refuse, HandleRecall, HandleEdit, HandleReadReceipt, HandleOffline, gateway
<1>4. ASSUME NEW u \in User, HandleHistory(u) PROVE OneId'
    BY <1>0, <1>4, Zenon DEF HandleHistory
<1>5. ASSUME NEW m \in Message, Save(m) PROVE OneId'
    BY <1>0, <1>5, Zenon DEF Save
<1>6. ASSUME NEW t \in task,
             FinishSend(t) \/ NotifyRecall(t) \/ UpdateMessageContent(t) \/ DeliverOffline(t) \/ DeliverHistory(t)
      PROVE  OneId'
    BY <1>0, <1>6, Zenon DEF FinishSend, NotifyRecall, UpdateMessageContent, DeliverOffline, DeliverHistory
<1> QED  BY <1>2, <1>3, <1>4, <1>5, <1>6, Zenon DEF GatewayActs

\* Connections come and go.
LEMMA ConnectionsFit ==
    ASSUME Known, Room, OneHandler, OneId, NEW u \in User, Connect(u) \/ Drop(u) \/ Reload(u)
    PROVE  Room' /\ OneHandler' /\ OneId'
<1>1. push \in [User -> Seq(Notices(Range(order)))] /\ Buffer \in Nat \ {0}
    BY GatewayTypes, ConversationAssumption DEF ConversationAssumption
<1>2. CASE Connect(u)
  <2>1. push' = [push EXCEPT ![u] = IF u = "reader" THEN <<Bare("login")>> ELSE <<>>]
      BY <1>2, Zenon DEF Connect
  <2>2. Room'
      BY <1>1, <2>1 DEF Room
  <2>3. UNCHANGED <<task, order>>
      BY <1>2, Zenon DEF Connect, gateway
  <2> QED  BY <2>2, <2>3, Zenon DEF OneHandler, OneId
<1>3. CASE Drop(u) \/ Reload(u)
  <2>1. /\ push' = [push EXCEPT ![u] = <<>>] /\ order' = order
        /\ task' = {IF t.by = u THEN [t EXCEPT !.live = "no"] ELSE t : t \in task}
      BY <1>3, Zenon DEF Drop, Reload, Disconnect
  <2>2. Room'
      BY <1>1, <2>1 DEF Room
  <2>3. \A t \in task : [t EXCEPT !.live = "no"].live = "no"
    <3>1. task \subseteq Tasks(Range(order))
        BY GatewayTypes, Zenon
    <3> QED  BY <3>1, Cuts, Zenon
  <2>4. \A t \in task' : t.live = "yes" => t \in task
      BY Zenon, <2>1, <2>3
  <2> QED  BY <2>1, <2>2, <2>4, Zenon DEF OneHandler, OneId
<1> QED  BY <1>2, <1>3

\* Queues, handlers, rows and pages have their types, no buffer holds more than its
\* capacity, a connection runs one handler at a time (the read loop), and no message
\* gets two MsgIds.
THEOREM TypeCorrect == Spec => []TypeOK
<1> DEFINE Inv == Room /\ OneHandler /\ OneId
<1>1. Init => Inv
  <2> SUFFICES ASSUME Init PROVE Inv
      OBVIOUS
  <2>1. Room
      BY ConversationAssumption DEF Init, Room, ConversationAssumption
  <2> QED  BY <2>1 DEF Init, OneHandler, OneId
<1>2. ConversationInv /\ Inv /\ [Next]_vars => Inv'
  <2> SUFFICES ASSUME ConversationInv, Room, OneHandler, OneId, [Next]_vars PROVE Inv'
      OBVIOUS
  <2>1. Known
      BY Zenon DEF ConversationInv
  <2>2. CASE AuthorActs \/ PageActs
      BY <2>1, <2>2, PagesFit, PagesBeginNone, Zenon DEF OneHandler, OneId
  <2>3. CASE GatewayActs
      BY <2>1, <2>3, HandlersFit, HandlersAlone, IdsOnce, Zenon
  <2>4. ASSUME NEW u \in User, Connect(u) \/ Drop(u) \/ Reload(u) PROVE Inv'
      BY <2>1, <2>4, ConnectionsFit, Zenon
  <2>5. CASE UNCHANGED vars
      BY <2>5, Zenon DEF Room, OneHandler, OneId, vars
  <2> QED  BY <2>2, <2>3, <2>4, <2>5, Zenon DEF Next
<1>3. ConversationInv /\ Inv => TypeOK
    BY Zenon DEF ConversationInv, Known, TypeOK, Room, OneHandler, OneId
<1> QED  BY <1>1, <1>2, <1>3, ConversationInvariant, PTL DEF Spec

=============================================================================
