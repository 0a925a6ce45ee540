---------------------------- MODULE Conversation ----------------------------
(***************************************************************************)
(* A one-to-one conversation end to end: the web clients of the author and *)
(* of the reader (web/src/hooks, web/src/stores, web/src/lib/ws.ts), the   *)
(* handlers the gateway runs for their connections (router.go), the        *)
(* reader's offline queue and unread count, and the rows of the message    *)
(* store, which are written after the ACK.                                 *)
(*                                                                         *)
(* A connection has one read loop, so it runs one handler at a time; a     *)
(* handler whose connection is gone goes on to its end.  An action of the  *)
(* gateway is one access to shared state of a handler.  Looking a client   *)
(* up and sending or storing is one step here; Delivery takes it apart.    *)
(*                                                                         *)
(* Time is the number of MsgIds assigned so far: a message is stamped with *)
(* its place in order.                                                     *)
(***************************************************************************)
EXTENDS ChatView, FiniteSets

CONSTANTS
    Written,     \* bound: messages the author writes
    Kinds,       \* the choices for kind
    Buffer,      \* capacity of Client.send
    MaxEvents    \* bound: messages sent, lost connections, reloaded pages, refusals,
                 \* timeouts, recalls, edits and requests for the history, all told

ASSUME ConversationAssumption ==
    /\ Written \in Nat
    /\ Unassigned \notin 1..Written
    /\ Buffer \in Nat \ {0}
    /\ Kinds \subseteq [1..Written -> {"chat", "forward", "file"}]

User == {"author", "reader"}

\* What the author writes, in this order.
Message == 1..Written

VARIABLES
    kind,     \* kind[m]: the command of m, chosen once
    up,       \* up[u]: u has a registered connection
    inbox,    \* inbox[u]: requests of u the read loop has not taken yet
    push,     \* push[u]: Client.send and the socket behind it
    task,     \* the handlers that are running
    order,    \* messages that have a MsgId, in the order of snow.Next
    dedup,    \* DedupCache.seen: the author's seq -> message
    offq,     \* the reader's offline queue
    unread,   \* the reader's unread count for the author
    row,      \* row[m]: the row of m in the message store
    view,     \* view[u]: what u's page shows
    load,     \* load[u]: the history request of u's page
    more,     \* more[u]: hasMore of the conversation
    seqno,    \* WSManager.seqCounter of the author's page
    asked,    \* <<op, m>>: what the author did so far
    follows,  \* whether the reader's page sends read receipts: the author was the
              \* activePeer when its handler was made
    events,   \* what MaxEvents bounds, so far, but the messages sent
    log       \* history: <<why, m>>: what kept the views and the store apart

vars == <<kind, up, inbox, push, task, order, dedup, offq, unread, row, view, load, more,
          seqno, asked, follows, events, log>>

gateway == <<task, order, dedup, offq, unread, row>>
clients == <<kind, view, load, more, seqno, asked, follows>>

NoRow == [state |-> "none", recalled |-> "no", text |-> "first"]
NoLoad == [at |-> "off", existing |-> {}, before |-> 0]

Now == Len(order) + 1
StampOf(m) == IF m \in Range(order) THEN Min({i \in DOMAIN order : order[i] = m}) ELSE Now

Init ==
    /\ kind \in Kinds
    /\ up = [u \in User |-> TRUE]
    /\ inbox = [u \in User |-> <<>>]
    /\ push = [u \in User |-> <<>>]
    /\ task = {}
    /\ order = <<>>
    /\ dedup = <<>>
    /\ offq = <<>>
    /\ unread = 0
    /\ row = [m \in Message |-> NoRow]
    /\ view = [u \in User |-> <<>>]
    /\ load = [u \in User |-> NoLoad]
    /\ more = [u \in User |-> "yes"]
    /\ seqno = 0
    /\ asked = {}
    /\ follows = "yes"
    /\ events = 0
    /\ log = {}

-----------------------------------------------------------------------------
(* What is sent: requests to the gateway, notices to the clients           *)

Request(op, m, seq, at) == [op |-> op, msg |-> m, seq |-> seq, at |-> at]
Notice(cmd, m, seq, at, text) ==
    [cmd |-> cmd, id |-> m, seq |-> seq, at |-> at, text |-> text]
Bare(cmd) == Notice(cmd, Unassigned, 0, 0, "first")
Original(m) == Notice(kind[m], m, 0, StampOf(m), "first")

Full(u) == Len(push[u]) >= Buffer

\* WSManager.send: nothing is sent, and nobody is told, without a connection.
Ask(u, r) ==
    inbox' = IF up[u] THEN [inbox EXCEPT ![u] = Append(@, r)] ELSE inbox

\* Client.Send, its error ignored.
TrySend(u, n) ==
    push' = IF up[u] /\ ~Full(u) THEN [push EXCEPT ![u] = Append(@, n)] ELSE push

\* Mutant: what cannot be pushed to the reader is dropped.
DeliverOnline(n) == TrySend("reader", n) /\ UNCHANGED offq

\* Send to the reader or store offline: Get, Send and routeOrStoreOffline on one
\* gateway.
Deliver(n) ==
    IF up["reader"] /\ ~Full("reader")
    THEN TrySend("reader", n) /\ UNCHANGED offq
    ELSE offq' = Append(offq, n) /\ UNCHANGED push

Log(what, m) == log' = log \cup {<<what, m>>}

Sent == {m \in Message : <<"send", m>> \in asked}

Within == events + Cardinality(Sent) < MaxEvents
Spend == Within /\ events' = events + 1

-----------------------------------------------------------------------------
(* The author's page                                                       *)

\* Show the message, then send it.
SendAs(m, cmd) ==
    LET b == [msg |-> m, id |-> Unassigned, seq |-> seqno + 1, at |-> Now,
              status |-> "sending", recalled |-> "no", text |-> "first"] IN
    /\ m = Cardinality(Sent) + 1
    /\ Within
    /\ kind[m] = cmd
    /\ seqno' = seqno + 1
    /\ view' = [view EXCEPT !["author"] = addMessage(@, b)]
    /\ Ask("author", Request("send", m, seqno + 1, 0))
    /\ asked' = asked \cup {<<"send", m>>}
    /\ UNCHANGED <<up, push, gateway, load, more, kind, follows, events, log>>

sendText(m) == SendAs(m, "chat")
sendFile(m) == SendAs(m, "file")
forwardMessage(m) == SendAs(m, "forward")

\* MessageBubble offers a change of bubbles that have an id and are not recalled.
Change(op, i) ==
    LET b == view["author"][i] IN
    /\ b.id # Unassigned
    /\ b.recalled = "no"
    /\ <<op, b.id>> \notin asked
    /\ Spend
    /\ Ask("author", Request(op, b.id, 0, 0))
    /\ asked' = asked \cup {<<op, b.id>>}
    /\ UNCHANGED <<up, push, gateway, view, load, more, seqno, kind, follows, log>>

recallMessage(i) == Change("recall", i)

\* Only texts can be edited.
editMessage(i) == kind[view["author"][i].msg] # "file" /\ Change("edit", i)

-----------------------------------------------------------------------------
(* The pages                                                               *)

\* loadHistory: the request is sent, or tried again until there is a connection.
\* A page loads once at a time.
LoadHistory(u) ==
    LET before == BeforeTs(view[u], Now) IN
    /\ more[u] = "yes"
    /\ load[u].at = "off"
    /\ Spend
    /\ Ask(u, Request("history", Unassigned, 0, before))
    /\ load' = [load EXCEPT ![u] = [at |-> IF up[u] THEN "sent" ELSE "asking",
                                    existing |-> IdsOf(view[u]), before |-> before]]
    /\ UNCHANGED <<up, push, gateway, view, more, seqno, asked, kind, follows, log>>

\* sendHistoryRequest again, also when nobody waits for the answer any more.
RetryHistoryRequest(u) ==
    /\ load[u].at \in {"asking", "late"}
    /\ up[u]
    /\ Ask(u, Request("history", Unassigned, 0, load[u].before))
    /\ load' = [load EXCEPT ![u] = IF @.at = "late" THEN NoLoad
                                   ELSE [@ EXCEPT !.at = "sent"]]
    /\ UNCHANGED <<up, push, gateway, view, more, seqno, asked, kind, follows, events, log>>

\* The eight seconds of loadHistory are over.
LoadTimeout(u) ==
    /\ load[u].at \in {"asking", "sent"}
    /\ Spend
    /\ load' = [load EXCEPT ![u] = IF @.at = "sent" THEN NoLoad
                                   ELSE [@ EXCEPT !.at = "late"]]
    /\ UNCHANGED <<up, inbox, push, gateway, view, more, seqno, asked, kind, follows, log>>

-----------------------------------------------------------------------------
(* handleMessage of useWebSocket.ts, one action per command                *)

\* The next notice of u is one of cmds; it is taken off the connection.
Receives(u, cmds) ==
    /\ push[u] # <<>>
    /\ Head(push[u]).cmd \in cmds
    /\ push' = [push EXCEPT ![u] = Tail(@)]
    /\ UNCHANGED <<up, gateway, seqno, asked, kind, follows, events>>

\* A message of the conversation becomes a bubble, unless it is a recalled chat.
\* A forwarded message is filed under its sender, so the author's own one never
\* comes back to this conversation, and files are not shown.
Shown(u, n) ==
    LET b == [msg |-> n.id, id |-> n.id, seq |-> 0, at |-> n.at, status |-> "sent",
              recalled |-> "no", text |-> n.text]
    IN  CASE n.cmd = "chat" /\ n.text = "gone" -> markRecalled(view[u], n.id)
          [] n.cmd = "chat" /\ n.text # "gone" -> addMessage(view[u], b)
          [] n.cmd = "forward" /\ u = "reader" -> addMessage(view[u], b)
          [] OTHER -> view[u]

OnMessage(u) ==
    LET n == Head(push[u]) IN
    /\ Receives(u, {"chat", "forward", "file"})
    /\ view' = [view EXCEPT ![u] = Shown(u, n)]
    /\ IF u = "reader" /\ follows = "yes" /\ n.cmd = "chat" /\ n.text # "gone"
       THEN Ask(u, Request("receipt", n.id, 0, 0))
       ELSE UNCHANGED inbox
    /\ UNCHANGED <<load, more, log>>

OnAck ==
    LET n == Head(push["author"]) IN
    /\ Receives("author", {"ack"})
    /\ view' = [view EXCEPT !["author"] = confirmMessage(@, n.seq, n.id, n.at)]
    /\ UNCHANGED <<inbox, load, more, log>>

\* LoginResp: the page asks for what was stored offline.  The author's page does so
\* too, but in this conversation nothing is stored for the author.
OnLoginResp ==
    /\ Receives("reader", {"login"})
    /\ Ask("reader", Request("offline", Unassigned, 0, 0))
    /\ UNCHANGED <<view, load, more, log>>

\* Recall and Edit change a bubble that is there, and are gone if there is none.
OnChange ==
    LET n == Head(push["reader"]) IN
    /\ Receives("reader", {"recall", "edit"})
    /\ view' = [view EXCEPT !["reader"] =
                   IF n.cmd = "recall" THEN markRecalled(@, n.id) ELSE applyEdit(@, n.id)]
    /\ IF n.id \in IdsOf(view["reader"]) THEN UNCHANGED log ELSE Log("early", n.id)
    /\ UNCHANGED <<inbox, load, more>>

OnReadReceipt ==
    /\ Receives("author", {"receipt"})
    /\ view' = [view EXCEPT !["author"] = markMessagesRead(@)]
    /\ UNCHANGED <<inbox, load, more, log>>

\* The History signal: the callback of loadHistory, if it still waits.  So few
\* messages are fewer than HISTORY_LIMIT, and there is no more to load.
OnHistory(u) ==
    /\ Receives(u, {"history"})
    /\ IF load[u].at \in {"off", "late"} THEN UNCHANGED <<view, load, more>>
       ELSE /\ view' = [view EXCEPT ![u] = rebuild(@, load[u].existing)]
            /\ load' = [load EXCEPT ![u] = NoLoad]
            /\ more' = [more EXCEPT ![u] = "no"]
    /\ UNCHANGED <<inbox, log>>

\* The error notice of a recall says nothing the page uses.
OnRecallError ==
    /\ Receives("author", {"error"})
    /\ UNCHANGED <<inbox, view, load, more, log>>

-----------------------------------------------------------------------------
(* Connections                                                             *)

Connect(u) ==
    /\ ~up[u]
    /\ up' = [up EXCEPT ![u] = TRUE]
    /\ push' = [push EXCEPT ![u] = IF u = "reader" THEN <<Bare("login")>> ELSE <<>>]
    /\ UNCHANGED <<inbox, gateway, clients, events, log>>

\* What was under way is lost; handlers lose their connection.
Disconnect(u) ==
    /\ up[u]
    /\ up' = [up EXCEPT ![u] = FALSE]
    /\ inbox' = [inbox EXCEPT ![u] = <<>>]
    /\ push' = [push EXCEPT ![u] = <<>>]
    /\ task' = {IF t.by = u THEN [t EXCEPT !.live = "no"] ELSE t : t \in task}
    /\ UNCHANGED <<order, dedup, offq, unread, row>>

Lost(u) == {<<"lost", n.id>> : n \in IF u = "reader" THEN Range(push[u]) ELSE {}}

Drop(u) ==
    /\ Spend
    /\ Disconnect(u)
    /\ log' = log \cup Lost(u)
    /\ UNCHANGED clients

\* Messages u's page shows, from the history, that are still stored for the reader.
Twice(u) ==
    LET drained == {t \in task : t.op = "drained"}
        stored == Range(offq) \cup UNION {Range(t.list) : t \in drained}
    IN  {<<"again", n.id>> : n \in {n \in stored : u = "reader" /\ n.id \in IdsOf(view[u])}}

\* The page is loaded anew: its state starts over, seqCounter included, and the
\* handler of useWebSocket keeps the activePeer of its first rendering, none.
Reload(u) ==
    /\ Spend
    /\ Disconnect(u)
    /\ log' = log \cup Lost(u) \cup Twice(u)
    /\ view' = [view EXCEPT ![u] = <<>>]
    /\ load' = [load EXCEPT ![u] = NoLoad]
    /\ more' = [more EXCEPT ![u] = "yes"]
    /\ seqno' = IF u = "author" THEN 0 ELSE seqno
    /\ follows' = IF u = "reader" THEN "no" ELSE follows
    /\ UNCHANGED <<kind, asked>>

-----------------------------------------------------------------------------
(* The handlers of the gateway                                             *)

Task(u, op, m, seq, list) ==
    [by |-> u, op |-> op, msg |-> m, seq |-> seq, list |-> list, live |-> "yes"]

\* The read loop of u takes the next request, which asks for one of ops.
Takes(u, ops) ==
    /\ inbox[u] # <<>>
    /\ Head(inbox[u]).op \in ops
    /\ ~\E t \in task : t.by = u /\ t.live = "yes"
    /\ inbox' = [inbox EXCEPT ![u] = Tail(@)]
    /\ UNCHANGED <<up, clients>>

Runs(t, op) == t.op = op /\ UNCHANGED <<up, inbox, clients, events>>
Ends(t) == task' = task \ {t}

\* An answer on the connection the handler was called for.
Answer(t, n) == IF t.live = "yes" THEN TrySend(t.by, n) ELSE UNCHANGED push

Ack(m, seq) == Notice("ack", m, seq, Now, "first")

\* IsDuplicate: the ACK of the message that had this seq is sent again.
Duplicate ==
    LET r == Head(inbox["author"]) IN
    /\ Takes("author", {"send"})
    /\ kind[r.msg] # "forward"
    /\ r.seq \in DOMAIN dedup
    /\ TrySend("author", Ack(dedup[r.seq], r.seq))
    /\ Log("reused", r.msg)
    /\ UNCHANGED <<task, order, dedup, offq, unread, row, events>>

\* The message gets its MsgId and timestamp and is delivered.
Place(r) ==
    /\ order' = Append(order, r.msg)
    /\ Deliver([Original(r.msg) EXCEPT !.at = Now])
    /\ task' = task \cup {Task("author", "finish", r.msg, r.seq, <<>>)}
    /\ UNCHANGED <<unread, row, events, log>>

\* handleChat up to the Mark, which is left out when Send failed.
HandleChat ==
    LET r == Head(inbox["author"]) IN
    /\ Takes("author", {"send"})
    /\ kind[r.msg] # "forward"
    /\ r.seq \notin DOMAIN dedup
    /\ Place(r)
    /\ dedup' = IF up["reader"] /\ Full("reader") THEN dedup
                ELSE [q \in DOMAIN dedup \cup {r.seq} |->
                         IF q = r.seq THEN r.msg ELSE dedup[q]]

\* handleForward knows neither IsDuplicate nor Mark nor the rate limit.
HandleForward ==
    LET r == Head(inbox["author"]) IN
    /\ Takes("author", {"send"})
    /\ kind[r.msg] = "forward"
    /\ Place(r)
    /\ UNCHANGED dedup

\* Mutant: a refused message is acknowledged.
RefuseWithAck ==
    LET r == Head(inbox["author"]) IN
    /\ Takes("author", {"send"})
    /\ kind[r.msg] # "forward"
    /\ r.seq \notin DOMAIN dedup
    /\ Spend
    /\ TrySend("author", Ack(r.msg, r.seq))
    /\ UNCHANGED <<gateway, log>>

\* checkRateLimit refuses: nobody is told.
Refuse ==
    LET r == Head(inbox["author"]) IN
    /\ Takes("author", {"send"})
    /\ kind[r.msg] # "forward"
    /\ r.seq \notin DOMAIN dedup
    /\ Spend
    /\ UNCHANGED <<push, gateway, log>>

Increment == unread' = unread + 1

\* The rest of handleChat and handleForward: Increment, the ACK and persistAsync.
FinishSend(t) ==
    /\ Runs(t, "finish")
    /\ Increment
    /\ Answer(t, Ack(t.msg, t.seq))
    /\ row' = [row EXCEPT ![t.msg].state = "queued"]
    /\ Ends(t)
    /\ UNCHANGED <<order, dedup, offq, log>>

\* A persist worker or the Kafka consumer: MessageStore.Save.
Save(m) ==
    /\ row[m].state = "queued"
    /\ row' = [row EXCEPT ![m].state = "saved"]
    /\ UNCHANGED <<up, inbox, push, task, order, dedup, offq, unread, clients, events,
                   log>>

\* handleRecall: RecallMessage changes a row that is there and not recalled yet.
HandleRecall ==
    LET m == Head(inbox["author"]).msg IN
    /\ Takes("author", {"recall"})
    /\ IF row[m].state = "saved" /\ row[m].recalled = "no"
       THEN /\ row' = [row EXCEPT ![m].recalled = "yes"]
            /\ task' = task \cup {Task("author", "recall", m, 0, <<>>)}
            /\ UNCHANGED push
       ELSE TrySend("author", Bare("error")) /\ UNCHANGED <<row, task>>
    /\ UNCHANGED <<order, dedup, offq, unread, events, log>>

NotifyRecall(t) ==
    /\ Runs(t, "recall")
    /\ Deliver(Notice("recall", t.msg, 0, 0, "first"))
    /\ Ends(t)
    /\ UNCHANGED <<order, dedup, unread, row, log>>

\* handleEdit: the notice first, then UpdateMessageContent.
HandleEdit ==
    LET m == Head(inbox["author"]).msg IN
    /\ Takes("author", {"edit"})
    /\ Deliver(Notice("edit", m, 0, 0, "first"))
    /\ task' = task \cup {Task("author", "edit", m, 0, <<>>)}
    /\ UNCHANGED <<order, dedup, unread, row, events, log>>

\* The update of a row that is not there yet fails, which is logged only.
UpdateMessageContent(t) ==
    /\ Runs(t, "edit")
    /\ Ends(t)
    /\ IF row[t.msg].state = "saved"
       THEN row' = [row EXCEPT ![t.msg].text = "edited"] /\ UNCHANGED log
       ELSE Log("unsaved", t.msg) /\ UNCHANGED row
    /\ UNCHANGED <<push, order, dedup, offq, unread>>

\* Mutant: the count of the author for the reader is cleared instead.
MarkReadSwapped(m) == UNCHANGED unread

MarkRead(m) == unread' = 0

\* handleReadReceipt: MarkRead, and the receipt for the author, which is dropped when
\* it cannot be pushed.
HandleReadReceipt ==
    LET m == Head(inbox["reader"]).msg IN
    /\ Takes("reader", {"receipt"})
    /\ MarkRead(m)
    /\ TrySend("author", Bare("receipt"))
    /\ log' = log \cup {<<"read", m>>}
                  \cup {<<"uncounted", t.msg>> : t \in {t \in task : t.op = "finish"}}
    /\ UNCHANGED <<task, order, dedup, offq, row, events>>

\* handleOffline: DrainOffline.
HandleOffline ==
    /\ Takes("reader", {"offline"})
    /\ task' = task \cup {Task("reader", "drained", Unassigned, 0, offq)}
    /\ offq' = <<>>
    /\ UNCHANGED <<push, order, dedup, unread, row, events, log>>

\* How many of the notices fit in the send buffer of the handler's connection.
Fits(t) ==
    IF t.live = "no" THEN 0
    ELSE Min({Len(t.list), IF Full(t.by) THEN 0 ELSE Buffer - Len(push[t.by])})

\* The drained messages are sent; the rest, from the first that does not fit, is
\* stored offline again.
DeliverOffline(t) ==
    LET k == Fits(t) IN
    /\ Runs(t, "drained")
    /\ push' = [push EXCEPT ![t.by] = @ \o SubSeq(t.list, 1, k)]
    /\ offq' = offq \o SubSeq(t.list, k + 1, Len(t.list))
    /\ Ends(t)
    /\ UNCHANGED <<order, dedup, unread, row, log>>

RowNotice(m) ==
    Notice(kind[m], m, 0, StampOf(m),
           IF row[m].recalled = "yes" THEN "gone" ELSE row[m].text)

\* QueryHistory: the rows older than before, newest first.
QueryHistory(before) ==
    LET old == {i \in DOMAIN order : i < before /\ row[order[i]].state = "saved"}
    IN  [i \in 1..Cardinality(old) |-> RowNotice(Reverse(Filter(order, old))[i])]

\* handleHistory: the query.  It reads the old text of a row whose edit the reader has
\* been told of already.
HandleHistory(u) ==
    /\ Takes(u, {"history"})
    /\ task' = task \cup {Task(u, "queried", Unassigned, 0, QueryHistory(Head(inbox[u]).at))}
    /\ log' = log \cup {<<"between", t.msg>> : t \in {t \in task : u = "reader" /\ t.op = "edit"}}
    /\ UNCHANGED <<push, order, dedup, offq, unread, row, events>>

\* The rows that fit are sent, then the signal, if it fits.
DeliverHistory(t) ==
    LET k == Fits(t)
        sent == SubSeq(t.list, 1, k) IN
    /\ Runs(t, "queried")
    /\ push' = [push EXCEPT ![t.by] =
                   IF t.live = "no" THEN @
                   ELSE IF Len(@) + k < Buffer THEN @ \o Append(sent, Bare("history"))
                   ELSE @ \o sent]
    /\ Ends(t)
    /\ UNCHANGED <<order, dedup, offq, unread, row, log>>

-----------------------------------------------------------------------------
AuthorActs ==
    \/ \E m \in Message : sendText(m) \/ sendFile(m) \/ forwardMessage(m)
    \/ \E i \in DOMAIN view["author"] : recallMessage(i) \/ editMessage(i)

PageActs ==
    \/ \E u \in User : \/ LoadHistory(u) \/ RetryHistoryRequest(u) \/ LoadTimeout(u)
                       \/ OnMessage(u) \/ OnHistory(u)
    \/ OnAck \/ OnLoginResp \/ OnChange \/ OnReadReceipt \/ OnRecallError

GatewayActs ==
    \/ Duplicate \/ HandleChat \/ HandleForward \/ Refuse \/ HandleRecall \/ HandleEdit
    \/ HandleReadReceipt \/ HandleOffline
    \/ \E u \in User : HandleHistory(u)
    \/ \E m \in Message : Save(m)
    \/ \E t \in task : \/ FinishSend(t) \/ NotifyRecall(t)
                       \/ UpdateMessageContent(t)
                       \/ DeliverOffline(t) \/ DeliverHistory(t)

Next ==
    \/ AuthorActs
    \/ PageActs
    \/ GatewayActs
    \/ \E u \in User : Connect(u) \/ Drop(u) \/ Reload(u)

Spec == Init /\ [][Next]_vars

-----------------------------------------------------------------------------
(* Properties                                                              *)

Texts == {"first", "edited", "gone"}

\* What is under way speaks only of messages of K, those that have a MsgId.
Notices(K) ==
    [cmd : {"chat", "forward", "file", "ack", "recall", "edit"}, id : K,
     seq : Nat, at : Nat, text : Texts]
    \cup [cmd : {"login", "receipt", "history", "error"}, id : {Unassigned},
          seq : Nat, at : Nat, text : Texts]

\* The rows of the history.
Copies(K) ==
    [cmd : {"chat", "forward", "file"}, id : K, seq : Nat, at : Nat, text : Texts]

\* What the pages ask the gateway for.
Requests(K) ==
    [op : {"send"}, msg : Message, seq : Nat, at : Nat]
    \cup [op : {"recall", "edit", "receipt"}, msg : K, seq : Nat, at : Nat]
    \cup [op : {"history", "offline"}, msg : {Unassigned}, seq : Nat, at : Nat]

\* The handlers that are running.
Tasks(K) ==
    [by : {"author"}, op : {"finish", "recall", "edit"}, msg : K, seq : Nat,
     list : {<<>>}, live : {"yes", "no"}]
    \cup [by : {"reader"}, op : {"drained"}, msg : {Unassigned}, seq : Nat,
          list : Seq(Notices(K)), live : {"yes", "no"}]
    \cup [by : User, op : {"queried"}, msg : {Unassigned}, seq : Nat,
          list : Seq(Copies(K)), live : {"yes", "no"}]

\* What a page shows.
Bubbles(K) ==
    [msg : Message, id : K \cup {Unassigned}, seq : Nat, at : Nat,
     status : {"sending", "sent", "read"}, recalled : {"yes", "no"}, text : Texts]

Rows == [state : {"none", "queued", "saved"}, recalled : {"yes", "no"}, text : Texts]

\* Queues, handlers, rows and pages have their types, over the messages K that have a
\* MsgId.
Typed(K) ==
    /\ kind \in [Message -> {"chat", "forward", "file"}]
    /\ up \in [User -> BOOLEAN]
    /\ inbox \in [User -> Seq(Requests(K))]
    /\ push \in [User -> Seq(Notices(K))]
    /\ task \subseteq Tasks(K)
    /\ order \in Seq(Message)
    /\ DOMAIN dedup \subseteq Nat
    /\ \A q \in DOMAIN dedup : dedup[q] \in K
    /\ offq \in Seq(Notices(K))
    /\ unread \in Nat
    /\ row \in [Message -> Rows]
    /\ view \in [User -> Seq(Bubbles(K))]
    /\ seqno \in Nat
    /\ DOMAIN load = User /\ \A u \in User : load[u].before \in Nat

\* Queues, handlers, rows and pages have their types and speak only of messages that
\* have a MsgId, but for those the author sends; no buffer holds more than Client.send does, a
\* connection runs one handler at a time (its read loop), and no message has two
\* MsgIds.
TypeOK ==
    /\ Typed(Range(order))
    /\ \A u \in User : Len(push[u]) <= Buffer
    /\ \A s, t \in task : (s.by = t.by /\ s.live = "yes" /\ t.live = "yes") => s = t
    /\ \A i, j \in DOMAIN order : i # j => order[i] # order[j]

\* No message stands twice in a page under its MsgId, however the live copy, the
\* offline copy and the copies of the history come in (chatStore.addMessage and
\* confirmMessage, useChat.loadHistory), unless a page loaded anew used a seq again
\* and got the ACK of another message.
ShownOnce ==
    \A u \in User : \A i, j \in DOMAIN view[u] :
        (i # j /\ view[u][i].id = view[u][j].id /\ view[u][i].id # Unassigned) =>
        \E m \in Message : <<"reused", m>> \in log

\* A message its author sees as sent or read has been given a MsgId and been
\* delivered or stored for the reader: handleChat sends the ACK last, and the page
\* matches it by seq (confirmMessage).  The exception is a seq used again after the
\* page was loaded anew: the ACK is that of the earlier message.
SentIsPlaced ==
    \A i \in DOMAIN view["author"] : LET b == view["author"][i] IN
        b.status # "sending" => b.msg \in Range(order) \/ <<"reused", b.msg>> \in log

\* Everything has arrived.
Quiet ==
    /\ task = {}
    /\ offq = <<>>
    /\ \A u \in User : inbox[u] = <<>> /\ push[u] = <<>>
    /\ \A m \in Message : row[m].state # "queued"

\* Once everything has arrived the reader sees of a message what the store says of
\* it, recalled, edited or neither (handleRecall changes the row and then tells the
\* reader, handleEdit the other way round), except in the ways the log names: the
\* notice was lost with a connection, it arrived before the message it is about,
\* the edit was made before the row was written, the history was read between the
\* notice of the edit and its update, or the page was loaded anew, with the notice
\* it had, while the offline queue still held the message as it was sent.
ViewAgrees ==
    Quiet => \A i \in DOMAIN view["reader"] : LET b == view["reader"][i] IN
        \/ row[b.id].recalled = "yes" /\ (b.recalled = "yes" \/ b.text = "gone")
        \/ row[b.id].recalled = "no" /\ b.recalled = "no" /\ b.text = row[b.id].text
        \/ \E why \in {"lost", "early", "unsaved", "between", "again"} : <<why, b.id>> \in log

\* The unread count never counts a message the gateway has a read receipt for,
\* unless the receipt overtook the count (handleReadReceipt clears it between the
\* delivery and the Increment of handleChat).
CountsUnreadOnly ==
    unread <= Cardinality({m \in Range(order) :
                             <<"read", m>> \notin log \/ <<"uncounted", m>> \in log})

\* The ACK a message gets is its own: DedupCache holds back retries only, so no
\* message is given the MsgId of another (IsDuplicate, WSManager.nextSeq).
AckIsOwn ==
    \A i \in DOMAIN view["author"] :
        view["author"][i].id \in {Unassigned, view["author"][i].msg}
=============================================================================
