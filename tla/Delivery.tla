------------------------------ MODULE Delivery ------------------------------
(***************************************************************************)
(* Message delivery on one gateway: Router.handleChat with the dedup cache *)
(* and the group fan-out, Router.handleOffline, and the offline queue of   *)
(* the Hub, on top of the registry that Connections specifies.             *)
(*                                                                         *)
(* A handler h is one running call of Router.Route.  Every action is one   *)
(* access to shared state: Hub.Get, Client.Send, one critical section of   *)
(* the dedup cache or of the offline queue.  A client message is the key   *)
(* (sender, seq) it carries; a delivered message is the MsgId the router   *)
(* gave it, numbered 1, 2, ... in the order of snow.Next.                  *)
(***************************************************************************)
EXTENDS Connections, FiniteSets

CONSTANTS
    Handler,         \* calls of Route that may run at the same time
    Key,             \* client messages (sender, seq) with seq > 0
    From,            \* From[k]: the sender of k
    To,              \* To[k]: its recipients, without the sender
    Group,           \* Group[k]: k is a group message
    OfflineMaxSize,  \* Hub.offlineMaxSize
    Pooled,          \* gnet connections: their messages are handled in parallel
    Expires,         \* dedup entries reach their TTL
    GroupLookupFails,\* GetMembers may return an error
    MaxId            \* bound: message ids handed out

ASSUME DeliveryAssumption ==
    /\ OfflineMaxSize \in Nat \ {0}
    /\ MaxId \in Nat
    /\ NoConn \notin Conn /\ \A c \in Conn : Owner[c] \in Uid
    /\ \A k \in Key : From[k] \in Uid /\ To[k] \subseteq Uid \ {From[k]}

VARIABLES
    seen,      \* DedupCache.seen: key -> MsgId, 0 when absent
    origin,    \* origin[i]: the key and the connection message i came from
    offq,      \* Hub.offline: user -> queued message ids
    task,      \* task[h]: what handler h is doing
    unread,    \* UnreadTracker: unread[u][v], messages of v that u has not read
    acked,     \* message ids an ACK was sent for
    submitted, \* message ids handed to persistAsync
    dropped,   \* history: <<user, id>> cut off a full offline queue
    failed,    \* history: ids for which a Client.Send returned an error
    forgotten, \* history: keys whose dedup entry expired
    unrouted   \* history: group messages whose members were not found

vars == <<connVars, seen, origin, offq, task, unread, acked, submitted, dropped,
          failed, forgotten, unrouted>>

routerVars == <<seen, origin, offq, unread, acked, submitted, dropped, failed,
                forgotten, unrouted>>

Idle == [at |-> "idle"]
Busy(h) == task[h].at # "idle"
Ids == 1..Len(origin)

Init ==
    /\ ConnInit
    /\ seen = [k \in Key |-> 0]
    /\ origin = <<>>
    /\ offq = [u \in Uid |-> <<>>]
    /\ task = [h \in Handler |-> Idle]
    /\ unread = [u \in Uid |-> [v \in Uid |-> 0]]
    /\ acked = {}
    /\ submitted = {}
    /\ dropped = {}
    /\ failed = {}
    /\ forgotten = {}
    /\ unrouted = {}

-----------------------------------------------------------------------------
(* Hub.StoreOffline, DedupCache.Mark                                       *)

\* Append, then cut the oldest messages off beyond the limit.
StoreOffline(u, i) ==
    LET q == Append(offq[u], i)
        excess == IF Len(q) > OfflineMaxSize THEN Len(q) - OfflineMaxSize ELSE 0
    IN  /\ offq' = [offq EXCEPT ![u] = SubSeq(q, excess + 1, Len(q))]
        /\ dropped' = dropped \cup {<<u, q[j]>> : j \in 1..excess}

SetTask(h, t) == task' = [task EXCEPT ![h] = t]

-----------------------------------------------------------------------------
(* handleChat                                                              *)

\* Mutant: the messages of a WebSocket connection are handled in parallel too.
MayReadParallel(h, c) == ~Busy(h) /\ life[c] = "up"

\* Messages of a WebSocket connection are read and handled one by one.
MayRead(h, c) ==
    /\ ~Busy(h)
    /\ life[c] = "up"
    /\ c \in Pooled \/ \A g \in Handler : Busy(g) => task[g].conn # c

\* IsDuplicate finds the key: the ACK is sent again with the first MsgId.
Duplicate(h, c, k) ==
    /\ MayRead(h, c)
    /\ From[k] = Owner[c]
    /\ seen[k] # 0
    /\ acked' = acked \cup {seen[k]}
    /\ UNCHANGED <<connVars, seen, origin, offq, task, unread, submitted, dropped,
                   failed, forgotten, unrouted>>

\* Mutant: the key is marked before the delivery.
ReceiveMarks(h, c, k) ==
    LET i == Len(origin) + 1 IN
    /\ MayRead(h, c)
    /\ From[k] = Owner[c]
    /\ seen[k] = 0
    /\ i <= MaxId
    /\ To[k] # {}
    /\ origin' = Append(origin, [key |-> k, conn |-> c])
    /\ seen' = [seen EXCEPT ![k] = i]
    /\ SetTask(h, [at |-> "lookup", conn |-> c, id |-> i, todo |-> To[k],
                   uid |-> Owner[c], target |-> NoConn, err |-> FALSE])
    /\ UNCHANGED <<connVars, offq, unread, acked, submitted, dropped, failed,
                   forgotten, unrouted>>

\* IsDuplicate does not find it and the rate limiter lets it pass (otherwise
\* nothing happens): snow.Next, then the recipients.
Receive(h, c, k) ==
    LET i == Len(origin) + 1 IN
    /\ MayRead(h, c)
    /\ From[k] = Owner[c]
    /\ seen[k] = 0
    /\ i <= MaxId
    /\ origin' = Append(origin, [key |-> k, conn |-> c])
    /\ \/ /\ To[k] # {}
          /\ SetTask(h, [at |-> "lookup", conn |-> c, id |-> i, todo |-> To[k],
                         uid |-> Owner[c], target |-> NoConn, err |-> FALSE])
          /\ UNCHANGED unrouted
       \/ /\ Group[k]
          /\ GroupLookupFails \/ To[k] = {}
          /\ SetTask(h, [at |-> "mark", conn |-> c, id |-> i, todo |-> {},
                         uid |-> Owner[c], target |-> NoConn, err |-> FALSE])
          /\ unrouted' = unrouted \cup {i}
    /\ UNCHANGED <<connVars, seen, offq, unread, acked, submitted, dropped, failed,
                   forgotten>>

\* clients.Get of the next recipient.
Lookup(h) ==
    LET t == task[h] IN
    /\ t.at = "lookup"
    /\ \E u \in t.todo :
          SetTask(h, [t EXCEPT !.todo = @ \ {u}, !.uid = u, !.target = clients[u],
                               !.at = IF clients[u] = NoConn THEN "store"
                                      ELSE "push"])
    /\ UNCHANGED <<connVars, routerVars>>

\* Where a handler goes on after one recipient: a single message whose Send
\* failed is not marked, so that the client's retry is not suppressed.
After(t) ==
    IF t.todo # {} THEN "lookup"
    ELSE IF t.err /\ ~Group[origin[t.id].key] THEN "finish"
    ELSE "mark"

\* target.Send.  The target may have been replaced or closed since Lookup.
PushOk(h) ==
    LET t == task[h] IN
    /\ t.at = "push"
    /\ Put(t.target, t.id)
    /\ SetTask(h, [t EXCEPT !.at = After(t)])
    /\ UNCHANGED <<clients, prev, life, flow, wire, routerVars>>

PushErr(h) ==
    LET t == task[h] IN
    /\ t.at = "push"
    /\ failed' = failed \cup {t.id}
    /\ SetTask(h, [t EXCEPT !.at = "store", !.err = TRUE])
    /\ UNCHANGED <<connVars, seen, origin, offq, unread, acked, submitted, dropped,
                   forgotten, unrouted>>

\* StoreOffline after a failed Send, or routeOrStoreOffline on a single gateway.
Store(h) ==
    LET t == task[h] IN
    /\ t.at = "store"
    /\ StoreOffline(t.uid, t.id)
    /\ SetTask(h, [t EXCEPT !.at = After(t)])
    /\ UNCHANGED <<connVars, seen, origin, unread, acked, submitted, failed,
                   forgotten, unrouted>>

Mark(h) ==
    LET t == task[h] IN
    /\ t.at = "mark"
    /\ seen' = [seen EXCEPT ![origin[t.id].key] = t.id]
    /\ SetTask(h, [t EXCEPT !.at = "finish"])
    /\ UNCHANGED <<connVars, origin, offq, unread, acked, submitted, dropped,
                   failed, forgotten, unrouted>>

\* The unread counters, the ACK and persistAsync (Persistence says what becomes of it).
\* They touch state no other step of a chat handler reads.
Finish(h) ==
    LET t == task[h]
        k == origin[t.id].key
    IN
    /\ t.at = "finish"
    /\ \/ unread' = [u \in Uid |-> [v \in Uid |->
                        unread[u][v] + IF u \in To[k] /\ v = From[k] THEN 1 ELSE 0]]
       \/ Group[k] /\ GroupLookupFails /\ UNCHANGED unread
    /\ acked' = acked \cup {t.id}
    /\ submitted' = submitted \cup {t.id}
    /\ SetTask(h, Idle)
    /\ UNCHANGED <<connVars, seen, origin, offq, dropped, failed, forgotten,
                   unrouted>>

\* DedupCache.cleanupLoop removes an entry older than the TTL.
Expire(k) ==
    /\ Expires
    /\ seen[k] # 0
    /\ seen' = [seen EXCEPT ![k] = 0]
    /\ forgotten' = forgotten \cup {k}
    /\ UNCHANGED <<connVars, origin, offq, task, unread, acked, submitted, dropped,
                   failed, unrouted>>

-----------------------------------------------------------------------------
(* handleOffline                                                           *)

\* DrainOffline takes and clears the queue.  An empty queue is answered with a
\* CmdOffline message and changes nothing here.
Fetch(h, c) ==
    LET u == Owner[c] IN
    /\ MayRead(h, c)
    /\ offq[u] # <<>>
    /\ SetTask(h, [at |-> "drain", conn |-> c, batch |-> offq[u]])
    /\ offq' = [offq EXCEPT ![u] = <<>>]
    /\ UNCHANGED <<connVars, seen, origin, unread, acked, submitted, dropped, failed,
                   forgotten, unrouted>>

\* The handler with the rest of its batch, or done.
Remaining(t, where) ==
    IF Len(t.batch) = 1 THEN Idle
    ELSE [t EXCEPT !.batch = Tail(@), !.at = where]

\* sender.Send(msg) for the next message of the batch.
DrainOk(h) ==
    LET t == task[h] IN
    /\ t.at = "drain"
    /\ Put(t.conn, Head(t.batch))
    /\ SetTask(h, Remaining(t, "drain"))
    /\ UNCHANGED <<clients, prev, life, flow, wire, routerVars>>

\* Mutant: the message whose Send failed is skipped (msgs[delivered+1:]).
DrainErrSkips(h) ==
    LET t == task[h] IN
    /\ t.at = "drain"
    /\ SetTask(h, Remaining(t, "requeue"))
    /\ UNCHANGED <<connVars, routerVars>>

\* Send fails: msgs[delivered:] goes back, one StoreOffline at a time, behind
\* what was stored meanwhile.
DrainErr(h) ==
    LET t == task[h] IN
    /\ t.at = "drain"
    /\ SetTask(h, [t EXCEPT !.at = "requeue"])
    /\ UNCHANGED <<connVars, routerVars>>

Requeue(h) ==
    LET t == task[h] IN
    /\ t.at = "requeue"
    /\ StoreOffline(Owner[t.conn], Head(t.batch))
    /\ SetTask(h, Remaining(t, "requeue"))
    /\ UNCHANGED <<connVars, seen, origin, unread, acked, submitted, failed,
                   forgotten, unrouted>>

-----------------------------------------------------------------------------
HandlerStep(h) ==
    \/ Lookup(h)
    \/ PushOk(h)
    \/ PushErr(h)
    \/ Store(h)
    \/ Mark(h)
    \/ Finish(h)
    \/ DrainOk(h)
    \/ DrainErr(h)
    \/ Requeue(h)

\* The reader of a WebSocket connection unregisters after its handler returns.
Leave(c) ==
    /\ c \in Pooled \/ \A h \in Handler : Busy(h) => task[h].conn # c
    /\ Disconnect(c)
    /\ UNCHANGED <<task, routerVars>>

Next ==
    \/ \E c \in Conn : ConnStep(c) /\ UNCHANGED <<task, routerVars>>
    \/ \E c \in Conn : Leave(c)
    \/ \E h \in Handler, c \in Conn :
          Fetch(h, c) \/ \E k \in Key : Duplicate(h, c, k) \/ Receive(h, c, k)
    \/ \E h \in Handler : HandlerStep(h)
    \/ \E k \in Key : Expire(k)

Spec == Init /\ [][Next]_vars

-----------------------------------------------------------------------------
(* Properties                                                              *)

At(q, i) == {j \in DOMAIN q : q[j] = i}
Devices(u) == {c \in Conn : Owner[c] = u}

\* Handler h still has to place message i for user u.
InHand(h, u, i) ==
    /\ task[h].at \in {"lookup", "push", "store"}
    /\ task[h].id = i
    /\ \/ u \in task[h].todo
       \/ task[h].at \in {"push", "store"} /\ task[h].uid = u

Batch(h, u) ==
    IF task[h].at \in {"drain", "requeue"} /\ Owner[task[h].conn] = u
    THEN task[h].batch ELSE <<>>

\* Copies of message i for user u that the gateway has put somewhere: offline,
\* in a drained batch, in an outbound buffer, on the wire, or cut off.
Placed(u, i) ==
    Cardinality({<<"offline", j>> : j \in At(offq[u], i)}
                \cup (UNION {{<<"buffer", c, j>> : j \in At(sendq[c], i)}
                             \cup {<<"wire", c, j>> : j \in At(wire[c], i)} : c \in Devices(u)})
                \cup (UNION {{<<"batch", h, j>> : j \in At(Batch(h, u), i)} : h \in Handler})
                \cup {<<"dropped", d>> : d \in dropped \cap {<<u, i>>}})

InHands(u, i) == Cardinality({h \in Handler : InHand(h, u, i)})

Recipients(i) == IF i \in unrouted THEN {} ELSE To[origin[i].key]

TypeOK ==
    /\ clients \in [Uid -> Conn \cup {NoConn}]
    /\ seen \in [Key -> 0..MaxId]
    /\ offq \in [Uid -> Seq(Ids)]
    /\ sendq \in [Conn -> Seq(Ids)]
    /\ wire \in [Conn -> Seq(Ids)]
    /\ acked \cup submitted \cup failed \cup unrouted \subseteq Ids
    /\ \A u \in Uid : Len(offq[u]) <= OfflineMaxSize

\* Every message the router gave an id is, for each recipient, in exactly one
\* place, at every moment: the hand-overs between fan-out, outbound buffer,
\* offline queue, drained batch and requeue neither lose nor copy it, whichever
\* handlers, logins and disconnections they meet.
ExactlyOnePlace ==
    \A i \in Ids : \A u \in Recipients(i) : Placed(u, i) + InHands(u, i) = 1

\* An ACK, and a dedup entry that suppresses retries, exist only for messages
\* that have been placed for every recipient (router.go:511-514).
SettledBeforeMark ==
    \A i \in Ids :
        i \in acked \/ (\E k \in Key : seen[k] = i)
            => \A u \in Recipients(i) : Placed(u, i) = 1

\* The router gives a second id to one (sender, seq) only for a reason: the
\* first was not marked because a Send failed, its entry expired, or the two
\* came over different connections (or a worker pool) and were handled at once.
RetryHasReason ==
    \A i, j \in Ids :
        i < j /\ origin[i] = origin[j]
            => i \in failed \/ origin[i].key \in forgotten \/ origin[i].conn \in Pooled
=============================================================================
