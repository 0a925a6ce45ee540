----------------------------- MODULE Forwarding -----------------------------
(***************************************************************************)
(* Messages to one user across several gateways: routeOrStoreOffline and   *)
(* the local push of handleChat (router.go), GrpcForwarder.Forward,        *)
(* GrpcGatewayServer.ForwardMessage, and the offline store that all        *)
(* gateways share in Redis, with the memory of each gateway as fallback    *)
(* (redis_store.go).                                                       *)
(*                                                                         *)
(* The user may be connected to any gateway, whichever one the hash ring   *)
(* names; Cluster says how rings change, here they just do.  A message     *)
(* that Client.Send accepted counts as received: Connections and Delivery  *)
(* say what can still happen to it.                                        *)
(***************************************************************************)
EXTENDS Naturals, Sequences, FiniteSets

CONSTANTS
    Gateway,        \* gateways
    Msg,            \* messages to the user
    From,           \* From[m]: the gateway the sender of m is connected to
    OfflineMaxSize, \* limit of the Redis list and of Hub.offline
    MaxFaults       \* bound: Redis calls that fail or are repeated

ASSUME ForwardingAssumption ==
    /\ IsFiniteSet(Gateway)
    /\ From \in [Msg -> Gateway]
    /\ OfflineMaxSize \in Nat \ {0}
    /\ MaxFaults \in Nat

VARIABLES
    ring,      \* ring[g]: the owner of the user in the hash ring of g
    online,    \* gateways with a connection of the user
    send,      \* send[m]: the handler of m at the sender's gateway
    serve,     \* serve[m]: the ForwardMessage call for m at the owner
    redisq,    \* the user's list in Redis
    hubq,      \* hubq[g]: the user's queue in the memory of g
    got,       \* got[m]: copies of m handed to a connection of the user
    trimmed,   \* trimmed[m]: copies of m cut off a full list
    raced,     \* history: messages Forward left to their caller
    timedOut,  \* history: messages whose RPC was given up
    doubled,   \* history: copies made by a Redis call that took effect unnoticed
    vanished,  \* history: messages a failed drain removed from Redis
    faults     \* Redis calls that failed or were repeated so far

fwdVars == <<ring, online, send, serve, redisq, hubq, got, trimmed, raced, timedOut,
             doubled, vanished, faults>>

NoCall == [at |-> "none", gw |-> "none"]

FwdInit ==
    /\ ring \in [Gateway -> Gateway]
    /\ online = {}
    /\ send = [m \in Msg |-> "new"]
    /\ serve = [m \in Msg |-> NoCall]
    /\ redisq = <<>>
    /\ hubq = [g \in Gateway |-> <<>>]
    /\ got = [m \in Msg |-> 0]
    /\ trimmed = [m \in Msg |-> 0]
    /\ raced = {}
    /\ timedOut = {}
    /\ doubled = [m \in Msg |-> 0]
    /\ vanished = {}
    /\ faults = 0

-----------------------------------------------------------------------------
(* RedisOfflineStore.StoreOffline                                          *)

\* Both storeScript and Hub.StoreOffline append and keep the newest messages.
Kept(q) == SubSeq(q, IF Len(q) > OfflineMaxSize THEN Len(q) - OfflineMaxSize + 1
                     ELSE 1, Len(q))
Cut(q) == SubSeq(q, 1, IF Len(q) > OfflineMaxSize THEN Len(q) - OfflineMaxSize ELSE 0)

Occurrences(q, m) == Cardinality({i \in DOMAIN q : q[i] = m})

CountIn(bag, q) == [m \in Msg |-> bag[m] + Occurrences(q, m)]

Fault == faults < MaxFaults /\ faults' = faults + 1

\* The script runs, or runs twice: the Redis client repeats a call whose answer
\* did not arrive.
StoreInRedis(g, m) ==
    LET q == Append(redisq, m)
        r == Append(Kept(q), m)
    IN
    \/ /\ redisq' = Kept(q)
       /\ trimmed' = CountIn(trimmed, Cut(q))
       /\ UNCHANGED <<hubq, doubled, faults>>
    \/ /\ Fault
       /\ redisq' = Kept(r)
       /\ trimmed' = CountIn(CountIn(trimmed, Cut(q)), Cut(r))
       /\ doubled' = [doubled EXCEPT ![m] = @ + 1]
       /\ UNCHANGED hubq

\* The call fails, before or after the script ran, and the gateway's own memory
\* takes the message.
StoreInMemory(g, m) ==
    LET q == Append(hubq[g], m)
        r == Append(redisq, m)
    IN
    /\ Fault
    /\ hubq' = [hubq EXCEPT ![g] = Kept(q)]
    /\ \/ /\ trimmed' = CountIn(trimmed, Cut(q))
          /\ UNCHANGED <<redisq, doubled>>
       \/ /\ redisq' = Kept(r)
          /\ trimmed' = CountIn(CountIn(trimmed, Cut(q)), Cut(r))
          /\ doubled' = [doubled EXCEPT ![m] = @ + 1]

StoreOffline(g, m) == StoreInRedis(g, m) \/ StoreInMemory(g, m)

-----------------------------------------------------------------------------
(* The sender's gateway                                                    *)

SendAt(m, where) == send' = [send EXCEPT ![m] = where]

\* handleChat: clients.Get at the sender's gateway.
Begin(m) ==
    /\ send[m] = "new"
    /\ SendAt(m, IF From[m] \in online THEN "push" ELSE "route")
    /\ UNCHANGED <<ring, online, serve, redisq, hubq, got, trimmed, raced, timedOut,
                   doubled, vanished, faults>>

\* target.Send.
Push(m) ==
    /\ send[m] = "push"
    /\ \/ got' = [got EXCEPT ![m] = @ + 1] /\ SendAt(m, "done")
       \/ SendAt(m, "store") /\ UNCHANGED got
    /\ UNCHANGED <<ring, online, serve, redisq, hubq, trimmed, raced, timedOut,
                   doubled, vanished, faults>>

\* routeOrStoreOffline asks the ring for the owner.
RouteOrStore(m) ==
    LET g == From[m] IN
    /\ send[m] = "route"
    /\ SendAt(m, IF ring[g] = g THEN "store" ELSE "forward")
    /\ UNCHANGED <<ring, online, serve, redisq, hubq, got, trimmed, raced, timedOut,
                   doubled, vanished, faults>>

\* Forward asks the ring again.  When the gateway itself has become the owner it
\* returns (false, nil), which its caller takes for "the peer stored it".
\* Otherwise the call is made, or fails before it reaches the owner.
Forward(m) ==
    LET g == From[m] IN
    /\ send[m] = "forward"
    /\ \/ /\ ring[g] = g
          /\ SendAt(m, "done")
          /\ raced' = raced \cup {m}
          /\ UNCHANGED serve
       \/ /\ ring[g] # g
          /\ SendAt(m, "wait")
          /\ serve' = [serve EXCEPT ![m] = [at |-> "get", gw |-> ring[g]]]
          /\ UNCHANGED raced
       \/ /\ ring[g] # g
          /\ SendAt(m, "store")
          /\ UNCHANGED <<serve, raced>>
    /\ UNCHANGED <<ring, online, redisq, hubq, got, trimmed, timedOut, doubled,
                   vanished, faults>>

\* Mutant: an answer that says "stored" makes the sender's gateway store as well.
AnsweredStores(m) ==
    /\ send[m] = "wait"
    /\ serve[m].at = "answered"
    /\ SendAt(m, IF got[m] > 0 THEN "done" ELSE "store")
    /\ UNCHANGED <<ring, online, serve, redisq, hubq, got, trimmed, raced, timedOut,
                   doubled, vanished, faults>>

\* The answer arrives.
Answered(m) ==
    /\ send[m] = "wait"
    /\ serve[m].at = "answered"
    /\ SendAt(m, "done")
    /\ UNCHANGED <<ring, online, serve, redisq, hubq, got, trimmed, raced, timedOut,
                   doubled, vanished, faults>>

\* The RPC times out or breaks, whatever the owner does with it.
GiveUp(m) ==
    /\ send[m] = "wait"
    /\ SendAt(m, "store")
    /\ timedOut' = timedOut \cup {m}
    /\ UNCHANGED <<ring, online, serve, redisq, hubq, got, trimmed, raced, doubled,
                   vanished, faults>>

\* The owner's gateway dies before it has handled the call.
CallLost(m) ==
    /\ serve[m].at = "get"
    /\ m \in timedOut
    /\ serve' = [serve EXCEPT ![m].at = "answered"]
    /\ UNCHANGED <<ring, online, send, redisq, hubq, got, trimmed, raced, timedOut,
                   doubled, vanished, faults>>

StoreLocally(m) ==
    /\ send[m] = "store"
    /\ StoreOffline(From[m], m)
    /\ SendAt(m, "done")
    /\ UNCHANGED <<ring, online, serve, got, raced, timedOut, vanished>>

-----------------------------------------------------------------------------
(* ForwardMessage at the owner                                             *)

ServeAt(m, where) == serve' = [serve EXCEPT ![m].at = where]

PeerGet(m) ==
    /\ serve[m].at = "get"
    /\ ServeAt(m, IF serve[m].gw \in online THEN "push" ELSE "store")
    /\ UNCHANGED <<ring, online, send, redisq, hubq, got, trimmed, raced, timedOut,
                   doubled, vanished, faults>>

\* Mutant: a failed Send is reported and the message is not stored.
PeerPushDrops(m) ==
    /\ serve[m].at = "push"
    /\ ServeAt(m, "answered")
    /\ got' \in {got, [got EXCEPT ![m] = @ + 1]}
    /\ UNCHANGED <<ring, online, send, redisq, hubq, trimmed, raced, timedOut,
                   doubled, vanished, faults>>

PeerPush(m) ==
    /\ serve[m].at = "push"
    /\ \/ got' = [got EXCEPT ![m] = @ + 1] /\ ServeAt(m, "answered")
       \/ ServeAt(m, "store") /\ UNCHANGED got
    /\ UNCHANGED <<ring, online, send, redisq, hubq, trimmed, raced, timedOut,
                   doubled, vanished, faults>>

PeerStore(m) ==
    /\ serve[m].at = "store"
    /\ StoreOffline(serve[m].gw, m)
    /\ ServeAt(m, "answered")
    /\ UNCHANGED <<ring, online, send, got, raced, timedOut, vanished>>

-----------------------------------------------------------------------------
(* The user                                                                *)

\* Mutant: only the owner of the user drains the shared list.
FetchAtOwner(g) ==
    /\ g \in online
    /\ ring[g] = g
    /\ got' = CountIn(got, redisq)
    /\ redisq' = <<>>
    /\ UNCHANGED <<ring, online, send, serve, hubq, trimmed, raced, timedOut,
                   doubled, vanished, faults>>

\* handleOffline: drainScript takes the list and the messages are sent.  When the
\* call fails, before or after its effect, the gateway's memory is drained.
Fetch(g) ==
    /\ g \in online
    /\ got' = CountIn(got, redisq)
    /\ redisq' = <<>>
    /\ UNCHANGED <<ring, online, send, serve, hubq, trimmed, raced, timedOut,
                   doubled, vanished, faults>>

FetchFails(g) ==
    /\ g \in online
    /\ Fault
    /\ \/ UNCHANGED <<redisq, vanished>>
       \/ /\ redisq' = <<>>
          /\ vanished' = vanished \cup {m \in Msg : Occurrences(redisq, m) > 0}
    /\ got' = CountIn(got, hubq[g])
    /\ hubq' = [hubq EXCEPT ![g] = <<>>]
    /\ UNCHANGED <<ring, online, send, serve, trimmed, raced, timedOut, doubled>>

\* The drain's answer is lost and the call repeated: it finds the list empty.
FetchRepeated(g) ==
    /\ g \in online
    /\ Fault
    /\ redisq' = <<>>
    /\ vanished' = vanished \cup {m \in Msg : Occurrences(redisq, m) > 0}
    /\ UNCHANGED <<ring, online, send, serve, hubq, got, trimmed, raced, timedOut,
                   doubled>>

ConnectOrLeave(g) ==
    /\ online' = IF g \in online THEN online \ {g} ELSE online \cup {g}
    /\ UNCHANGED <<ring, send, serve, redisq, hubq, got, trimmed, raced, timedOut,
                   doubled, vanished, faults>>

\* A member joins or leaves the ring of g.
RingChanges(g, o) ==
    /\ ring[g] # o
    /\ ring' = [ring EXCEPT ![g] = o]
    /\ UNCHANGED <<online, send, serve, redisq, hubq, got, trimmed, raced, timedOut,
                   doubled, vanished, faults>>

-----------------------------------------------------------------------------
SendStep(m) == Push(m) \/ RouteOrStore(m) \/ Forward(m) \/ Answered(m) \/ GiveUp(m)
               \/ StoreLocally(m)

ServeStep(m) == PeerGet(m) \/ PeerPush(m) \/ PeerStore(m)

FwdNext ==
    \/ \E m \in Msg : Begin(m) \/ SendStep(m) \/ ServeStep(m) \/ CallLost(m)
    \/ \E g \in Gateway : Fetch(g) \/ FetchFails(g) \/ FetchRepeated(g) \/ ConnectOrLeave(g)
    \/ \E g, o \in Gateway : RingChanges(g, o)

\* Handlers run to their end (every RPC has a timeout), and a user who comes back
\* again and again fetches, which is the first thing the client does.
FwdSpec ==
    /\ FwdInit
    /\ [][FwdNext]_fwdVars
    /\ \A m \in Msg : WF_fwdVars(SendStep(m)) /\ WF_fwdVars(ServeStep(m) \/ CallLost(m))
    /\ SF_fwdVars(\E g \in Gateway : Fetch(g))

-----------------------------------------------------------------------------
(* Properties                                                              *)

\* The places in the gateways' memories that hold m.
InMemory(m) ==
    {p \in Gateway \X (1..OfflineMaxSize) :
        p[2] <= Len(hubq[p[1]]) /\ hubq[p[1]][p[2]] = m}

\* Copies of m that the user has, will find in a queue, or lost to a full queue.
Copies(m) ==
    got[m] + Occurrences(redisq, m) + trimmed[m] + Cardinality(InMemory(m))

Settled(m) == send[m] = "done" /\ serve[m].at \in {"none", "answered"}

FwdTypeOK ==
    /\ ring \in [Gateway -> Gateway]
    /\ online \subseteq Gateway
    /\ send \in [Msg -> {"new", "push", "route", "forward", "wait", "store", "done"}]
    /\ serve \in [Msg -> [at : {"none", "get", "push", "store", "answered"},
                          gw : Gateway \cup {"none"}]]
    /\ redisq \in Seq(Msg) /\ Len(redisq) <= OfflineMaxSize
    /\ hubq \in [Gateway -> Seq(Msg)]
    /\ \A g \in Gateway : Len(hubq[g]) <= OfflineMaxSize
    /\ got \in [Msg -> Nat] /\ trimmed \in [Msg -> Nat] /\ doubled \in [Msg -> Nat]
    /\ raced \cup timedOut \cup vanished \subseteq Msg
    /\ faults \in 0..MaxFaults

\* A message that both gateways are done with is somewhere, unless the ring made
\* the sender's gateway the owner between the lookups of routeOrStoreOffline and
\* Forward, or a drain removed it from Redis and its answer was lost.
LossHasReason ==
    \A m \in Msg : Settled(m) => Copies(m) > 0 \/ m \in raced \cup vanished

\* There is one copy of a message, and one more only when the sender's gateway gave
\* up on an RPC the owner did carry out, or a Redis call took effect unnoticed.
CopyHasReason ==
    \A m \in Msg :
        Copies(m) <= 1 + doubled[m] + (IF m \in timedOut THEN 1 ELSE 0)

\* A message in the shared list reaches a user who keeps coming back, to whatever
\* gateway, or gives way to newer ones; only a drain whose answer is lost may remove it.
SharedListIsFetched ==
    []<>(online # {}) =>
        \A m \in Msg : Occurrences(redisq, m) > 0
                           ~> got[m] > 0 \/ trimmed[m] > 0 \/ m \in vanished
=============================================================================
