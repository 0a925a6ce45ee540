------------------------------ MODULE HubImpl ------------------------------
(***************************************************************************)
(* Hub, together with the handlers that send to the connections they got   *)
(* from Hub.Get, implements Connections.                                   *)
(***************************************************************************)
EXTENDS Hub

CONSTANT MaxFrames   \* bound: frames a connection has when a chat message is sent

ASSUME ChatAssumption == Chat \cap {Kick, LoginResp, NoFrame} = {}

\* A handler that got c from Hub.Get, just now or long ago, calls c.Send.
Push(c, m) ==
    /\ pc[c] \notin {"new", "register", "reject", "rejectClose"}
    /\ Len(wire[c]) + Len(sendq[c]) < MaxFrames
    /\ Send(c, m)
    /\ UNCHANGED <<clients, pc, old, closed, open, writer, frame, wire,
                   superseded>>

ImplNext == HubNext \/ \E c \in Conn, m \in Chat : Push(c, m)

ImplSpec == HubInit /\ [][ImplNext]_hubVars /\ Fairness

-----------------------------------------------------------------------------
(* The refinement mapping                                                  *)

PreLogin == {"new", "register", "reject", "rejectClose", "kick", "closeOld",
             "login"}

LifeOf(c) ==
    IF pc[c] \in {"new", "register"} THEN "new"
    ELSE IF pc[c] \in PreLogin THEN IF old[c] = c THEN "refused" ELSE "hello"
    ELSE IF pc[c] \in {"reading", "unregister"} THEN "up" ELSE "down"

\* The frame WriteLoop has taken is still ahead of the queued ones.
Outbound(c) == (IF frame[c] = NoFrame THEN <<>> ELSE <<frame[c]>>) \o sendq[c]

\* The increasing lists of the places in q that hold a chat message: there is one.
Listings(q) ==
    {f \in UNION {[1..n -> DOMAIN q] : n \in 0..Len(q)} :
        /\ \A i, j \in DOMAIN f : i < j => f[i] < f[j]
        /\ \A p \in DOMAIN q : q[p] \in Chat <=> \E i \in DOMAIN f : f[i] = p}

\* The chat messages of q, in order.
Chats(q) ==
    LET f == CHOOSE f \in Listings(q) : TRUE
    IN  [i \in DOMAIN f |-> q[f[i]]]

Abstract == INSTANCE Connections WITH
    MayRefuse <- MaxConnections > 0,
    prev <- [c \in Conn |-> IF old[c] = c THEN NoConn ELSE old[c]],
    life <- [c \in Conn |-> LifeOf(c)],
    flow <- [c \in Conn |-> open[c] /\ (writer[c] # "off" \/ pc[c] \in PreLogin)],
    sendq <- [c \in Conn |-> Chats(Outbound(c))],
    wire <- [c \in Conn |-> Chats(wire[c])]

\* The registry, the kick and the write loop of hub.go, client.go and
\* server_ws.go show their users nothing but steps of Connections: a connection
\* is replaced atomically, is served only after the one it replaced is cut off,
\* and carries what Send accepted, in order, until it is cut off itself.
ImplementsConnections == Abstract!ConnSpec
=============================================================================
