-------------------------------- MODULE Hub --------------------------------
(***************************************************************************)
(* The connection registry of one gateway: Hub.Register / Unregister / Get *)
(* (hub.go), the outbound half of a connection, Client.Send / Close /      *)
(* WriteLoop (client.go), and the goroutines that run them for a WebSocket *)
(* connection, HandleWS and wsReadPump (server_ws.go).  The gnet transport *)
(* makes the same calls in the same order (handleLogin, OnClose in         *)
(* gnet_handler.go).                                                       *)
(*                                                                         *)
(* A connection c stands for one *Client.  Every step below is one access  *)
(* to shared state: a critical section of Hub.mu, one channel operation,   *)
(* or one call of the transport.                                           *)
(***************************************************************************)
EXTENDS Naturals, Sequences, FiniteSets

CONSTANTS
    Uid,             \* user ids
    Conn,            \* connections; each is dialled at most once
    Owner,           \* Owner[c]: the UID the token of connection c carries
    NoConn,          \* the nil *Client
    SendBufSize,     \* capacity of Client.send
    MaxConnections,  \* Hub.maxConnections, 0 = unlimited
    MaxDials,        \* bound: connections that are dialled
    Chat             \* the messages the router sends to clients

ASSUME HubAssumption ==
    /\ Owner \in [Conn -> Uid]
    /\ NoConn \notin Conn
    /\ SendBufSize \in Nat \ {0}
    /\ MaxConnections \in Nat

VARIABLES
    clients,     \* Hub.clients: UID -> connection, NoConn when absent
    pc,          \* where the goroutine of HandleWS / wsReadPump of c is
    old,         \* old[c]: what Register(c) closes: the connection it replaced,
                 \* or c itself when the server is full
    closed,      \* Client.closed is closed: Close has been called
    open,        \* the transport has not been closed yet
    sendq,       \* Client.send, the buffered outbound channel
    writer,      \* WriteLoop of c: not running, waiting, or holding a frame
    frame,       \* frame[c]: what WriteLoop took and is writing
    wire,        \* what WriteLoop has written to the transport, in order
    superseded   \* history: connections that Register replaced

hubVars == <<clients, pc, old, closed, open, sendq, writer, frame, wire,
             superseded>>

\* Server-made messages.  Chat messages are records with more fields.
Kick == [cmd |-> "kick"]
LoginResp == [cmd |-> "loginResp"]
NoFrame == [cmd |-> "none"]
Message == {Kick, LoginResp} \cup Chat

Online == {u \in Uid : clients[u] # NoConn}

HubInit ==
    /\ clients = [u \in Uid |-> NoConn]
    /\ pc = [c \in Conn |-> "new"]
    /\ old = [c \in Conn |-> NoConn]
    /\ closed = [c \in Conn |-> FALSE]
    /\ open = [c \in Conn |-> TRUE]
    /\ sendq = [c \in Conn |-> <<>>]
    /\ writer = [c \in Conn |-> "off"]
    /\ frame = [c \in Conn |-> NoFrame]
    /\ wire = [c \in Conn |-> <<>>]
    /\ superseded = {}

-----------------------------------------------------------------------------
(* Client: Send, Close                                                     *)

HasRoom(c) == Len(sendq[c]) < SendBufSize

\* Client.Send that returns nil: the select found room in the channel.  With
\* room and a closed client the select may take either branch.
SendOk(c, m) ==
    /\ HasRoom(c)
    /\ sendq' = [sendq EXCEPT ![c] = Append(@, m)]

\* Client.Send that returns ErrClientClosed or ErrSendBufferFull.
SendErr(c) ==
    /\ closed[c] \/ ~HasRoom(c)
    /\ UNCHANGED sendq

\* Client.Send where the caller ignores the result.
Send(c, m) == SendOk(c, m) \/ SendErr(c)

\* Client.Close (once): close(c.closed); transport.Close() follows, in
\* TransportClose.
Close(c) == closed' = [closed EXCEPT ![c] = TRUE]

TransportClose(c) ==
    /\ closed[c]
    /\ open[c]
    /\ open' = [open EXCEPT ![c] = FALSE]
    /\ UNCHANGED <<clients, pc, old, closed, sendq, writer, frame, wire, superseded>>

GoTo(c, where) == pc' = [pc EXCEPT ![c] = where]

-----------------------------------------------------------------------------
(* HandleWS / handleLogin: register, kick the predecessor, greet, serve    *)

\* Token accepted, connection upgraded, NewClient made.
Dial(c) ==
    /\ pc[c] = "new"
    /\ Cardinality({d \in Conn : pc[d] # "new"}) < MaxDials
    /\ GoTo(c, "register")
    /\ UNCHANGED <<clients, old, closed, open, sendq, writer, frame, wire,
                   superseded>>

\* Mutant: off by one at the connection limit.
AtCapacityOffByOne ==
    MaxConnections > 0 /\ Cardinality(Online) > MaxConnections

AtCapacity == MaxConnections > 0 /\ Cardinality(Online) >= MaxConnections

\* Mutant: the result `exists` of the map lookup is ignored.
RegisterNoExists(c) ==
    LET u == Owner[c] IN
    /\ pc[c] = "register"
    /\ clients' = [clients EXCEPT ![u] = c]
    /\ old' = [old EXCEPT ![c] = clients[u]]
    /\ superseded' = superseded \cup {clients[u]}
    /\ GoTo(c, "kick")
    /\ UNCHANGED <<closed, open, sendq, writer, frame, wire>>

\* Hub.Register up to the unlock: the map entry is replaced in one critical
\* section, unless a new UID meets a full server.
Register(c) ==
    LET u == Owner[c] IN
    /\ pc[c] = "register"
    /\ IF clients[u] = NoConn /\ AtCapacity
       THEN /\ GoTo(c, "reject")
            /\ old' = [old EXCEPT ![c] = c]
            /\ UNCHANGED <<clients, superseded>>
       ELSE /\ clients' = [clients EXCEPT ![u] = c]
            /\ old' = [old EXCEPT ![c] = clients[u]]
            /\ superseded' = superseded \cup ({clients[u]} \ {NoConn})
            /\ GoTo(c, IF clients[u] = NoConn THEN "login" ELSE "kick")
    /\ UNCHANGED <<closed, open, sendq, writer, frame, wire>>

\* Outside the lock: c.Send(kick), then c.Close(), and HandleWS goes on as if
\* the client had been registered.
RejectKick(c) ==
    /\ pc[c] = "reject"
    /\ Send(c, Kick)
    /\ GoTo(c, "rejectClose")
    /\ UNCHANGED <<clients, old, closed, open, writer, frame, wire, superseded>>

RejectClose(c) ==
    /\ pc[c] = "rejectClose"
    /\ Close(c)
    /\ GoTo(c, "login")
    /\ UNCHANGED <<clients, old, open, sendq, writer, frame, wire, superseded>>

\* Outside the lock: old.Send(kick), then old.Close().
KickOld(c) ==
    /\ pc[c] = "kick"
    /\ Send(old[c], Kick)
    /\ GoTo(c, "closeOld")
    /\ UNCHANGED <<clients, old, closed, open, writer, frame, wire, superseded>>

CloseOld(c) ==
    /\ pc[c] = "closeOld"
    /\ Close(old[c])
    /\ GoTo(c, "login")
    /\ UNCHANGED <<clients, old, open, sendq, writer, frame, wire, superseded>>

\* Mutant: Close hands the closing of the transport to another goroutine.
RegisterReturnsEarly(c) == TRUE

\* Client.Close returns when the transport is closed, whoever closes it
\* (sync.Once), and with it Register.
RegisterReturns(c) == old[c] # NoConn => ~open[old[c]]

\* Send(CmdLoginResp), go WriteLoop(), go wsReadPump().
Login(c) ==
    /\ pc[c] = "login"
    /\ RegisterReturns(c)
    /\ Send(c, LoginResp)
    /\ writer' = [writer EXCEPT ![c] = "idle"]
    /\ GoTo(c, "reading")
    /\ UNCHANGED <<clients, old, closed, open, frame, wire, superseded>>

-----------------------------------------------------------------------------
(* wsReadPump / OnClose: the deferred Unregister, then Close               *)

\* Mutant: the deferred calls are swapped, Close comes before Unregister.
ReadFailsCloseFirst(c) ==
    /\ pc[c] = "reading"
    /\ Close(c)
    /\ GoTo(c, "unregister")
    /\ UNCHANGED <<clients, old, open, sendq, writer, frame, wire, superseded>>

\* conn.ReadMessage fails: the peer left, the transport was closed, or the
\* read deadline passed.
ReadFails(c) ==
    /\ pc[c] = "reading"
    /\ GoTo(c, "unregister")
    /\ UNCHANGED <<clients, old, closed, open, sendq, writer, frame, wire,
                   superseded>>

\* Mutant: delete(h.clients, c.UID) without the identity check.
UnregisterAny(c) ==
    /\ pc[c] = "unregister"
    /\ clients' = [clients EXCEPT ![Owner[c]] = NoConn]
    /\ GoTo(c, "close")
    /\ UNCHANGED <<old, closed, open, sendq, writer, frame, wire, superseded>>

\* Hub.Unregister: only if the entry is this very connection.
Unregister(c) ==
    LET u == Owner[c] IN
    /\ pc[c] = "unregister"
    /\ clients' = [clients EXCEPT ![u] = IF @ = c THEN NoConn ELSE @]
    /\ GoTo(c, "close")
    /\ UNCHANGED <<old, closed, open, sendq, writer, frame, wire, superseded>>

CloseSelf(c) ==
    /\ pc[c] = "close"
    /\ Close(c)
    /\ GoTo(c, "gone")
    /\ UNCHANGED <<clients, old, open, sendq, writer, frame, wire, superseded>>

-----------------------------------------------------------------------------
(* WriteLoop                                                               *)

\* case data := <-c.send (the select may choose it on a closed client too).
TakeFrame(c) ==
    /\ writer[c] = "idle"
    /\ sendq[c] # <<>>
    /\ frame' = [frame EXCEPT ![c] = Head(sendq[c])]
    /\ sendq' = [sendq EXCEPT ![c] = Tail(@)]
    /\ writer' = [writer EXCEPT ![c] = "writing"]
    /\ UNCHANGED <<clients, pc, old, closed, open, wire, superseded>>

\* transport.Write succeeds.
WriteFrame(c) ==
    /\ writer[c] = "writing"
    /\ open[c]
    /\ wire' = [wire EXCEPT ![c] = Append(@, frame[c])]
    /\ frame' = [frame EXCEPT ![c] = NoFrame]
    /\ writer' = [writer EXCEPT ![c] = "idle"]
    /\ UNCHANGED <<clients, pc, old, closed, open, sendq, superseded>>

\* transport.Write or transport.Ping fails, or <-c.closed was chosen: the loop
\* returns, and neither closes nor unregisters the client.
WriterReturns(c) ==
    /\ writer[c] \in {"idle", "writing"}
    /\ writer' = [writer EXCEPT ![c] = "off"]
    /\ UNCHANGED <<clients, pc, old, closed, open, sendq, frame, wire,
                   superseded>>

-----------------------------------------------------------------------------
ConnStep(c) ==
    \/ Dial(c)
    \/ Register(c)
    \/ RejectKick(c)
    \/ RejectClose(c)
    \/ KickOld(c)
    \/ CloseOld(c)
    \/ Login(c)
    \/ Unregister(c)
    \/ CloseSelf(c)

WriterStep(c) == TakeFrame(c) \/ WriteFrame(c) \/ WriterReturns(c)

HubNext ==
    \E c \in Conn :
        ConnStep(c) \/ ReadFails(c) \/ TransportClose(c) \/ WriterStep(c)

\* Mutant: there is no read deadline.
MustFailClosed(c) == ReadFails(c) /\ ~open[c]

\* The scheduler runs every runnable goroutine.  A read returns an error once
\* the transport is closed, and the read deadline passes once WriteLoop is
\* gone, because nothing pings the peer any more; otherwise it need not fail.
MustFail(c) == ReadFails(c) /\ (~open[c] \/ writer[c] = "off")

Fairness ==
    \A c \in Conn : /\ WF_hubVars(ConnStep(c) /\ pc[c] # "new")
                    /\ WF_hubVars(TransportClose(c))
                    /\ WF_hubVars(MustFail(c))

-----------------------------------------------------------------------------
(* Properties                                                              *)

HubTypeOK ==
    /\ clients \in [Uid -> Conn \cup {NoConn}]
    /\ pc \in [Conn -> {"new", "register", "reject", "rejectClose", "kick",
                        "closeOld", "login", "reading", "unregister", "close",
                        "gone"}]
    /\ old \in [Conn -> Conn \cup {NoConn}]
    /\ closed \in [Conn -> BOOLEAN]
    /\ open \in [Conn -> BOOLEAN]
    /\ sendq \in [Conn -> Seq(Message)]
    /\ writer \in [Conn -> {"off", "idle", "writing"}]
    /\ frame \in [Conn -> Message \cup {NoFrame}]
    /\ wire \in [Conn -> Seq(Message)]
    /\ superseded \subseteq Conn

\* Connections Register has put into the map and wsReadPump has not yet
\* unregistered.
Serving(c) ==
    /\ pc[c] \in {"kick", "closeOld", "login", "reading"}
    /\ ~closed[c]

\* A connection that is being served and was not replaced by a later login is
\* the one the registry returns: the clean-up of a stale connection of the same
\* user (Unregister, hub.go:79-80) never removes the newer one.
ServingIsRegistered ==
    \A c \in Conn : Serving(c) /\ c \notin superseded => clients[Owner[c]] = c

\* Get never returns a connection whose Close has already been called: Register
\* replaces the map entry before it closes the old connection, and wsReadPump
\* unregisters before it closes.
ClosedIsUnregistered ==
    \A c \in Conn : closed[c] => clients[Owner[c]] # c

\* A replaced connection is closed, or the goroutine that replaced it is about
\* to close it: two devices of one user are never both left connected.
SupersededIsClosing ==
    \A c \in superseded :
        closed[c] \/ \E d \in Conn : old[d] = c /\ pc[d] \in {"kick", "closeOld"}

\* The connection limit holds whatever the order of concurrent logins: it is
\* checked and applied in one critical section (hub.go:47-66).
CapacityRespected ==
    MaxConnections > 0 => Cardinality(Online) <= MaxConnections

\* A connection whose transport was closed, or whose WriteLoop gave up, does not
\* stay in the registry: messages are not buffered for it for ever.
DeadIsUnregistered ==
    \A c \in Conn :
        (closed[c] \/ (pc[c] = "reading" /\ writer[c] = "off"))
            ~> clients[Owner[c]] # c
=============================================================================
