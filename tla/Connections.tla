---------------------------- MODULE Connections ----------------------------
(***************************************************************************)
(* What a gateway's connection registry promises the code that uses it:    *)
(* the abstract specification of Hub.  It keeps which connection a user is *)
(* reached at, how far each connection has come and the chat messages it   *)
(* carries; kicks, login responses, buffer sizes and goroutine steps are   *)
(* gone.  Client.Send may always fail here: in the program other traffic   *)
(* fills the same buffer.                                                  *)
(***************************************************************************)
EXTENDS Naturals, Sequences

CONSTANTS
    Uid,       \* user ids
    Conn,      \* connections; each is dialled at most once
    Owner,     \* Owner[c]: the user who dials c
    NoConn,    \* the nil *Client
    Chat,      \* chat messages
    MayRefuse  \* a connection limit is configured

VARIABLES
    clients,   \* Hub.clients: user -> connection, NoConn when absent
    prev,      \* prev[c]: the connection c replaced
    life,      \* new, hello or refused, up (its messages are read), down
    flow,      \* flow[c]: what is queued for c can still be written to it
    sendq,     \* chat messages queued for c, oldest first
    wire       \* chat messages written to c, in order

connVars == <<clients, prev, life, flow, sendq, wire>>

ConnInit ==
    /\ clients = [u \in Uid |-> NoConn]
    /\ prev = [c \in Conn |-> NoConn]
    /\ life = [c \in Conn |-> "new"]
    /\ flow = [c \in Conn |-> TRUE]
    /\ sendq = [c \in Conn |-> <<>>]
    /\ wire = [c \in Conn |-> <<>>]

-----------------------------------------------------------------------------
\* Register accepts c, in the place of the connection the user had.
Accept(c) ==
    /\ life[c] = "new"
    /\ life' = [life EXCEPT ![c] = "hello"]
    /\ clients' = [clients EXCEPT ![Owner[c]] = c]
    /\ prev' = [prev EXCEPT ![c] = clients[Owner[c]]]
    /\ UNCHANGED <<flow, sendq, wire>>

\* Register turns c away: the server is full and the user is not connected.
Refuse(c) ==
    /\ MayRefuse
    /\ life[c] = "new"
    /\ clients[Owner[c]] = NoConn
    /\ life' = [life EXCEPT ![c] = "refused"]
    /\ UNCHANGED <<clients, prev, flow, sendq, wire>>

\* The connection is served, after Register has closed the one it replaced, or
\* c itself when it was refused.
Greet(c) ==
    /\ \/ life[c] = "hello" /\ (prev[c] # NoConn => ~flow[prev[c]])
       \/ life[c] = "refused" /\ ~flow[c]
    /\ life' = [life EXCEPT ![c] = "up"]
    /\ UNCHANGED <<clients, prev, flow, sendq, wire>>

\* The reader of c ends and unregisters c, and c only.
Disconnect(c) ==
    /\ life[c] = "up"
    /\ life' = [life EXCEPT ![c] = "down"]
    /\ clients' = [clients EXCEPT ![Owner[c]] = IF @ = c THEN NoConn ELSE @]
    /\ UNCHANGED <<prev, flow, sendq, wire>>

\* The connection was closed or its writer gave up: what is queued stays there.
Sever(c) ==
    /\ life[c] # "new"
    /\ flow[c]
    /\ flow' = [flow EXCEPT ![c] = FALSE]
    /\ UNCHANGED <<clients, prev, life, sendq, wire>>

\* The writer of c writes the oldest queued message.
Flush(c) ==
    /\ life[c] \in {"up", "down"}
    /\ flow[c]
    /\ sendq[c] # <<>>
    /\ wire' = [wire EXCEPT ![c] = Append(@, Head(sendq[c]))]
    /\ sendq' = [sendq EXCEPT ![c] = Tail(@)]
    /\ UNCHANGED <<clients, prev, life, flow>>

\* Client.Send returns nil: the message is behind the queued ones.  The caller
\* got c from Hub.Get at some time, not necessarily just now.
Put(c, m) == sendq' = [sendq EXCEPT ![c] = Append(@, m)]

ConnStep(c) == Accept(c) \/ Refuse(c) \/ Greet(c) \/ Sever(c) \/ Flush(c)

Environment ==
    \E c \in Conn, m \in Chat :
        life[c] # "new" /\ Put(c, m) /\ UNCHANGED <<clients, prev, life, flow, wire>>

ConnNext == (\E c \in Conn : ConnStep(c) \/ Disconnect(c)) \/ Environment

ConnSpec == ConnInit /\ [][ConnNext]_connVars
=============================================================================
