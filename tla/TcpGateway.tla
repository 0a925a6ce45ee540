----------------------------- MODULE TcpGateway -----------------------------
(***************************************************************************)
(* The TCP side of a gateway (gnet_handler.go): event loops that call      *)
(* OnOpen, OnTraffic and OnClose, the heartbeat checker, the pool of       *)
(* workers that calls Router.Route, and Shutdown.  The registry appears as *)
(* Connections promises it: Register replaces the entry of the user and    *)
(* closes the connection it replaced, Unregister removes its own           *)
(* connection only.  gnet is modelled from its use: one event loop runs    *)
(* one handler at a time, OnClose follows every Close, a file descriptor   *)
(* is free for a new connection after OnClose, and Stop returns nil when   *)
(* every connection has had its OnClose.                                   *)
(***************************************************************************)
EXTENDS Naturals, Sequences, FiniteSetsExt

CONSTANTS
    Uid,         \* user ids
    Conn,        \* TCP connections, numbered in the order they are accepted
    Owner,       \* Owner[c]: the UID in the token of c's login frame
    Fd,          \* file descriptors
    Loop,        \* Loop[c]: the event loop that serves c
    Worker,      \* goroutines of the worker pool
    QueueSize,   \* capacity of WorkerPool.tasks
    MaxFrames,   \* bound: frames a client sends after its login
    NoConn       \* no connection

ASSUME TcpAssumption ==
    /\ Conn \subseteq Nat \ {NoConn}
    /\ Owner \in [Conn -> Uid]
    /\ Fd \subseteq Nat \ {0}
    /\ QueueSize \in Nat \ {0}
    /\ MaxFrames \in Nat

VARIABLES
    fd,        \* fd[c]: the descriptor of c, 0 before it is accepted
    ctx,       \* connection context: none, "pending", client; gone after OnClose
    at,        \* at[c]: where the handler running for c is, idle if none
    clients,   \* Hub.clients: UID -> connection
    connMap,   \* GnetHandler.connMap: file descriptor -> connection
    closing,   \* connections that have a close event waiting for their loop
    stale,     \* clients whose last heartbeat is older than heartbeatTimeout
    silent,    \* connections whose peer vanished without closing
    checker,   \* heartbeat checker: its step and the connection it evicts
    tasks,     \* WorkerPool.tasks
    running,   \* running[w]: the task worker w executes, <<>> if none
    sent,      \* sent[c]: frames of c handed to processFrame
    stop,      \* progress of Shutdown
    missed     \* history: connections whose entry in connMap was removed by
               \* the eviction of an earlier connection with the same descriptor

loopVars == <<ctx, at, clients, connMap, closing, stale>>
poolVars == <<tasks, running, sent>>
restVars == <<fd, silent, checker, stop, missed>>
vars == <<loopVars, poolVars, restVars>>

Idle == [step |-> "idle", conn |-> NoConn]

Init ==
    /\ fd = [c \in Conn |-> 0]
    /\ ctx = [c \in Conn |-> "none"]
    /\ at = [c \in Conn |-> "idle"]
    /\ clients = [u \in Uid |-> NoConn]
    /\ connMap = [f \in Fd |-> NoConn]
    /\ closing = {}
    /\ stale = {}
    /\ silent = {}
    /\ checker = Idle
    /\ tasks = <<>>
    /\ running = [w \in Worker |-> <<>>]
    /\ sent = [c \in Conn |-> 0]
    /\ stop = "up"
    /\ missed = {}

-----------------------------------------------------------------------------
(* Event loops                                                             *)

Live(c) == ctx[c] \in {"pending", "client"}

\* The event loop of c runs no handler for another of its connections.
Free(c) == \A d \in Conn : Loop[d] = Loop[c] => at[d] = "idle"

GoTo(c, where) == at' = [at EXCEPT ![c] = where]

\* OnOpen: the connection, on the lowest free descriptor, is marked as not
\* authenticated.
OnOpen(c) ==
    LET free == Fd \ {fd[d] : d \in {e \in Conn : Live(e)}} IN
    /\ stop = "up"
    /\ free # {}
    /\ ctx[c] = "none"
    /\ Free(c)
    /\ \A d \in Conn : d < c => ctx[d] # "none"
    /\ fd' = [fd EXCEPT ![c] = Min(free)]
    /\ ctx' = [ctx EXCEPT ![c] = "pending"]
    /\ UNCHANGED <<at, clients, connMap, closing, stale, poolVars, silent, checker,
                   stop, missed>>

\* processFrame, first frame, not a login or without a valid token: c.Close().
\* Frames already buffered are still processed.
LoginFails(c) ==
    /\ ctx[c] = "pending"
    /\ Free(c)
    /\ c \notin silent
    /\ closing' = closing \cup {c}
    /\ UNCHANGED <<ctx, at, clients, connMap, stale, poolVars, restVars>>

\* handleLogin, up to ClientRegistry.Register: the token is valid; NewClient,
\* SetHeartbeat.  The connection the user had is closed, or c itself when the
\* user had none and the server is full.
Register(c) ==
    LET u == Owner[c] IN
    /\ ctx[c] = "pending"
    /\ Free(c)
    /\ c \notin silent
    /\ \/ /\ clients' = [clients EXCEPT ![u] = c]
          /\ closing' = closing \cup ({clients[u]} \ {NoConn})
       \/ /\ clients[u] = NoConn
          /\ closing' = closing \cup {c}
          /\ UNCHANGED clients
    /\ GoTo(c, "store")
    /\ UNCHANGED <<ctx, connMap, stale, poolVars, restVars>>

\* Mutant: the connection is not entered into connMap.
StoreFdForgets(c) ==
    /\ at[c] = "store"
    /\ GoTo(c, "greet")
    /\ UNCHANGED <<ctx, clients, connMap, closing, stale, poolVars, restVars>>

\* handleLogin: connMap.Store(c.Fd(), client).
StoreFd(c) ==
    /\ at[c] = "store"
    /\ connMap' = [connMap EXCEPT ![fd[c]] = c]
    /\ GoTo(c, "greet")
    /\ UNCHANGED <<ctx, clients, closing, stale, poolVars, restVars>>

\* LoginResp, go WriteLoop(), and processFrame sets the context to the client.
Greet(c) ==
    /\ at[c] = "greet"
    /\ ctx' = [ctx EXCEPT ![c] = "client"]
    /\ GoTo(c, "idle")
    /\ UNCHANGED <<clients, connMap, closing, stale, poolVars, restVars>>

\* processFrame of an authenticated connection, up to the test of closed in
\* Submit: the heartbeat is renewed; a closed pool drops the frame.
Frame(c) ==
    /\ ctx[c] = "client"
    /\ Free(c)
    /\ c \notin silent
    /\ sent[c] < MaxFrames
    /\ sent' = [sent EXCEPT ![c] = @ + 1]
    /\ stale' = stale \ {c}
    /\ IF stop = "done" THEN UNCHANGED at ELSE GoTo(c, "submit")
    /\ UNCHANGED <<ctx, clients, connMap, closing, tasks, running, restVars>>

\* Submit: the task is queued, or dropped when the queue is full.
Submit(c) ==
    /\ at[c] = "submit"
    /\ tasks' = IF Len(tasks) < QueueSize THEN Append(tasks, <<c, sent[c]>>) ELSE tasks
    /\ GoTo(c, "idle")
    /\ UNCHANGED <<ctx, clients, connMap, closing, stale, running, sent, restVars>>

Unregistered(c) == [clients EXCEPT ![Owner[c]] = IF @ = c THEN NoConn ELSE @]

\* OnClose: nothing to do for a connection that never logged in; Unregister for
\* the others.  The Client.Close that follows has nothing left to close.
OnClose(c) ==
    /\ c \in closing
    /\ Live(c)
    /\ Free(c)
    /\ IF ctx[c] = "client"
       THEN clients' = Unregistered(c) /\ GoTo(c, "delete") /\ UNCHANGED ctx
       ELSE ctx' = [ctx EXCEPT ![c] = "gone"] /\ UNCHANGED <<clients, at>>
    /\ UNCHANGED <<connMap, closing, stale, poolVars, restVars>>

\* OnClose: connMap.Delete(c.Fd()); gnet releases the descriptor.
OnCloseDelete(c) ==
    /\ at[c] = "delete"
    /\ connMap' = [connMap EXCEPT ![fd[c]] = NoConn]
    /\ ctx' = [ctx EXCEPT ![c] = "gone"]
    /\ GoTo(c, "idle")
    /\ closing' = closing \ {c}
    /\ stale' = stale \ {c}
    /\ silent' = silent \ {c}
    /\ UNCHANGED <<clients, poolVars, fd, checker, stop, missed>>

LoopStep(c) ==
    \/ StoreFd(c)
    \/ Greet(c)
    \/ Submit(c)
    \/ OnClose(c)
    \/ OnCloseDelete(c)

-----------------------------------------------------------------------------
(* The other end of the connection, and time                               *)

\* The peer closes, the connection breaks, or a frame exceeds the limit.
Breaks(c) ==
    /\ Live(c)
    /\ c \notin closing \cup silent
    /\ closing' = closing \cup {c}
    /\ UNCHANGED <<ctx, at, clients, connMap, stale, poolVars, restVars>>

\* The peer is gone and no packet says so.
Vanish(c) ==
    /\ Live(c)
    /\ c \notin silent
    /\ silent' = silent \cup {c}
    /\ UNCHANGED <<loopVars, poolVars, fd, checker, stop, missed>>

\* heartbeatTimeout passes since the last frame of the client.
Age(c) ==
    /\ ctx[c] = "client"
    /\ c \notin stale
    /\ stale' = stale \cup {c}
    /\ UNCHANGED <<ctx, at, clients, connMap, closing, poolVars, restVars>>

-----------------------------------------------------------------------------
(* startHeartbeatChecker                                                   *)

Watched(c) == \E f \in Fd : connMap[f] = c

\* Mutant: the comparison with heartbeatTimeout is turned round.
VisitInverted(c) ==
    /\ stop \in {"up", "engine"}
    /\ checker = Idle
    /\ Watched(c)
    /\ c \notin stale
    /\ checker' = [step |-> "unregister", conn |-> c]
    /\ UNCHANGED <<loopVars, poolVars, fd, silent, stop, missed>>

\* connMap.Range meets a client that has been silent for too long.  A Range
\* under way when Shutdown cancels the checker goes on to its end.
Visit(c) ==
    /\ stop \in {"up", "engine"}
    /\ checker = Idle
    /\ Watched(c)
    /\ c \in stale
    /\ checker' = [step |-> "unregister", conn |-> c]
    /\ UNCHANGED <<loopVars, poolVars, fd, silent, stop, missed>>

\* A stale client: clients.Unregister, client.Close, connMap.Delete.
EvictUnregister ==
    /\ checker.step = "unregister"
    /\ clients' = Unregistered(checker.conn)
    /\ checker' = [checker EXCEPT !.step = "close"]
    /\ UNCHANGED <<ctx, at, connMap, closing, stale, poolVars, fd, silent, stop, missed>>

EvictClose ==
    /\ checker.step = "close"
    /\ closing' = closing \cup {checker.conn}
    /\ checker' = [checker EXCEPT !.step = "delete"]
    /\ UNCHANGED <<ctx, at, clients, connMap, stale, poolVars, fd, silent, stop, missed>>

\* connMap.Delete(key): whatever the descriptor stands for by now.
EvictDelete ==
    LET f == fd[checker.conn] IN
    /\ checker.step = "delete"
    /\ connMap' = [connMap EXCEPT ![f] = NoConn]
    /\ missed' = missed \cup ({connMap[f]} \ {checker.conn, NoConn})
    /\ checker' = Idle
    /\ UNCHANGED <<ctx, at, clients, closing, stale, poolVars, fd, silent, stop>>

Evict == EvictUnregister \/ EvictClose \/ EvictDelete

-----------------------------------------------------------------------------
(* Workers                                                                 *)

\* Mutant: a worker returns when done is closed.
TakeWhileOpen(w) ==
    /\ stop # "done"
    /\ running[w] = <<>>
    /\ tasks # <<>>
    /\ running' = [running EXCEPT ![w] = Head(tasks)]
    /\ tasks' = Tail(tasks)
    /\ UNCHANGED <<loopVars, sent, restVars>>

\* for task := range wp.tasks: a closed channel is drained first.
Take(w) ==
    /\ running[w] = <<>>
    /\ tasks # <<>>
    /\ running' = [running EXCEPT ![w] = Head(tasks)]
    /\ tasks' = Tail(tasks)
    /\ UNCHANGED <<loopVars, sent, restVars>>

\* task(): router.Route(ctx, client, msg).
Route(w) ==
    /\ running[w] # <<>>
    /\ running' = [running EXCEPT ![w] = <<>>]
    /\ UNCHANGED <<loopVars, tasks, sent, restVars>>

-----------------------------------------------------------------------------
(* Shutdown                                                                *)

\* h.cancel(); engine.Stop closes every connection.
ShutdownStarts ==
    /\ stop = "up"
    /\ stop' = "engine"
    /\ closing' = closing \cup {c \in Conn : Live(c)}
    /\ UNCHANGED <<ctx, at, clients, connMap, stale, poolVars, fd, silent, checker, missed>>

\* Mutant: Stop is not waited for.
StoppedAtOnce == TRUE

Stopped == \A c \in Conn : ~Live(c)

\* engine.Stop returns nil, or an error when its context expires first: then
\* the pool is left open.
EngineStops ==
    /\ stop = "engine"
    /\ \/ Stopped /\ stop' = "pool"
       \/ stop' = "failed"
    /\ UNCHANGED <<loopVars, poolVars, fd, silent, checker, missed>>

\* workerPool.Close().
PoolCloses ==
    /\ stop = "pool"
    /\ stop' = "done"
    /\ UNCHANGED <<loopVars, poolVars, fd, silent, checker, missed>>

\* The process ends.  ListenAndServe returns as soon as the HTTP server begins to
\* shut down, and main then closes the application and returns: it waits for
\* none of the steps above, which follow the HTTP server's in a goroutine.
Exit ==
    /\ stop # "exited"
    /\ stop' = "exited"
    /\ fd' = [c \in Conn |-> 0]
    /\ ctx' = [c \in Conn |-> "gone"]
    /\ at' = [c \in Conn |-> "idle"]
    /\ clients' = [u \in Uid |-> NoConn]
    /\ connMap' = [f \in Fd |-> NoConn]
    /\ closing' = {} /\ stale' = {} /\ silent' = {} /\ missed' = {}
    /\ checker' = Idle
    /\ tasks' = <<>>
    /\ running' = [w \in Worker |-> <<>>]
    /\ sent' = [c \in Conn |-> 0]

-----------------------------------------------------------------------------
Next ==
    \/ \E c \in Conn :
        \/ OnOpen(c) \/ LoginFails(c) \/ Register(c) \/ Frame(c) \/ LoopStep(c)
        \/ Breaks(c) \/ Vanish(c) \/ Age(c) \/ Visit(c)
    \/ Evict
    \/ \E w \in Worker : Take(w) \/ Route(w)
    \/ ShutdownStarts \/ EngineStops \/ PoolCloses \/ Exit

\* Event loops, checker and workers are goroutines that keep running; time
\* passes for a peer that sends nothing.
Fairness ==
    /\ \A c \in Conn :
        /\ WF_vars(LoopStep(c))
        /\ WF_vars(Visit(c))
        /\ WF_vars(c \in silent /\ Age(c))
    /\ WF_vars(Evict)
    /\ \A w \in Worker : WF_vars(Take(w)) /\ WF_vars(Route(w))

Spec == Init /\ [][Next]_vars /\ Fairness

-----------------------------------------------------------------------------
(* Properties                                                              *)

\* Frame n of connection c.
Frames == Conn \X (0 .. MaxFrames)

TypeOK ==
    /\ fd \in [Conn -> Fd \cup {0}]
    /\ ctx \in [Conn -> {"none", "pending", "client", "gone"}]
    /\ at \in [Conn -> {"idle", "store", "greet", "submit", "delete"}]
    /\ clients \in [Uid -> Conn \cup {NoConn}]
    /\ connMap \in [Fd -> Conn \cup {NoConn}]
    /\ closing \subseteq Conn /\ stale \subseteq Conn
    /\ silent \subseteq Conn /\ missed \subseteq Conn
    /\ checker \in [step : {"idle", "unregister", "close", "delete"},
                    conn : Conn \cup {NoConn}]
    /\ tasks \in Seq(Frames) /\ Len(tasks) <= QueueSize
    /\ running \in [Worker -> Frames \cup {<<>>}]
    /\ sent \in [Conn -> 0 .. MaxFrames]
    /\ stop \in {"up", "engine", "pool", "failed", "done", "exited"}

\* Nothing is sent on the closed channel of the pool: no event loop is between
\* the two steps of Submit when Shutdown closes it (the comment at
\* gnet_handler.go:307 relies on engine.Stop for this).
PoolOutlivesLoops == stop = "done" => \A c \in Conn : at[c] # "submit"

\* The two tables agree with the connections: after OnClose neither the registry
\* nor connMap holds a connection, whoever else was evicting it; and a registered
\* client that is served is one the heartbeat checker sees, unless the eviction
\* of an earlier user of its descriptor removed it.
TablesAgree ==
    \A c \in Conn :
        /\ ctx[c] = "gone" => clients[Owner[c]] # c /\ ~Watched(c)
        /\ ctx[c] = "client" /\ clients[Owner[c]] = c
            => Watched(c) \/ c \in missed

\* A client that vanished without closing is unregistered in the end, so that
\* messages for its user are no longer buffered for nobody: over TCP only the
\* heartbeat checker can notice (gnet_handler.go:326-335).
SilentIsUnregistered ==
    \A c \in Conn :
        c \in silent /\ clients[Owner[c]] = c
            ~> clients[Owner[c]] # c \/ c \in missed \/ stop # "up"

\* A frame that got into the queue is routed, unless the process ends first, also
\* when the connection it came from is gone or the pool has been closed (the
\* workers range over tasks).
QueuedIsRouted ==
    \A c \in Conn, n \in 1 .. MaxFrames :
        LET queued == \E i \in 1 .. Len(tasks) : tasks[i] = <<c, n>>
            held == \E w \in Worker : running[w] = <<c, n>>
        IN  queued ~> ~queued /\ ~held
=============================================================================
