---------------------------- MODULE ClientProofs ----------------------------
(***************************************************************************)
(* Two ways in which clients are served: connections over TCP, and friends.*)
(*                                                                         *)
(* The tables of the TCP side of a gateway agree, and its worker pool      *)
(* outlives the event loops, for any number of users, connections, event   *)
(* loops, descriptors and workers.                                         *)
(*                                                                         *)
(* Friends, for any users, pages and bounds: FriendsConsented and          *)
(* ShownIsReal speak of the table and of the pages; neither is inductive   *)
(* by itself, because a row or a bubble comes from a call, a command, a    *)
(* notice or a list that was on its way before.  Meant says of each of     *)
(* these what the user who caused it wanted.  SettledPageAgrees needs to   *)
(* know of a friend list under way what its two queries have read:         *)
(* ListsAgree.                                                             *)
(***************************************************************************)
EXTENDS TcpGateway, Friends, WellFoundedInduction, TLAPS

-----------------------------------------------------------------------------
(* The TCP side of a gateway                                               *)

\* Where a handler may be, given the context of its connection.
Handlers ==
    \A c \in Conn : /\ at[c] \in {"store", "greet"} => ctx[c] = "pending"
                    /\ at[c] \in {"submit", "delete"} => ctx[c] = "client"

\* Two connections that are served have two descriptors.
Descriptors ==
    /\ \A c \in Conn : ctx[c] # "none" /\ stop # "exited" => fd[c] \in Fd
    /\ stop = "exited" => \A c \in Conn : ctx[c] = "gone"
    /\ \A c, d \in Conn : Live(c) /\ Live(d) /\ fd[c] = fd[d] => c = d

\* Whoever is registered has been registered by its own handler, and OnClose has
\* not come to it.
Registered ==
    \A u \in Uid :
        LET c == clients[u] IN
        c # NoConn => /\ Owner[c] = u
                      /\ \/ at[c] \in {"store", "greet"}
                         \/ ctx[c] = "client" /\ at[c] # "delete"

\* connMap holds, under its own descriptor, a connection between connMap.Store and
\* connMap.Delete.
Mapped ==
    \A f \in Fd :
        LET c == connMap[f] IN
        c # NoConn => fd[c] = f /\ (at[c] = "greet" \/ ctx[c] = "client")

\* The checker evicts a connection that has logged in, and once it has
\* unregistered it nothing registers it again.
Evicted ==
    LET c == checker.conn IN
    /\ \A d \in stale : ctx[d] = "client"
    /\ checker.step # "idle" => c \in Conn /\ ctx[c] \in {"client", "gone"} /\ stop # "exited"
    /\ checker.step \in {"close", "delete"} => clients[Owner[c]] # c

\* What TablesAgree says of a client that is served, from connMap.Store on.
SeenByChecker ==
    \A c \in Conn :
        (ctx[c] = "client" \/ at[c] = "greet") /\ clients[Owner[c]] = c
            => Watched(c) \/ c \in missed

\* engine.Stop returned nil.
Drained == stop \in {"pool", "done"} => \A c \in Conn : ~Live(c)

TcpInv ==
    /\ TypeOK
    /\ Handlers
    /\ Descriptors
    /\ Registered
    /\ Mapped
    /\ Evicted
    /\ SeenByChecker
    /\ Drained

-----------------------------------------------------------------------------
\* The lowest free descriptor is a free descriptor.
LEMMA LowestIsFree ==
    ASSUME NEW S \in SUBSET Nat, S # {}
    PROVE  Min(S) \in S
<1>1. \E x \in S : \A y \in S : ~(<<y, x>> \in OpToRel(<, Nat))
    BY NatLessThanWellFounded, WFMin, Zenon
<1>2. \E x \in S : \A y \in S : ~(y < x)
    BY <1>1, Zenon DEF OpToRel
<1>3. \E x \in S : \A y \in S : x =< y
    BY <1>2
<1> QED  BY Zenon, <1>3 DEF Min

\* A new connection gets a descriptor that no connection has that is served.
LEMMA OpenTakesFree ==
    ASSUME NEW c \in Conn, OnOpen(c)
    PROVE  \E f \in Fd : /\ fd' = [fd EXCEPT ![c] = f]
                          /\ \A d \in Conn : Live(d) => fd[d] # f
<1> DEFINE free == Fd \ {fd[d] : d \in {e \in Conn : Live(e)}}
<1>1. free \in SUBSET Nat /\ free # {} /\ fd' = [fd EXCEPT ![c] = Min(free)]
    BY Zenon, TcpAssumption DEF OnOpen, TcpAssumption
<1>2. Min(free) \in free
    BY <1>1, LowestIsFree
<1> QED  BY Zenon, <1>1, <1>2

\* Init establishes the invariant.
LEMMA TcpStarts == Init => TcpInv
BY TcpAssumption DEF TcpAssumption, Init, Idle, TcpInv, TypeOK, Handlers, Descriptors,
    Registered, Mapped, Evicted, SeenByChecker, Drained, Live

\* Every action keeps the variables in their types.
LEMMA TcpTypes == TcpInv /\ [Next]_vars => TypeOK'
<1> SUFFICES ASSUME TcpInv, [Next]_vars PROVE TypeOK'
    OBVIOUS
<1> USE DEF TypeOK, vars, loopVars, poolVars, restVars, GoTo, Idle
<1>0. TypeOK /\ TcpAssumption
    BY Zenon, TcpAssumption DEF TcpInv
<1>1. ASSUME NEW c \in Conn, OnOpen(c) PROVE TypeOK'
  <2>1. PICK f \in Fd : fd' = [fd EXCEPT ![c] = f]
      BY <1>0, <1>1, OpenTakesFree
  <2>2. fd' \in [Conn -> Fd \cup {0}]
      BY <1>0, <2>1
  <2>3. ctx' \in [Conn -> {"none", "pending", "client", "gone"}]
      BY <1>0, <1>1 DEF OnOpen
  <2>4. UNCHANGED <<at, clients, connMap, closing, stale, poolVars, silent, checker, stop, missed>>
      BY <1>1 DEF OnOpen
  <2> QED  BY Zenon, <1>0, <2>2, <2>3, <2>4
<1>2. ASSUME NEW c \in Conn, LoginFails(c) PROVE TypeOK'
    BY Zenon, <1>0, <1>2 DEF LoginFails
<1>3. ASSUME NEW c \in Conn, Register(c) PROVE TypeOK'
  <2>0. Owner[c] \in Uid /\ clients[Owner[c]] \in Conn \cup {NoConn}
      BY <1>0 DEF TcpAssumption
  <2>1. clients' \in [Uid -> Conn \cup {NoConn}]
      BY <1>0, <1>3 DEF Register
  <2>2. closing' \subseteq Conn
      BY Zenon, <1>0, <1>3, <2>0 DEF Register
  <2> QED  BY <1>0, <1>3, <2>1, <2>2 DEF Register
<1>4. ASSUME NEW c \in Conn, StoreFd(c) PROVE TypeOK'
    BY Zenon, <1>0, <1>4 DEF StoreFd
<1>5. ASSUME NEW c \in Conn, Greet(c) PROVE TypeOK'
    BY Zenon, <1>0, <1>5 DEF Greet
<1>6. ASSUME NEW c \in Conn, Frame(c) PROVE TypeOK'
  <2>1. sent' \in [Conn -> 0 .. MaxFrames]
      BY <1>0, <1>6 DEF Frame, TcpAssumption
  <2>2. at' \in [Conn -> {"idle", "store", "greet", "submit", "delete"}]
      BY <1>0, <1>6 DEF Frame
  <2> QED  BY Zenon, <1>0, <1>6, <2>1, <2>2 DEF Frame
<1>7. ASSUME NEW c \in Conn, Submit(c) PROVE TypeOK'
  <2>1. <<c, sent[c]>> \in Frames
      BY <1>0 DEF Frames
  <2>2. tasks' \in Seq(Frames) /\ Len(tasks') <= QueueSize
      BY <1>0, <1>7, <2>1 DEF Submit, TcpAssumption
  <2> QED  BY Zenon, <1>0, <1>7, <2>2 DEF Submit
<1>8. ASSUME NEW c \in Conn, OnClose(c) PROVE TypeOK'
    BY <1>0, <1>8, SMTT(30) DEF OnClose, Unregistered
<1>9. ASSUME NEW c \in Conn, OnCloseDelete(c) PROVE TypeOK'
    BY Zenon, <1>0, <1>9 DEF OnCloseDelete
<1>10. ASSUME NEW c \in Conn, Breaks(c) \/ Vanish(c) \/ Age(c) PROVE TypeOK'
    BY Zenon, <1>0, <1>10 DEF Breaks, Vanish, Age
<1>16. ASSUME NEW c \in Conn, Visit(c) PROVE TypeOK'
    BY Zenon, <1>0, <1>16 DEF Visit
<1>11. CASE Evict
  <2>1. CASE EvictUnregister
      BY Zenon, <1>0, <2>1 DEF EvictUnregister, Unregistered
  <2>2. CASE EvictClose
      BY Zenon, <1>0, <2>2 DEF EvictClose, TcpInv, Evicted
  <2>3. CASE EvictDelete
    <3>1. fd[checker.conn] \in Fd
        BY Zenon, <1>0, <2>3 DEF EvictDelete, TcpInv, Evicted, Descriptors
    <3>2. missed' \subseteq Conn
      <4>1. connMap[fd[checker.conn]] \in Conn \cup {NoConn}
          BY Zenon, <1>0, <3>1
      <4>2. missed' = missed \cup ({connMap[fd[checker.conn]]} \ {checker.conn, NoConn})
          BY <2>3 DEF EvictDelete
      <4>3. missed \subseteq Conn
          BY <1>0
      <4> QED  BY <4>1, <4>2, <4>3, Zenon
    <3> QED  BY Zenon, <1>0, <2>3, <3>2 DEF EvictDelete
  <2> QED  BY <1>11, <2>1, <2>2, <2>3 DEF Evict
<1>12. ASSUME NEW w \in Worker, Take(w) \/ Route(w) PROVE TypeOK'
  <2>1. running' \in [Worker -> Frames \cup {<<>>}]
      BY <1>0, <1>12 DEF Take, Route
  <2>2. tasks' \in Seq(Frames) /\ Len(tasks') <= QueueSize
    <3>1. CASE Take(w)
      <4>1. tasks \in Seq(Frames) /\ tasks # <<>> /\ tasks' = Tail(tasks)
          BY <1>0, <3>1 DEF Take
      <4>2. tasks' \in Seq(Frames) /\ Len(tasks') = Len(tasks) - 1 /\ Len(tasks) \in Nat
          BY <4>1
      <4> QED  BY <1>0, <4>2 DEF TcpAssumption
    <3>2. CASE Route(w)
        BY <1>0, <3>2 DEF Route
    <3> QED  BY <1>12, <3>1, <3>2
  <2> QED  BY Zenon, <1>0, <1>12, <2>1, <2>2 DEF Take, Route
<1>13. CASE ShutdownStarts \/ EngineStops \/ PoolCloses
    BY Zenon, <1>0, <1>13 DEF ShutdownStarts, EngineStops, PoolCloses
<1>14. CASE Exit
    BY <1>0, <1>14 DEF Exit, TcpAssumption
<1>15. CASE UNCHANGED vars
    BY <1>0, <1>15
<1> QED  BY Zenon, <1>1, <1>2, <1>3, <1>4, <1>5, <1>6, <1>7, <1>8, <1>9, <1>10, <1>11, <1>12, <1>13,
            <1>14, <1>15, <1>16 DEF Next, LoopStep

\* The invariant does not depend on the other variables.
LEMMA TcpQuiet ==
    ASSUME TcpInv, TypeOK', UNCHANGED <<fd, ctx, at, clients, connMap, stale, checker, stop, missed>>
    PROVE  TcpInv'
BY DEF TcpInv, Handlers, Descriptors, Registered, Mapped, Evicted, SeenByChecker, Drained,
    Live, Watched

\* Every action preserves the rest of the invariant.
LEMMA TcpSteps == TcpInv /\ [Next]_vars => TcpInv'
<1> SUFFICES ASSUME TcpInv, [Next]_vars, TypeOK' PROVE TcpInv'
    BY TcpTypes
<1> USE TcpAssumption DEF TcpInv
<1>1. ASSUME NEW c \in Conn, OnOpen(c) PROVE TcpInv'
  <2>1. Handlers'
      BY <1>1 DEF OnOpen, Handlers, TypeOK, Free
  <2>2. Descriptors'
    <3>1. PICK f \in Fd : /\ fd' = [fd EXCEPT ![c] = f]
                         /\ \A d \in Conn : Live(d) => fd[d] # f
        BY <1>1, OpenTakesFree
    <3>2. ctx[c] = "none" /\ stop = "up" /\ stop' = stop /\ ctx' = [ctx EXCEPT ![c] = "pending"]
        BY <1>1 DEF OnOpen
    <3>3. \A d \in Conn \ {c} : fd'[d] = fd[d] /\ ctx'[d] = ctx[d]
        BY <3>1, <3>2 DEF TypeOK
    <3>4. fd'[c] = f /\ ctx'[c] = "pending"
        BY <3>1, <3>2 DEF TypeOK
    <3>5. \A d \in Conn : Live(d)' => d = c \/ Live(d)
        BY <3>3 DEF Live
    <3>6. \A d, e \in Conn : Live(d)' /\ Live(e)' /\ fd'[d] = fd'[e] => d = e
        BY <3>1, <3>3, <3>4, <3>5 DEF Descriptors
    <3>7. \A d \in Conn : ctx'[d] # "none" => fd'[d] \in Fd
        BY <3>2, <3>3, <3>4 DEF Descriptors
    <3> QED  BY <3>2, <3>6, <3>7 DEF Descriptors
  <2>3. Registered'
      BY <1>1 DEF OnOpen, Registered, TypeOK, Handlers
  <2>4. Mapped'
      BY <1>1 DEF OnOpen, Mapped, TypeOK, Handlers
  <2>5. Evicted'
      BY <1>1 DEF OnOpen, Evicted, TypeOK, Idle
  <2>6. SeenByChecker'
      BY <1>1 DEF OnOpen, SeenByChecker, TypeOK, Watched
  <2>7. Drained'
      BY <1>1 DEF OnOpen, Drained, TypeOK, Live
  <2> QED  BY <2>1, <2>2, <2>3, <2>4, <2>5, <2>6, <2>7
<1>2. ASSUME NEW c \in Conn, Register(c) PROVE TcpInv'
  <2>1. Handlers'
      BY <1>2 DEF Register, Handlers, TypeOK, GoTo, Free
  <2>2. Descriptors' /\ Drained'
      BY <1>2 DEF Register, Descriptors, Drained, restVars, Live
  <2>3. Registered'
      BY <1>2 DEF Register, Registered, TypeOK, GoTo, Free, Handlers, TcpAssumption
  <2>4. Mapped'
      BY <1>2 DEF Register, Mapped, TypeOK, GoTo, restVars, Free
  <2>5. Evicted'
    <3>1. checker.step # "idle" => checker.conn # c
        BY <1>2 DEF Register, Evicted
    <3>2. clients' = clients \/ clients' = [clients EXCEPT ![Owner[c]] = c]
        BY <1>2 DEF Register
    <3>3. \A d \in Conn \ {c} : clients[Owner[d]] # d => clients'[Owner[d]] # d
        BY <3>2 DEF TypeOK
    <3> QED  BY Zenon, <1>2, <3>1, <3>3 DEF Register, Evicted, restVars
  <2>6. SeenByChecker'
      BY <1>2 DEF Register, SeenByChecker, TypeOK, GoTo, restVars, Watched, TcpAssumption
  <2> QED  BY <2>1, <2>2, <2>3, <2>4, <2>5, <2>6
<1>3. ASSUME NEW c \in Conn, StoreFd(c) PROVE TcpInv'
  <2>1. Handlers'
      BY <1>3 DEF StoreFd, Handlers, TypeOK, GoTo
  <2>2. Descriptors' /\ Drained'
      BY <1>3 DEF StoreFd, Descriptors, Drained, restVars, Live
  <2>3. Registered'
      BY <1>3 DEF StoreFd, Registered, TypeOK, GoTo
  <2>4. Mapped'
      BY <1>3 DEF StoreFd, Mapped, TypeOK, GoTo, restVars, Descriptors, Handlers, Live, TcpAssumption
  <2>5. Evicted'
      BY <1>3 DEF StoreFd, Evicted, restVars
  <2>6. SeenByChecker'
    <3>1. Live(c) /\ fd[c] \in Fd
        BY <1>3 DEF StoreFd, Handlers, Descriptors, Live
    <3>2. connMap[fd[c]] \in {c, NoConn}
      <4> DEFINE d == connMap[fd[c]]
      <4>1. d # NoConn => d \in Conn /\ fd[d] = fd[c]
          BY Zenon, <3>1 DEF Mapped, TypeOK
      <4>2. d # NoConn => Live(d)
          BY Zenon, <3>1, <4>1 DEF Mapped, Handlers, Live
      <4> QED  BY Zenon, <3>1, <4>1, <4>2 DEF Descriptors
    <3>3. connMap'[fd[c]] = c /\ \A f \in Fd \ {fd[c]} : connMap'[f] = connMap[f]
        BY <1>3, <3>1 DEF StoreFd, TypeOK
    <3>4. \A d \in Conn : Watched(d) => Watched(d)'
        BY <3>1, <3>2, <3>3, TcpAssumption DEF Watched, TcpAssumption
    <3>5. Watched(c)'
        BY Zenon, <3>1, <3>3 DEF Watched
    <3>6. UNCHANGED <<ctx, clients, missed>> /\ at' = [at EXCEPT ![c] = "greet"]
        BY <1>3 DEF StoreFd, GoTo, restVars
    <3> QED  BY <3>4, <3>5, <3>6 DEF SeenByChecker, TypeOK
  <2> QED  BY <2>1, <2>2, <2>3, <2>4, <2>5, <2>6
<1>4. ASSUME NEW c \in Conn, Greet(c) PROVE TcpInv'
  <2>1. Handlers'
      BY <1>4 DEF Greet, Handlers, TypeOK, GoTo
  <2>2. Descriptors'
      BY <1>4 DEF Greet, Descriptors, TypeOK, Handlers, Live, restVars
  <2>3. Registered'
      BY <1>4 DEF Greet, Registered, TypeOK, GoTo
  <2>4. Mapped'
      BY <1>4 DEF Greet, Mapped, TypeOK, GoTo, restVars
  <2>5. Evicted'
      BY <1>4 DEF Greet, Evicted, TypeOK, Handlers, restVars
  <2>6. SeenByChecker'
      BY <1>4 DEF Greet, SeenByChecker, TypeOK, GoTo, Watched, restVars
  <2>7. Drained'
      BY <1>4 DEF Greet, Drained, TypeOK, Handlers, Live, restVars
  <2> QED  BY <2>1, <2>2, <2>3, <2>4, <2>5, <2>6, <2>7
<1>5. ASSUME NEW c \in Conn, Frame(c) PROVE TcpInv'
  <2>1. Handlers'
      BY <1>5 DEF Frame, Handlers, TypeOK, GoTo
  <2>2. Descriptors' /\ Drained'
      BY <1>5 DEF Frame, Descriptors, Drained, restVars, Live
  <2>3. Registered'
    <3>1. \A d \in Conn \ {c} : at'[d] = at[d]
        BY <1>5 DEF Frame, GoTo, TypeOK
    <3>2. UNCHANGED <<clients, ctx>> /\ ctx[c] = "client" /\ at[c] = "idle"
        BY <1>5 DEF Frame, Free
    <3>3. at'[c] # "delete"
        BY <1>5, <3>2 DEF Frame, GoTo, TypeOK
    <3>4. \A u \in Uid : clients[u] # NoConn => clients[u] \in Conn
        BY DEF TypeOK
    <3> QED  BY Zenon, <3>1, <3>2, <3>3, <3>4 DEF Registered
  <2>4. Mapped'
    <3>1. UNCHANGED <<connMap, ctx, fd>> /\ ctx[c] = "client" /\ at[c] # "greet"
        BY <1>5 DEF Frame, Handlers, restVars
    <3>2. \A d \in Conn : d # c => at'[d] = at[d]
        BY <1>5 DEF Frame, GoTo, TypeOK
    <3>3. \A f \in Fd : connMap[f] # NoConn => connMap[f] \in Conn
        BY DEF TypeOK
    <3> QED  BY Zenon, <3>1, <3>2, <3>3 DEF Mapped
  <2>5. Evicted'
      BY <1>5 DEF Frame, Evicted, restVars
  <2>6. SeenByChecker'
      BY <1>5 DEF Frame, SeenByChecker, TypeOK, GoTo, Watched, restVars
  <2> QED  BY <2>1, <2>2, <2>3, <2>4, <2>5, <2>6
<1>6. ASSUME NEW c \in Conn, Submit(c) PROVE TcpInv'
  <2>1. Handlers'
      BY <1>6 DEF Submit, Handlers, TypeOK, GoTo
  <2>2. Descriptors' /\ Drained'
      BY <1>6 DEF Submit, Descriptors, Drained, restVars, Live
  <2>3. Registered'
      BY <1>6 DEF Submit, Registered, TypeOK, GoTo, Handlers
  <2>4. Mapped'
      BY <1>6 DEF Submit, Mapped, TypeOK, GoTo, restVars, Handlers
  <2>5. Evicted'
      BY <1>6 DEF Submit, Evicted, restVars
  <2>6. SeenByChecker'
      BY <1>6 DEF Submit, SeenByChecker, TypeOK, GoTo, Watched, restVars
  <2> QED  BY <2>1, <2>2, <2>3, <2>4, <2>5, <2>6
<1>7. ASSUME NEW c \in Conn, OnClose(c) PROVE TcpInv'
  <2>1. Handlers'
      BY <1>7 DEF OnClose, Handlers, TypeOK, GoTo, Free
  <2>2. Descriptors'
      BY <1>7 DEF OnClose, Descriptors, TypeOK, Live, restVars
  <2>3. Registered'
    <3>1. at[c] = "idle"
        BY <1>7 DEF OnClose, Free
    <3>2. CASE ctx[c] = "client"
      <4>1. at' = [at EXCEPT ![c] = "delete"] /\ ctx' = ctx /\ clients' = Unregistered(c)
          BY <1>7, <3>2 DEF OnClose, GoTo
      <4>2. \A u \in Uid : clients'[u] # NoConn => clients'[u] = clients[u] /\ clients'[u] # c
          BY <4>1, TcpAssumption DEF TypeOK, Unregistered, TcpAssumption, Registered
      <4> QED  BY <4>1, <4>2 DEF Registered, TypeOK
    <3>3. CASE ctx[c] # "client"
      <4>1. ctx' = [ctx EXCEPT ![c] = "gone"] /\ UNCHANGED <<clients, at>>
          BY <1>7, <3>3 DEF OnClose
      <4> QED  BY <3>1, <3>3, <4>1 DEF Registered, TypeOK
    <3> QED  BY <3>2, <3>3
  <2>4. Mapped'
    <3>1. at[c] = "idle" /\ UNCHANGED <<connMap, fd>>
        BY <1>7 DEF OnClose, Free, restVars
    <3>2. \A d \in Conn \ {c} : at'[d] = at[d] /\ ctx'[d] = ctx[d]
        BY <1>7 DEF OnClose, GoTo, TypeOK
    <3>3. ctx[c] = "client" => ctx'[c] = "client"
        BY <1>7 DEF OnClose
    <3>4. \A f \in Fd : connMap[f] # NoConn => connMap[f] \in Conn
        BY DEF TypeOK
    <3> QED  BY Zenon, <3>1, <3>2, <3>3, <3>4 DEF Mapped
  <2>5. Evicted'
    <3>1. UNCHANGED <<stale, checker, stop>>
        BY Zenon, <1>7 DEF OnClose, restVars
    <3>2. \A d \in Conn : clients[Owner[d]] # d => clients'[Owner[d]] # d
        BY <1>7, TcpAssumption DEF OnClose, Unregistered, TypeOK, TcpAssumption
    <3>3. CASE ctx[c] = "client"
      <4>1. ctx' = ctx
          BY <1>7, <3>3 DEF OnClose
      <4> QED  BY <3>1, <3>2, <4>1 DEF Evicted
    <3>4. CASE ctx[c] # "client"
      <4>1. ctx[c] = "pending" /\ ctx' = [ctx EXCEPT ![c] = "gone"]
          BY <1>7, <3>4 DEF OnClose, Live
      <4>2. \A d \in Conn : ctx'[d] = ctx[d] \/ ctx[d] = "pending"
          BY <4>1 DEF TypeOK
      <4>3. stale \subseteq Conn
          BY DEF TypeOK
      <4> QED  BY Zenon, <3>1, <3>2, <4>2, <4>3 DEF Evicted
    <3> QED  BY <3>3, <3>4
  <2>6. SeenByChecker'
      BY <1>7 DEF OnClose, SeenByChecker, TypeOK, GoTo, Watched, restVars, Unregistered, TcpAssumption
  <2>7. Drained'
      BY Zenon, <1>7 DEF OnClose, Drained, TypeOK, Live, restVars
  <2> QED  BY <2>1, <2>2, <2>3, <2>4, <2>5, <2>6, <2>7
<1>8. ASSUME NEW c \in Conn, OnCloseDelete(c) PROVE TcpInv'
  <2>1. Handlers'
      BY <1>8 DEF OnCloseDelete, Handlers, TypeOK, GoTo
  <2>2. Descriptors'
      BY <1>8 DEF OnCloseDelete, Descriptors, TypeOK, Live
  <2>3. Registered'
      BY <1>8 DEF OnCloseDelete, Registered, TypeOK, GoTo
  <2>4. Mapped'
      BY <1>8 DEF OnCloseDelete, Mapped, TypeOK, GoTo, Descriptors, Handlers, Live
  <2>5. Evicted'
      BY Zenon, <1>8 DEF OnCloseDelete, Evicted, TypeOK, Handlers
  <2>6. SeenByChecker'
      BY <1>8 DEF OnCloseDelete, SeenByChecker, TypeOK, GoTo, Watched, Handlers, Descriptors, Mapped, Live, Registered
  <2>7. Drained'
      BY <1>8 DEF OnCloseDelete, Drained, TypeOK, Live
  <2> QED  BY <2>1, <2>2, <2>3, <2>4, <2>5, <2>6, <2>7
<1>9. ASSUME NEW c \in Conn, Age(c) PROVE TcpInv'
  <2>1. Handlers' /\ Descriptors' /\ Registered' /\ Mapped' /\ SeenByChecker' /\ Drained'
      BY <1>9 DEF Age, Handlers, Descriptors, Registered, Mapped, SeenByChecker, Drained, Live, Watched, restVars
  <2>2. Evicted'
      BY Zenon, <1>9 DEF Age, Evicted, TypeOK, restVars
  <2> QED  BY <2>1, <2>2
<1>10. ASSUME NEW c \in Conn, Visit(c) PROVE TcpInv'
  <2>1. Handlers' /\ Descriptors' /\ Registered' /\ Mapped' /\ SeenByChecker' /\ Drained'
      BY <1>10 DEF Visit, Handlers, Descriptors, Registered, Mapped, SeenByChecker, Drained, Live, Watched, loopVars
  <2>2. Evicted'
      BY <1>10 DEF Visit, Evicted, TypeOK, loopVars, Idle
  <2> QED  BY <2>1, <2>2
<1>11. CASE EvictUnregister
  <2>1. Handlers' /\ Descriptors' /\ Mapped' /\ Drained'
      BY <1>11 DEF EvictUnregister, Handlers, Descriptors, Mapped, Drained, Live
  <2>2. Registered'
      BY <1>11 DEF EvictUnregister, Registered, TypeOK, Unregistered, Evicted
  <2>3. Evicted'
      BY <1>11 DEF EvictUnregister, Evicted, TypeOK, Unregistered, TcpAssumption
  <2>4. SeenByChecker'
      BY <1>11 DEF EvictUnregister, SeenByChecker, TypeOK, Watched, Unregistered, Evicted, TcpAssumption
  <2> QED  BY <2>1, <2>2, <2>3, <2>4
<1>12. CASE EvictClose
  <2>1. Handlers' /\ Descriptors' /\ Registered' /\ Mapped' /\ SeenByChecker' /\ Drained'
      BY <1>12 DEF EvictClose, Handlers, Descriptors, Registered, Mapped, SeenByChecker, Drained, Live, Watched
  <2>2. Evicted'
      BY <1>12 DEF EvictClose, Evicted, TypeOK
  <2> QED  BY <2>1, <2>2
<1>13. CASE EvictDelete
  <2>1. Handlers' /\ Descriptors' /\ Registered' /\ Drained'
      BY <1>13 DEF EvictDelete, Handlers, Descriptors, Registered, Drained, Live
  <2>2. Mapped'
      BY <1>13 DEF EvictDelete, Mapped, TypeOK
  <2>3. Evicted'
      BY <1>13 DEF EvictDelete, Evicted, Idle
  <2>4. SeenByChecker'
    <3> DEFINE e == checker.conn
    <3>1. e \in Conn /\ fd[e] \in Fd /\ clients[Owner[e]] # e
        BY Zenon, <1>13 DEF EvictDelete, Evicted, Descriptors
    <3>2. \A f \in Fd \ {fd[e]} : connMap'[f] = connMap[f]
        BY <1>13 DEF EvictDelete, TypeOK
    <3>3. missed' = missed \cup ({connMap[fd[e]]} \ {e, NoConn}) /\ UNCHANGED <<ctx, at, clients>>
        BY <1>13 DEF EvictDelete
    <3>4. \A d \in Conn \ {e} : Watched(d) => Watched(d)' \/ d \in missed'
        BY Zenon, <3>1, <3>2, <3>3, TcpAssumption DEF Watched, TcpAssumption
    <3> HIDE DEF e
    <3> QED  BY <3>1, <3>3, <3>4 DEF SeenByChecker
  <2> QED  BY <2>1, <2>2, <2>3, <2>4
<1>14. CASE ShutdownStarts
  <2>1. Handlers' /\ Descriptors' /\ Registered' /\ Mapped' /\ Evicted' /\ SeenByChecker' /\ Drained'
      BY <1>14 DEF ShutdownStarts, Handlers, Descriptors, Registered, Mapped, Evicted, SeenByChecker, Drained, Live, Watched
  <2> QED  BY Zenon, <2>1
<1>15. CASE EngineStops
  <2>1. Handlers' /\ Descriptors' /\ Registered' /\ Mapped' /\ Evicted' /\ SeenByChecker'
      BY <1>15 DEF EngineStops, Handlers, Descriptors, Registered, Mapped, Evicted, SeenByChecker, Live, Watched, loopVars
  <2>2. Drained'
      BY Zenon, <1>15 DEF EngineStops, Drained, Stopped, Live, loopVars
  <2> QED  BY Zenon, <2>1, <2>2
<1>16. CASE PoolCloses
  <2>1. Handlers' /\ Descriptors' /\ Registered' /\ Mapped' /\ Evicted' /\ SeenByChecker' /\ Drained'
      BY <1>16 DEF PoolCloses, Handlers, Descriptors, Registered, Mapped, Evicted, SeenByChecker, Drained, Live, Watched, loopVars
  <2> QED  BY <2>1
<1>17. CASE Exit
  <2>1. Handlers' /\ Descriptors' /\ Registered' /\ Mapped' /\ Evicted' /\ SeenByChecker' /\ Drained'
      BY <1>17 DEF Exit, Handlers, Descriptors, Registered, Mapped, Evicted, SeenByChecker, Drained, Live, Watched, Idle, TcpAssumption
  <2> QED  BY <2>1
<1>18. ASSUME NEW c \in Conn, LoginFails(c) \/ Breaks(c) \/ Vanish(c) PROVE TcpInv'
    BY <1>18, TcpQuiet DEF LoginFails, Breaks, Vanish, loopVars, restVars
<1>19. ASSUME NEW w \in Worker, Take(w) \/ Route(w) PROVE TcpInv'
    BY <1>19, TcpQuiet DEF Take, Route, loopVars, restVars
<1>20. CASE UNCHANGED vars
    BY <1>20, TcpQuiet DEF vars, loopVars, restVars
<1> QED  BY Zenon, <1>1, <1>2, <1>3, <1>4, <1>5, <1>6, <1>7, <1>8, <1>9, <1>10,
            <1>11, <1>12, <1>13, <1>14, <1>15, <1>16, <1>17, <1>18, <1>19, <1>20 DEF Next, LoopStep, Evict

\* The invariant is one of the specification.
LEMMA TcpInvariant == Spec => []TcpInv
BY TcpStarts, TcpSteps, PTL DEF Spec

-----------------------------------------------------------------------------
\* The variables of the TCP side stay in their types: descriptors, tables, the
\* bounded queue of the worker pool.
THEOREM TypeCorrect == Spec => []TypeOK
<1>1. TcpInv => TypeOK
    BY DEF TcpInv
<1> QED  BY <1>1, TcpInvariant, PTL

\* Whatever logins, closings, evictions and reuse of descriptors interleave,
\* OnClose leaves the connection in neither table, and a client that is served is
\* one the heartbeat checker sees, unless an eviction took its entry.
THEOREM TablesHold == Spec => []TablesAgree
<1>1. TcpInv => TablesAgree
  <2> SUFFICES ASSUME TcpInv, NEW c \in Conn
               PROVE  /\ ctx[c] = "gone" => clients[Owner[c]] # c /\ ~Watched(c)
                      /\ ctx[c] = "client" /\ clients[Owner[c]] = c => Watched(c) \/ c \in missed
      BY DEF TablesAgree
  <2>1. Owner[c] \in Uid /\ c # NoConn
      BY TcpAssumption DEF TcpAssumption
  <2>2. ctx[c] = "gone" => at[c] \notin {"store", "greet"}
      BY DEF TcpInv, Handlers
  <2>3. ctx[c] = "gone" => clients[Owner[c]] # c
      BY <2>1, <2>2 DEF TcpInv, Registered
  <2>4. ctx[c] = "gone" => ~Watched(c)
      BY <2>1, <2>2 DEF TcpInv, Mapped, Watched
  <2> QED  BY <2>3, <2>4 DEF TcpInv, SeenByChecker
<1> QED  BY <1>1, TcpInvariant, PTL

\* No event loop is about to send on the channel of the worker pool when Shutdown
\* closes it: engine.Stop has returned nil, and then every connection has had
\* its OnClose.
THEOREM PoolHolds == Spec => []PoolOutlivesLoops
<1>1. TcpInv => PoolOutlivesLoops
    BY DEF TcpInv, PoolOutlivesLoops, Drained, Handlers, Live
<1> QED  BY <1>1, TcpInvariant, PTL

-----------------------------------------------------------------------------
(* Friends                                                                 *)


Command0 == [op : Op, peer : User]
Call == [at : {"sent", "ok", "failed"}, op : Op, peer : User]
Note == [op : Op, from : User]
YesNo == {"yes", "no"}
Load == [at : {"friends"}, clean : YesNo]
        \cup [at : {"requests"}, clean : YesNo, friends : SUBSET User]
        \cup [at : {"read"}, clean : YesNo, friends : SUBSET User, pending : SUBSET User]

\* Everything a step reads has the form the step expects.
Shape ==
    /\ call \in [User -> {Inactive} \cup Call]
    /\ frames \in [User -> Seq(Command0)]
    /\ inbox \in [User -> Seq(Note)]
    /\ load \in [User -> {Inactive} \cup Load]

\* A call or command of u is one that u wanted.
Meant(u, c) ==
    /\ c.peer # u
    /\ c.op = "request" => <<u, c.peer>> \in asked
    /\ c.op = "accept" => <<u, c.peer>> \in agreed

FriendReal(u, v) == v # u /\ (<<u, v>> \in agreed \/ <<v, u>> \in agreed)
RequestReal(u, v) == v # u /\ <<v, u>> \in asked

CallsMeant == \A u \in User : call[u] # Inactive => Meant(u, call[u])

FramesMeant == \A u \in User : \A i \in 1..Len(frames[u]) : Meant(u, frames[u][i])

InboxMeant ==
    \A u \in User : \A i \in 1..Len(inbox[u]) :
        /\ inbox[u][i].op = "accept" => FriendReal(u, inbox[u][i].from)
        /\ inbox[u][i].op = "request" => RequestReal(u, inbox[u][i].from)

LoadsReal ==
    \A u \in User :
        /\ load[u].at \in {"requests", "read"} => \A v \in load[u].friends : FriendReal(u, v)
        /\ load[u].at = "read" => \A v \in load[u].pending : RequestReal(u, v)

PagesReal ==
    \A u \in User : /\ \A v \in friends[u] : FriendReal(u, v)
                    /\ \A v \in pending[u] : RequestReal(u, v)

IInv ==
    /\ FriendsTypeOK
    /\ Shape
    /\ CallsMeant
    /\ FramesMeant
    /\ InboxMeant
    /\ LoadsReal
    /\ PagesReal
    /\ FriendsConsented

-----------------------------------------------------------------------------
(* The statements on the table                                             *)

\* Each statement changes rows along the life cycle only, and only the rows its
\* WHERE clause names.
LEMMA ApplyStep ==
    ASSUME NEW r \in [Pair -> Status], NEW op \in Op, NEW u \in User, NEW v \in User, u # v
    PROVE  /\ Apply(r, op, u, v) \in [Pair -> Status]
           /\ \A p \in Pair :
                 \/ Apply(r, op, u, v)[p] = r[p]
                 \/ /\ op = "request" /\ p = <<u, v>>
                    /\ r[p] = "none" /\ Apply(r, op, u, v)[p] = "pending"
                 \/ /\ op = "accept" /\ p = <<v, u>>
                    /\ r[p] = "pending" /\ Apply(r, op, u, v)[p] = "accepted"
                 \/ /\ op = "reject" /\ p = <<v, u>>
                    /\ r[p] = "pending" /\ Apply(r, op, u, v)[p] = "rejected"
                 \/ /\ op = "remove"
                    /\ r[p] = "accepted" /\ Apply(r, op, u, v)[p] = "none"
<1>0. <<u, v>> \in Pair /\ <<v, u>> \in Pair
  BY DEF Pair
<1>1. CASE op = "request"
  <2>1. Apply(r, op, u, v) = SendRequest(r, u, v)
    BY <1>1 DEF Apply
  <2>2. QED
    BY <1>0, <1>1, <2>1 DEF SendRequest, Status
<1>2. CASE op = "accept"
  <2>1. Apply(r, op, u, v) = AcceptRequest(r, u, v)
    BY <1>2 DEF Apply
  <2>2. QED
    BY <1>0, <1>2, <2>1 DEF AcceptRequest, Status
<1>3. CASE op = "reject"
  <2>1. Apply(r, op, u, v) = RejectRequest(r, u, v)
    BY <1>3 DEF Apply
  <2>2. QED
    BY <1>0, <1>3, <2>1 DEF RejectRequest, Status
<1>4. CASE op = "remove"
  <2>1. Apply(r, op, u, v) = RemoveFriend(r, u, v)
    BY Zenon, <1>4 DEF Apply
  <2>2. QED
    BY <1>0, <1>4, <2>1 DEF RemoveFriend, Status
<1>5. QED
  BY Zenon, <1>1, <1>2, <1>3, <1>4 DEF Op

\* A statement that its user wanted keeps the rows asked for and agreed to, and
\* moves each row along its life cycle.
LEMMA TableStep ==
    ASSUME IInv, NEW u \in User, NEW c, c.op \in Op, c.peer \in User, Meant(u, c),
           row' = Apply(row, c.op, u, c.peer), UNCHANGED <<asked, agreed>>
    PROVE  /\ row' \in [Pair -> Status]
           /\ FriendsConsented'
           /\ \A p \in Pair : row'[p] # row[p] =>
                 <<row[p], row'[p]>> \in {<<"none", "pending">>, <<"pending", "accepted">>,
                                         <<"pending", "rejected">>, <<"accepted", "none">>}
<1>1. row \in [Pair -> Status] /\ FriendsConsented
  BY DEF IInv, FriendsTypeOK
<1>2. c.peer # u
  BY DEF Meant
<1>3. row' \in [Pair -> Status]
  BY Zenon, <1>1, <1>2, ApplyStep
<1>4. \A p \in Pair :
         \/ row'[p] = row[p]
         \/ c.op = "request" /\ p = <<u, c.peer>> /\ row[p] = "none" /\ row'[p] = "pending"
         \/ c.op = "accept" /\ p = <<c.peer, u>> /\ row[p] = "pending" /\ row'[p] = "accepted"
         \/ c.op = "reject" /\ p = <<c.peer, u>> /\ row[p] = "pending" /\ row'[p] = "rejected"
         \/ c.op = "remove" /\ row[p] = "accepted" /\ row'[p] = "none"
  BY <1>1, <1>2, ApplyStep
<1>5. FriendsConsented'
  <2>1. SUFFICES ASSUME NEW p \in Pair
                 PROVE  /\ row'[p] # "none" => p \in asked
                        /\ row'[p] = "accepted" => <<p[2], p[1]>> \in agreed
    BY Zenon DEF FriendsConsented
  <2>2. /\ row[p] # "none" => p \in asked
        /\ row[p] = "accepted" => <<p[2], p[1]>> \in agreed
    BY <1>1 DEF FriendsConsented
  <2>3. QED
    BY <1>4, <2>2 DEF Meant
<1>6. QED
  BY <1>3, <1>4, <1>5

\* What the two queries of a friend list return is real.
LEMMA QueriesReal ==
    ASSUME IInv, NEW u \in User
    PROVE  /\ \A v \in GetFriends(row, u) : FriendReal(u, v)
           /\ \A v \in GetPendingRequests(row, u) : RequestReal(u, v)
<1>1. ASSUME NEW v \in GetFriends(row, u) PROVE FriendReal(u, v)
  <2>1. v \in User /\ v # u /\ (row[<<u, v>>] = "accepted" \/ row[<<v, u>>] = "accepted")
    BY DEF GetFriends
  <2>2. <<u, v>> \in Pair /\ <<v, u>> \in Pair
    BY <2>1 DEF Pair
  <2>3. QED
    BY <2>1, <2>2 DEF IInv, FriendsConsented, FriendReal
<1>2. ASSUME NEW v \in GetPendingRequests(row, u) PROVE RequestReal(u, v)
  <2>1. v \in User /\ v # u /\ row[<<v, u>>] = "pending"
    BY DEF GetPendingRequests
  <2>2. <<v, u>> \in Pair
    BY <2>1 DEF Pair
  <2>3. QED
    BY Zenon, <2>1, <2>2 DEF IInv, FriendsConsented, RequestReal
<1>3. QED
  BY <1>1, <1>2

\* Only users are touched, and a list that is marked as not up to date is otherwise
\* the list it was.
LEMMA OutdateKeeps ==
    ASSUME IInv, NEW r, load' = Outdate(r), UNCHANGED <<asked, agreed>>
    PROVE  /\ Touched(r) \subseteq User
           /\ load' \in [User -> {Inactive} \cup Load]
           /\ LoadsReal'
<1>1. Touched(r) \subseteq User
  BY DEF Touched, Pair
<1>2. load \in [User -> {Inactive} \cup Load] /\ LoadsReal
  BY DEF IInv, Shape
<1>3. \A w \in User : load[w].at # "idle" => load[w] \in Load
  BY <1>2 DEF Inactive
<1>4. \A w \in User : load'[w] = load[w]
                       \/ (load[w] \in Load /\ load'[w] = [load[w] EXCEPT !.clean = "no"])
  BY <1>3 DEF Outdate
<1>5. ASSUME NEW w \in User
      PROVE  /\ load'[w] \in {Inactive} \cup Load
             /\ load'[w].at = load[w].at
             /\ load[w].at \in {"requests", "read"} => load'[w].friends = load[w].friends
             /\ load[w].at = "read" => load'[w].pending = load[w].pending
  <2>1. CASE load'[w] = load[w]
    BY <1>2, <2>1
  <2>2. CASE load[w] \in Load /\ load'[w] = [load[w] EXCEPT !.clean = "no"]
    BY <2>2 DEF Load, YesNo
  <2>3. QED
    BY <1>4, <2>1, <2>2
<1>6. load' \in [User -> {Inactive} \cup Load]
  BY Zenon, <1>5 DEF Outdate
<1>7. LoadsReal'
  BY <1>2, <1>5 DEF LoadsReal, FriendReal, RequestReal
<1>8. QED
  BY <1>1, <1>6, <1>7

-----------------------------------------------------------------------------
(* The invariant                                                           *)

\* What appending an item to a queue, and taking the first one off, leaves in it.
LEMMA QueueFacts ==
    ASSUME NEW S, NEW q \in Seq(S)
    PROVE  /\ \A x \in S : /\ Append(q, x) \in Seq(S)
                           /\ Len(Append(q, x)) = Len(q) + 1
                           /\ \A i \in 1..Len(q) : Append(q, x)[i] = q[i]
                           /\ Append(q, x)[Len(q) + 1] = x
           /\ q # <<>> => /\ Head(q) \in S
                          /\ Head(q) = q[1]
                          /\ 1 \in 1..Len(q)
                          /\ Tail(q) \in Seq(S)
                          /\ Len(Tail(q)) = Len(q) - 1
                          /\ \A i \in 1..Len(Tail(q)) : Tail(q)[i] = q[i + 1] /\ i + 1 \in 1..Len(q)
  OBVIOUS

\* The initial state: an empty table and empty pages.
LEMMA InitInv == FriendsInit => IInv
<1> SUFFICES ASSUME FriendsInit PROVE IInv
  OBVIOUS
<1>1. FriendsTypeOK
  BY FriendsAssumption DEF FriendsAssumption, FriendsInit, FriendsTypeOK, Status
<1>2. Shape
  <2>1. \A S : <<>> \in Seq(S)
    OBVIOUS
  <2>2. QED
    BY Zenon, <2>1 DEF FriendsInit, Shape
<1>3. CallsMeant /\ FramesMeant /\ InboxMeant /\ LoadsReal /\ PagesReal
  BY DEF FriendsInit, CallsMeant, FramesMeant, InboxMeant, LoadsReal, PagesReal, Inactive
<1>4. FriendsConsented
  BY DEF FriendsInit, FriendsConsented
<1>5. QED
  BY <1>1, <1>2, <1>3, <1>4 DEF IInv

\* A command that its user wanted joins the ones on their way.
LEMMA AppendMeant ==
    ASSUME IInv, NEW u \in User, NEW c \in Command0,
           frames' = [frames EXCEPT ![u] = Append(@, c)],
           asked \subseteq asked', agreed \subseteq agreed', c.peer # u,
           c.op = "request" => <<u, c.peer>> \in asked',
           c.op = "accept" => <<u, c.peer>> \in agreed'
    PROVE  frames' \in [User -> Seq(Command0)] /\ FramesMeant'
<1>1. frames \in [User -> Seq(Command0)]
  BY Zenon DEF IInv, Shape
<1>2. ASSUME NEW w \in User, NEW i \in 1..Len(frames'[w])
      PROVE  /\ frames'[w][i].peer # w
             /\ frames'[w][i].op = "request" => <<w, frames'[w][i].peer>> \in asked'
             /\ frames'[w][i].op = "accept" => <<w, frames'[w][i].peer>> \in agreed'
  <2>1. CASE w # u \/ i \in 1..Len(frames[u])
    <3>1. i \in 1..Len(frames[w]) /\ frames'[w][i] = frames[w][i]
      <4>1. CASE w # u
        BY Zenon, <1>1, <1>2, <4>1
      <4>2. CASE w = u
        <5>1. frames[u] \in Seq(Command0) /\ frames'[u] = Append(frames[u], c)
          BY Zenon, <1>1
        <5>2. i \in 1..Len(frames[u])
          BY Zenon, <2>1, <4>2
        <5>3. Append(frames[u], c)[i] = frames[u][i]
          BY <5>1, <5>2, QueueFacts
        <5>4. QED
          BY Zenon, <4>2, <5>1, <5>2, <5>3
      <4>3. QED
        BY Zenon, <4>1, <4>2
    <3>2. Meant(w, frames[w][i])
      BY <3>1 DEF IInv, FramesMeant
    <3>3. QED
      BY Zenon, <3>1, <3>2 DEF Meant
  <2>2. CASE w = u /\ i \notin 1..Len(frames[u])
    <3>1. frames'[w][i] = c
      BY <1>1, <1>2, <2>2, QueueFacts
    <3>2. QED
      BY <2>2, <3>1
  <2>3. QED
    BY Zenon, <2>1, <2>2
<1>3. FramesMeant'
  BY <1>2 DEF FramesMeant, Meant
<1>4. QED
  BY <1>1, <1>3

\* Starting an operation, over HTTP or as a command.
LEMMA StartInv ==
    ASSUME IInv, NEW u \in User, NEW v \in User \ {u}, NEW op \in Op,
           Click(u, op, v) \/ SendCommand(u, op, v)
    PROVE  IInv'
<1>1. /\ asked' = IF op = "request" THEN asked \cup {<<u, v>>} ELSE asked
      /\ agreed' = IF op = "accept" THEN agreed \cup {<<u, v>>} ELSE agreed
      /\ clicks < MaxClicks /\ clicks' = clicks + 1
      /\ UNCHANGED <<row, page, friends, pending, load, inbox, loads, doubt>>
  BY DEF Click, SendCommand
<1>2. asked \subseteq asked' /\ agreed \subseteq agreed'
  BY <1>1
<1>3. <<u, v>> \in Pair
  BY DEF Pair
<1>4. FriendsTypeOK'
  BY <1>1, <1>3, FriendsAssumption DEF FriendsAssumption, IInv, FriendsTypeOK
<1>5. InboxMeant' /\ LoadsReal' /\ PagesReal'
  BY Zenon, <1>1, <1>2 DEF IInv, InboxMeant, LoadsReal, PagesReal, FriendReal, RequestReal
<1>6. FriendsConsented'
  BY Zenon, <1>1, <1>2 DEF IInv, FriendsConsented
<1>7. CASE Click(u, op, v)
  <2>1. /\ call' = [call EXCEPT ![u] = [at |-> "sent", op |-> op, peer |-> v]]
        /\ UNCHANGED frames
    BY Zenon, <1>7 DEF Click
  <2>2. Shape'
    BY Zenon, <1>1, <2>1 DEF IInv, Shape, Call
  <2>3. CallsMeant'
    BY Zenon, <1>1, <1>2, <2>1 DEF IInv, Shape, CallsMeant, Meant
  <2>4. FramesMeant'
    BY Zenon, <1>2, <2>1 DEF IInv, FramesMeant, Meant
  <2>5. QED
    BY Zenon, <1>4, <1>5, <1>6, <2>2, <2>3, <2>4 DEF IInv
<1>8. CASE SendCommand(u, op, v)
  <2>1. /\ frames' = [frames EXCEPT ![u] = Append(@, [op |-> op, peer |-> v])]
        /\ UNCHANGED call
    BY <1>8 DEF SendCommand
  <2>2. frames' \in [User -> Seq(Command0)] /\ FramesMeant'
    <3>1. DEFINE c == [op |-> op, peer |-> v]
    <3>2. c \in Command0 /\ c.op = op /\ c.peer = v
      BY DEF Command0
    <3>3. /\ op = "request" => <<u, v>> \in asked'
          /\ op = "accept" => <<u, v>> \in agreed'
      BY <1>1
    <3>4. frames' = [frames EXCEPT ![u] = Append(@, c)]
      BY <2>1
    <3> HIDE DEF c
    <3>5. QED
      BY Zenon, <1>2, <3>2, <3>3, <3>4, AppendMeant
  <2>3. Shape'
    BY Zenon, <1>1, <2>1, <2>2 DEF IInv, Shape
  <2>4. CallsMeant'
    BY Zenon, <1>2, <2>1 DEF IInv, CallsMeant, Meant
  <2>5. QED
    BY Zenon, <1>4, <1>5, <1>6, <2>2, <2>3, <2>4 DEF IInv
<1>9. QED
  BY Zenon, <1>7, <1>8

\* The HTTP handler of u's call.
LEMMA ServeInv ==
    ASSUME IInv, NEW u \in User, Serve(u)
    PROVE  IInv'
<1>1. call[u] \in Call /\ Meant(u, call[u])
  BY DEF Serve, IInv, Shape, CallsMeant, Inactive
<1>2. row' = Apply(row, call[u].op, u, call[u].peer)
  BY DEF Serve
<1>3. UNCHANGED <<page, friends, pending, frames, inbox, clicks, loads, asked, agreed>>
  BY Zenon DEF Serve
<1>4. row' \in [Pair -> Status] /\ FriendsConsented'
  BY Zenon, <1>1, <1>2, <1>3, TableStep DEF Call
<1>5. /\ Touched(row') \subseteq User
      /\ load' \in [User -> {Inactive} \cup Load]
      /\ LoadsReal'
  <2>1. load' = Outdate(row')
    BY DEF Serve
  <2>2. QED
    BY <1>3, <2>1, OutdateKeeps
<1>6. FriendsTypeOK'
  <2>1. doubt' \subseteq User
    BY <1>5 DEF Serve, IInv, FriendsTypeOK
  <2>2. QED
    BY <1>3, <1>4, <2>1 DEF IInv, FriendsTypeOK
<1>7. PICK x \in {"failed", "ok"} : call' = [call EXCEPT ![u].at = x]
  BY Zenon DEF Serve
<1>8. Shape'
  <2>1. call' \in [User -> {Inactive} \cup Call]
    BY Zenon, <1>1, <1>7 DEF IInv, Shape, Call
  <2>2. QED
    BY <1>3, <1>5, <2>1 DEF IInv, Shape
<1>9. CallsMeant'
  <2>1. SUFFICES ASSUME NEW w \in User, call'[w] # Inactive
                 PROVE  /\ call'[w].peer # w
                        /\ call'[w].op = "request" => <<w, call'[w].peer>> \in asked
                        /\ call'[w].op = "accept" => <<w, call'[w].peer>> \in agreed
    BY <1>3 DEF CallsMeant, Meant
  <2>2. CASE w = u
    BY <1>1, <1>7, <2>2 DEF IInv, Shape, Call, Meant
  <2>3. CASE w # u
    BY <1>7, <2>1, <2>3 DEF IInv, Shape, CallsMeant, Meant
  <2>4. QED
    BY Zenon, <2>2, <2>3
<1>10. FramesMeant' /\ InboxMeant' /\ PagesReal'
  BY Zenon, <1>3 DEF IInv, FramesMeant, Meant, InboxMeant, PagesReal, FriendReal, RequestReal
<1>11. QED
  BY <1>4, <1>5, <1>6, <1>8, <1>9, <1>10 DEF IInv

\* A lost HTTP request or answer changes neither table nor page.
LEMMA LoseCallInv ==
    ASSUME IInv, NEW u \in User, LoseCall(u)
    PROVE  IInv'
<1>1. call[u] \in Call
  BY DEF LoseCall, IInv, Shape, Inactive
<1>2. /\ call' = [call EXCEPT ![u].at = "failed"]
      /\ UNCHANGED <<row, page, friends, pending, load, frames, inbox, clicks, loads,
                     asked, agreed>>
      /\ doubt' \subseteq doubt \cup {u}
  BY DEF LoseCall
<1>3. FriendsTypeOK'
  BY <1>2 DEF IInv, FriendsTypeOK
<1>4. Shape'
  BY Zenon, <1>1, <1>2 DEF IInv, Shape, Call
<1>5. CallsMeant'
  <2>1. SUFFICES ASSUME NEW w \in User, call'[w] # Inactive
                 PROVE  /\ call'[w].peer # w
                        /\ call'[w].op = "request" => <<w, call'[w].peer>> \in asked
                        /\ call'[w].op = "accept" => <<w, call'[w].peer>> \in agreed
    BY <1>2 DEF CallsMeant, Meant
  <2>2. call[w] # Inactive /\ call'[w].peer = call[w].peer /\ call'[w].op = call[w].op
    BY <1>1, <1>2, <2>1 DEF IInv, Shape, Call, Inactive
  <2>3. QED
    BY <2>2 DEF IInv, CallsMeant, Meant
<1>6. FramesMeant' /\ InboxMeant' /\ LoadsReal' /\ PagesReal'
  BY <1>2 DEF IInv, FramesMeant, Meant, InboxMeant, LoadsReal, PagesReal, FriendReal, RequestReal
<1>7. FriendsConsented'
  BY Zenon, <1>2 DEF IInv, FriendsConsented
<1>8. QED
  BY <1>3, <1>4, <1>5, <1>6, <1>7 DEF IInv

\* The page of u goes on after its call.
LEMMA AnsweredInv ==
    ASSUME IInv, NEW u \in User, Answered(u)
    PROVE  IInv'
<1>1. call[u] \in Call /\ Meant(u, call[u])
  BY DEF Answered, IInv, Shape, CallsMeant, Inactive
<1>2. /\ call' = [call EXCEPT ![u] = Inactive]
      /\ UNCHANGED <<row, page, load, inbox, clicks, loads, asked, agreed, doubt>>
  BY DEF Answered
<1>3. PICK f \in SUBSET User, p \in SUBSET User :
         /\ friends' = [friends EXCEPT ![u] = f]
         /\ pending' = [pending EXCEPT ![u] = p]
         /\ p \subseteq pending[u]
         /\ \A v \in f : v \in friends[u] \/ (v = call[u].peer /\ call[u].op = "accept")
  <2>0. /\ friends \in [User -> SUBSET User] /\ pending \in [User -> SUBSET User]
        /\ call[u].peer \in User
    BY <1>1 DEF IInv, FriendsTypeOK, Call
  <2>1. CASE UNCHANGED <<friends, pending>>
    <3>1. /\ friends' = [friends EXCEPT ![u] = friends[u]]
          /\ pending' = [pending EXCEPT ![u] = pending[u]]
      BY <2>0, <2>1
    <3>2. QED
      BY Zenon, <2>0, <3>1
  <2>2. CASE /\ friends' = [friends EXCEPT ![u] = CASE call[u].op = "accept" -> @ \cup {call[u].peer}
                                                   [] call[u].op = "remove" -> @ \ {call[u].peer}
                                                   [] OTHER -> @]
             /\ pending' = [pending EXCEPT ![u] =
                   IF call[u].op \in {"accept", "reject"} THEN @ \ {call[u].peer} ELSE @]
    <3>1. DEFINE f0 == CASE call[u].op = "accept" -> friends[u] \cup {call[u].peer}
                         [] call[u].op = "remove" -> friends[u] \ {call[u].peer}
                         [] OTHER -> friends[u]
    <3>2. DEFINE p0 == IF call[u].op \in {"accept", "reject"} THEN pending[u] \ {call[u].peer}
                       ELSE pending[u]
    <3>3. friends' = [friends EXCEPT ![u] = f0] /\ pending' = [pending EXCEPT ![u] = p0]
      BY Zenon, <2>0, <2>2
    <3>4. p0 \subseteq pending[u] /\ p0 \in SUBSET User
      BY <2>0
    <3>5. f0 \in SUBSET User /\ \A v \in f0 : v \in friends[u] \/ (v = call[u].peer /\ call[u].op = "accept")
      BY <2>0
    <3> HIDE DEF f0, p0
    <3>6. QED
      BY Zenon, <3>3, <3>4, <3>5
  <2>3. QED
    BY Zenon, <2>1, <2>2 DEF Answered
<1>4. PagesReal'
  <2>1. \A v \in f : FriendReal(u, v)
    BY Zenon, <1>1, <1>3 DEF IInv, PagesReal, FriendReal, Meant
  <2>2. \A v \in p : RequestReal(u, v)
    BY Zenon, <1>3 DEF IInv, PagesReal
  <2>3. \A w \in User : /\ \A v \in friends'[w] : FriendReal(w, v)
                        /\ \A v \in pending'[w] : RequestReal(w, v)
    BY Zenon, <1>3, <2>1, <2>2 DEF IInv, FriendsTypeOK, PagesReal
  <2>4. QED
    BY Zenon, <1>2, <2>3 DEF PagesReal, FriendReal, RequestReal
<1>5. FriendsTypeOK'
  <2>1. friends' \in [User -> SUBSET User] /\ pending' \in [User -> SUBSET User]
    BY Zenon, <1>3 DEF IInv, FriendsTypeOK
  <2>2. \A w \in User : w \notin friends'[w] \cup pending'[w]
    BY Zenon, <1>4 DEF PagesReal, FriendReal, RequestReal
  <2>3. QED
    BY Zenon, <1>2, <2>1, <2>2 DEF IInv, FriendsTypeOK
<1>6. frames' \in [User -> Seq(Command0)] /\ FramesMeant'
  <2>1. CASE UNCHANGED frames
    BY <1>2, <2>1 DEF IInv, Shape, FramesMeant, Meant
  <2>2. CASE frames' = [frames EXCEPT ![u] = Append(@, Command(call[u]))]
    <3>1. /\ Command(call[u]) \in Command0
          /\ Command(call[u]).op = call[u].op /\ Command(call[u]).peer = call[u].peer
      BY Zenon, <1>1 DEF Command, Command0, Call
    <3>2. QED
      BY Zenon, <1>1, <1>2, <2>2, <3>1, AppendMeant DEF Meant
  <2>3. QED
    BY Zenon, <2>1, <2>2 DEF Answered
<1>7. Shape'
  BY Zenon, <1>2, <1>6 DEF IInv, Shape
<1>8. CallsMeant'
  BY <1>2 DEF IInv, Shape, CallsMeant, Meant
<1>9. InboxMeant' /\ LoadsReal'
  BY Zenon, <1>2 DEF IInv, InboxMeant, LoadsReal, FriendReal, RequestReal
<1>10. FriendsConsented'
  BY Zenon, <1>2 DEF IInv, FriendsConsented
<1>11. QED
  BY <1>4, <1>5, <1>6, <1>7, <1>8, <1>9, <1>10 DEF IInv

\* What a list under way carries.
LEMMA LoadFields ==
    ASSUME NEW l \in {Inactive} \cup Load
    PROVE  /\ Inactive.at = "idle"
           /\ l.at \in {"friends", "requests", "read"} => l.clean \in YesNo
           /\ l.at \in {"requests", "read"} => l.friends \in SUBSET User
           /\ l.at = "read" => l.pending \in SUBSET User
<1>1. Inactive.at = "idle"
  BY DEF Inactive
<1>2. CASE l = Inactive
  BY Zenon, <1>1, <1>2
<1>3. CASE l \in [at : {"friends"}, clean : YesNo]
  <2>1. l.at = "friends" /\ l.clean \in YesNo
    BY Zenon, <1>3
  <2>2. QED
    BY Zenon, <1>1, <2>1
<1>4. CASE l \in [at : {"requests"}, clean : YesNo, friends : SUBSET User]
  <2>1. l.at = "requests" /\ l.clean \in YesNo /\ l.friends \in SUBSET User
    BY Zenon, <1>4
  <2>2. QED
    BY Zenon, <1>1, <2>1
<1>5. CASE l \in [at : {"read"}, clean : YesNo, friends : SUBSET User, pending : SUBSET User]
  <2>1. l.clean \in YesNo /\ l.friends \in SUBSET User /\ l.pending \in SUBSET User
    BY Zenon, <1>5
  <2>2. QED
    BY Zenon, <1>1, <2>1
<1>6. QED
  BY Zenon, <1>2, <1>3, <1>4, <1>5 DEF Load

\* Asking for a friend list, its two queries, and its arrival.
LEMMA ListInv ==
    ASSUME IInv, NEW u \in User,
           LoadList(u) \/ ReadFriends(u) \/ ReadRequests(u) \/ ListArrives(u)
    PROVE  IInv'
<1>1. /\ load \in [User -> {Inactive} \cup Load]
      /\ UNCHANGED <<row, page, call, frames, inbox, clicks, asked, agreed>>
  BY Zenon DEF IInv, Shape, LoadList, ReadFriends, ReadRequests, ListArrives
<1>2. PICK l \in {Inactive} \cup Load :
         /\ load' = [load EXCEPT ![u] = l]
         /\ l.at \in {"requests", "read"} => \A v \in l.friends : FriendReal(u, v)
         /\ l.at = "read" => \A v \in l.pending : RequestReal(u, v)
  <2>1. CASE LoadList(u)
    <3>1. PICK y \in YesNo : load' = [load EXCEPT ![u] = [at |-> "friends", clean |-> y]]
      BY Zenon, <2>1 DEF LoadList, YesNo
    <3> DEFINE l0 == [at |-> "friends", clean |-> y]
    <3>2. /\ l0 \in {Inactive} \cup Load
          /\ l0.at \in {"requests", "read"} => \A v \in l0.friends : FriendReal(u, v)
          /\ l0.at = "read" => \A v \in l0.pending : RequestReal(u, v)
      BY DEF Load
    <3>3. load' = [load EXCEPT ![u] = l0]
      BY <3>1
    <3> HIDE DEF l0
    <3>4. QED
      BY Zenon, <3>2, <3>3
  <2>2. CASE ReadFriends(u)
    <3>1. load[u].clean \in YesNo
      BY Zenon, <1>1, <2>2, LoadFields DEF ReadFriends
    <3>2. GetFriends(row, u) \in SUBSET User
      BY DEF GetFriends
    <3> DEFINE l0 == [at |-> "requests", clean |-> load[u].clean, friends |-> GetFriends(row, u)]
    <3>3. /\ l0 \in {Inactive} \cup Load
          /\ l0.at \in {"requests", "read"} => \A v \in l0.friends : FriendReal(u, v)
          /\ l0.at = "read" => \A v \in l0.pending : RequestReal(u, v)
      BY Zenon, <3>1, <3>2, QueriesReal DEF Load
    <3>4. load' = [load EXCEPT ![u] = l0]
      BY <2>2 DEF ReadFriends
    <3> HIDE DEF l0
    <3>5. QED
      BY Zenon, <3>3, <3>4
  <2>3. CASE ReadRequests(u)
    <3>1. load[u].clean \in YesNo /\ load[u].friends \in SUBSET User
      BY Zenon, <1>1, <2>3, LoadFields DEF ReadRequests
    <3>2. GetPendingRequests(row, u) \in SUBSET User
      BY Zenon DEF GetPendingRequests
    <3>3. \A v \in load[u].friends : FriendReal(u, v)
      BY <2>3 DEF ReadRequests, IInv, LoadsReal
    <3> DEFINE l0 == [at |-> "read", clean |-> load[u].clean, friends |-> load[u].friends,
                      pending |-> GetPendingRequests(row, u)]
    <3>4. /\ l0 \in {Inactive} \cup Load
          /\ l0.at \in {"requests", "read"} => \A v \in l0.friends : FriendReal(u, v)
          /\ l0.at = "read" => \A v \in l0.pending : RequestReal(u, v)
      BY Zenon, <3>1, <3>2, <3>3, QueriesReal DEF Load
    <3>5. load' = [load EXCEPT ![u] = l0]
      BY <2>3 DEF ReadRequests
    <3> HIDE DEF l0
    <3>6. QED
      BY Zenon, <3>4, <3>5
  <2>4. CASE ListArrives(u)
    <3>1. Inactive.at = "idle" /\ load' = [load EXCEPT ![u] = Inactive]
      BY Zenon, <2>4 DEF ListArrives, Inactive
    <3>2. QED
      BY Zenon, <3>1
  <2>5. QED
    BY Zenon, <2>1, <2>2, <2>3, <2>4
<1>3. LoadsReal'
  <2>1. \A w \in User :
           /\ load'[w].at \in {"requests", "read"} => \A v \in load'[w].friends : FriendReal(w, v)
           /\ load'[w].at = "read" => \A v \in load'[w].pending : RequestReal(w, v)
    BY Zenon, <1>1, <1>2 DEF IInv, LoadsReal
  <2>2. QED
    BY Zenon, <1>1, <2>1 DEF LoadsReal, FriendReal, RequestReal
<1>4. PagesReal' /\ friends' \in [User -> SUBSET User] /\ pending' \in [User -> SUBSET User]
  <2>1. CASE UNCHANGED <<friends, pending>>
    BY <1>1, <2>1 DEF IInv, FriendsTypeOK, PagesReal, FriendReal, RequestReal
  <2>2. CASE /\ load[u].at = "read"
             /\ friends' = [friends EXCEPT ![u] = load[u].friends]
             /\ pending' = [pending EXCEPT ![u] = load[u].pending]
    <3>1. load[u].friends \in SUBSET User /\ load[u].pending \in SUBSET User
      BY Zenon, <1>1, <2>2, LoadFields
    <3>2. /\ \A v \in load[u].friends : FriendReal(u, v)
          /\ \A v \in load[u].pending : RequestReal(u, v)
      BY Zenon, <2>2 DEF IInv, LoadsReal
    <3>3. \A w \in User : /\ \A v \in friends'[w] : FriendReal(w, v)
                          /\ \A v \in pending'[w] : RequestReal(w, v)
      BY Zenon, <2>2, <3>1, <3>2 DEF IInv, FriendsTypeOK, PagesReal
    <3>4. QED
      BY Zenon, <1>1, <2>2, <3>1, <3>3 DEF IInv, FriendsTypeOK, PagesReal, FriendReal, RequestReal
  <2>3. QED
    BY Zenon, <2>1, <2>2 DEF LoadList, ReadFriends, ReadRequests, ListArrives
<1>5. FriendsTypeOK'
  <2>1. \A w \in User : w \notin friends'[w] \cup pending'[w]
    BY Zenon, <1>4 DEF PagesReal, FriendReal, RequestReal
  <2>2. loads' \in 0..MaxLoads
    <3>1. loads \in 0..MaxLoads /\ (loads' = loads \/ (loads < MaxLoads /\ loads' = loads + 1))
      BY Zenon DEF IInv, FriendsTypeOK, LoadList, ReadFriends, ReadRequests, ListArrives
    <3>2. MaxLoads \in Nat
      BY Zenon, FriendsAssumption DEF FriendsAssumption
    <3>3. QED
      BY <3>1, <3>2
  <2>3. doubt' \subseteq User
    <3>1. doubt \subseteq User /\ doubt' \in {doubt, doubt \ {u}, doubt \cup {u}}
      BY Zenon DEF IInv, FriendsTypeOK, LoadList, ReadFriends, ReadRequests, ListArrives
    <3>2. QED
      BY <3>1
  <2>4. QED
    BY <1>1, <1>4, <2>1, <2>2, <2>3 DEF IInv, FriendsTypeOK
<1>6. Shape'
  BY Zenon, <1>1, <1>2 DEF IInv, Shape
<1>7. CallsMeant' /\ FramesMeant' /\ InboxMeant'
  BY Zenon, <1>1 DEF IInv, CallsMeant, FramesMeant, Meant, InboxMeant, FriendReal, RequestReal
<1>8. FriendsConsented'
  BY Zenon, <1>1 DEF IInv, FriendsConsented
<1>9. QED
  BY <1>3, <1>4, <1>5, <1>6, <1>7, <1>8 DEF IInv

\* The gateway handles a command of u, and notifies the other user if it changed a row.
LEMMA HandleCommandInv ==
    ASSUME IInv, NEW u \in User, HandleCommand(u)
    PROVE  IInv'
<1> DEFINE f == Head(frames[u])
           n == [op |-> f.op, from |-> u]
<1>1. /\ frames \in [User -> Seq(Command0)] /\ inbox \in [User -> Seq(Note)]
      /\ frames[u] # <<>>
  BY Zenon DEF IInv, Shape, HandleCommand
<1>2. f \in Command0 /\ f = frames[u][1] /\ 1 \in 1..Len(frames[u])
  BY <1>1, QueueFacts
<1>3. Meant(u, f) /\ f.op \in Op /\ f.peer \in User
  BY <1>2 DEF IInv, FramesMeant, Command0
<1>4. /\ row' = Apply(row, f.op, u, f.peer)
      /\ frames' = [frames EXCEPT ![u] = Tail(@)]
      /\ inbox' = inbox \/ inbox' = [inbox EXCEPT ![f.peer] = Append(@, n)]
      /\ load' = Outdate(row')
      /\ doubt' = doubt \cup Touched(row')
      /\ UNCHANGED <<page, friends, pending, call, clicks, loads, asked, agreed>>
  BY Zenon DEF HandleCommand
<1>5. n \in Note /\ n.op = f.op /\ n.from = u
  BY Zenon, <1>3 DEF Note
<1> HIDE DEF f, n
<1>6. row' \in [Pair -> Status] /\ FriendsConsented'
  BY Zenon, <1>3, <1>4, TableStep
<1>7. Touched(row') \subseteq User /\ load' \in [User -> {Inactive} \cup Load] /\ LoadsReal'
  BY Zenon, <1>4, OutdateKeeps
<1>8. FriendsTypeOK'
  BY <1>4, <1>6, <1>7 DEF IInv, FriendsTypeOK
<1>9. frames' \in [User -> Seq(Command0)] /\ FramesMeant'
  <2>1. frames' \in [User -> Seq(Command0)]
    BY Zenon, <1>1, <1>4, QueueFacts
  <2>2. ASSUME NEW w \in User, NEW i \in 1..Len(frames'[w])
        PROVE  /\ frames'[w][i].peer # w
               /\ frames'[w][i].op = "request" => <<w, frames'[w][i].peer>> \in asked'
               /\ frames'[w][i].op = "accept" => <<w, frames'[w][i].peer>> \in agreed'
    <3>1. CASE w = u
      <4>1. i + 1 \in 1..Len(frames[u]) /\ frames'[u][i] = frames[u][i + 1]
        BY <1>1, <1>4, <2>2, <3>1, QueueFacts
      <4>2. PICK x : x = frames[u][i + 1] /\ x = frames'[w][i]
        BY Zenon, <3>1, <4>1
      <4>3. Meant(u, x)
        BY Zenon, <4>1, <4>2 DEF IInv, FramesMeant
      <4>4. asked' = asked /\ agreed' = agreed
        BY Zenon, <1>4
      <4>5. /\ x.peer # w /\ (x.op = "request" => <<w, x.peer>> \in asked)
            /\ (x.op = "accept" => <<w, x.peer>> \in agreed)
        BY Zenon, <3>1, <4>3 DEF Meant
      <4>6. QED
        BY Zenon, <4>2, <4>4, <4>5
    <3>2. CASE w # u
      BY <1>1, <1>4, <2>2, <3>2 DEF IInv, FramesMeant, Meant
    <3>3. QED
      BY Zenon, <3>1, <3>2
  <2>3. FramesMeant'
    BY Zenon, <2>2 DEF FramesMeant, Meant
  <2>4. QED
    BY Zenon, <2>1, <2>3
<1>10. inbox' \in [User -> Seq(Note)] /\ InboxMeant'
  <2>1. CASE inbox' = inbox
    BY Zenon, <1>1, <1>4, <2>1 DEF IInv, InboxMeant, FriendReal, RequestReal
  <2>2. CASE inbox' = [inbox EXCEPT ![f.peer] = Append(@, n)]
    <3>1. inbox' \in [User -> Seq(Note)]
      BY <1>1, <1>3, <1>5, <2>2, QueueFacts
    <3>5. /\ \A w \in User \ {f.peer} : inbox'[w] = inbox[w]
          /\ inbox'[f.peer] = Append(inbox[f.peer], n) /\ inbox[f.peer] \in Seq(Note)
      BY Zenon, <1>1, <1>3, <2>2
    <3>6. PICK a, b : a = inbox[f.peer] /\ b = inbox'[f.peer]
      BY Zenon
    <3>7. /\ \A i \in 1..Len(a) : b[i] = a[i]
          /\ \A i \in 1..Len(b) : i \in 1..Len(a) \/ b[i] = n
      <4>1. a \in Seq(Note) /\ b = Append(a, n)
        BY Zenon, <3>5, <3>6
      <4>2. QED
        BY <1>5, <4>1
    <3>2. ASSUME NEW w \in User, NEW i \in 1..Len(inbox'[w])
          PROVE  /\ inbox'[w][i].op = "accept" => FriendReal(w, inbox'[w][i].from)
                 /\ inbox'[w][i].op = "request" => RequestReal(w, inbox'[w][i].from)
      <4>1. CASE w # f.peer \/ i \in 1..Len(inbox[w])
        <5>1. i \in 1..Len(inbox[w]) /\ inbox'[w][i] = inbox[w][i]
          BY Zenon, <3>2, <3>5, <3>6, <3>7, <4>1
        <5>2. QED
          BY Zenon, <5>1 DEF IInv, InboxMeant
      <4>2. CASE w = f.peer /\ i \notin 1..Len(inbox[w])
        <5>1. inbox'[w][i] = n
          BY Zenon, <3>2, <3>6, <3>7, <4>2
        <5>2. QED
          BY <1>3, <1>5, <4>2, <5>1 DEF Meant, FriendReal, RequestReal
      <4>3. QED
        BY Zenon, <4>1, <4>2
    <3>3. InboxMeant'
      BY Zenon, <1>4, <3>2 DEF InboxMeant, FriendReal, RequestReal
    <3>4. QED
      BY <3>1, <3>3
  <2>3. QED
    BY <1>4, <2>1, <2>2
<1>11. Shape'
  BY <1>4, <1>7, <1>9, <1>10 DEF IInv, Shape
<1>12. CallsMeant' /\ PagesReal'
  BY Zenon, <1>4 DEF IInv, CallsMeant, Meant, PagesReal, FriendReal, RequestReal
<1>13. QED
  BY <1>6, <1>7, <1>8, <1>9, <1>10, <1>11, <1>12 DEF IInv

\* A notice reaches u.
LEMMA NoticeInv ==
    ASSUME IInv, NEW u \in User, Notice(u)
    PROVE  IInv'
<1> DEFINE n == Head(inbox[u])
<1>1. inbox \in [User -> Seq(Note)] /\ inbox[u] # <<>>
  BY DEF IInv, Shape, Notice
<1>2. n \in Note /\ n = inbox[u][1] /\ 1 \in 1..Len(inbox[u])
  BY Zenon, <1>1, QueueFacts
<1>3. /\ n.from \in User
      /\ n.op = "accept" => FriendReal(u, n.from)
      /\ n.op = "request" => RequestReal(u, n.from)
  BY Zenon, <1>2 DEF IInv, InboxMeant, Note
<1>4. /\ inbox' = [inbox EXCEPT ![u] = Tail(@)]
      /\ UNCHANGED <<row, page, call, load, frames, clicks, loads, asked, agreed>>
      /\ doubt' \subseteq doubt \cup {u}
      /\ \/ UNCHANGED <<friends, pending>>
         \/ /\ friends' = [friends EXCEPT ![u] = @ \cup NewFriends(n)]
            /\ pending' = [pending EXCEPT ![u] = @ \cup NewRequests(n)]
  BY Zenon DEF Notice
<1> HIDE DEF n
<1>5. PagesReal' /\ friends' \in [User -> SUBSET User] /\ pending' \in [User -> SUBSET User]
  <2>1. CASE UNCHANGED <<friends, pending>>
    BY Zenon, <1>4, <2>1 DEF IInv, FriendsTypeOK, PagesReal, FriendReal, RequestReal
  <2>2. CASE /\ friends' = [friends EXCEPT ![u] = @ \cup NewFriends(n)]
             /\ pending' = [pending EXCEPT ![u] = @ \cup NewRequests(n)]
    <3>1. /\ NewFriends(n) \subseteq User /\ NewRequests(n) \subseteq User
          /\ \A v \in NewFriends(n) : FriendReal(u, v)
          /\ \A v \in NewRequests(n) : RequestReal(u, v)
      BY Zenon, <1>3 DEF NewFriends, NewRequests
    <3>2. \A w \in User : /\ \A v \in friends'[w] : FriendReal(w, v)
                          /\ \A v \in pending'[w] : RequestReal(w, v)
      BY Zenon, <2>2, <3>1 DEF IInv, FriendsTypeOK, PagesReal
    <3>3. QED
      BY <1>4, <2>2, <3>1, <3>2 DEF IInv, FriendsTypeOK, PagesReal, FriendReal, RequestReal
  <2>3. QED
    BY Zenon, <1>4, <2>1, <2>2
<1>6. FriendsTypeOK'
  <2>1. \A w \in User : w \notin friends'[w] \cup pending'[w]
    BY Zenon, <1>5 DEF PagesReal, FriendReal, RequestReal
  <2>2. QED
    BY <1>4, <1>5, <2>1 DEF IInv, FriendsTypeOK
<1>7. inbox' \in [User -> Seq(Note)] /\ InboxMeant'
  <2>1. inbox' \in [User -> Seq(Note)]
    BY <1>1, <1>4, QueueFacts
  <2>2. ASSUME NEW w \in User, NEW i \in 1..Len(inbox'[w])
        PROVE  /\ inbox'[w][i].op = "accept" =>
                    /\ inbox'[w][i].from # w
                    /\ \/ <<w, inbox'[w][i].from>> \in agreed'
                       \/ <<inbox'[w][i].from, w>> \in agreed'
               /\ inbox'[w][i].op = "request" =>
                    /\ inbox'[w][i].from # w
                    /\ <<inbox'[w][i].from, w>> \in asked'
    <3>1. CASE w = u
      <4>1. i + 1 \in 1..Len(inbox[u]) /\ inbox'[u][i] = inbox[u][i + 1]
        BY <1>1, <1>4, <2>2, <3>1, QueueFacts
      <4>2. PICK x : x = inbox[u][i + 1] /\ x = inbox'[w][i]
        BY Zenon, <3>1, <4>1
      <4>3. (x.op = "accept" => FriendReal(u, x.from)) /\ (x.op = "request" => RequestReal(u, x.from))
        BY Zenon, <4>1, <4>2 DEF IInv, InboxMeant
      <4>4. asked' = asked /\ agreed' = agreed
        BY Zenon, <1>4
      <4>5. /\ x.op = "accept" => x.from # w /\ (<<w, x.from>> \in agreed \/ <<x.from, w>> \in agreed)
            /\ x.op = "request" => x.from # w /\ <<x.from, w>> \in asked
        BY Zenon, <3>1, <4>3 DEF FriendReal, RequestReal
      <4>6. QED
        BY Zenon, <4>2, <4>4, <4>5
    <3>2. CASE w # u
      BY Zenon, <1>1, <1>4, <2>2, <3>2 DEF IInv, InboxMeant, FriendReal, RequestReal
    <3>3. QED
      BY Zenon, <3>1, <3>2
  <2>3. InboxMeant'
    BY Zenon, <2>2 DEF InboxMeant, FriendReal, RequestReal
  <2>4. QED
    BY <2>1, <2>3
<1>8. Shape'
  BY <1>4, <1>7 DEF IInv, Shape
<1>9. CallsMeant' /\ FramesMeant' /\ LoadsReal'
  BY Zenon, <1>4 DEF IInv, CallsMeant, FramesMeant, Meant, LoadsReal, FriendReal, RequestReal
<1>10. FriendsConsented'
  BY Zenon, <1>4 DEF IInv, FriendsConsented
<1>11. QED
  BY Zenon, <1>5, <1>6, <1>7, <1>8, <1>9, <1>10 DEF IInv

\* Every step preserves the invariant: one lemma above for each action.
LEMMA NextInv == IInv /\ [FriendsNext]_friendsVars => IInv'
<1> SUFFICES ASSUME IInv, [FriendsNext]_friendsVars PROVE IInv'
  BY Zenon
<1>1. CASE FriendsNext
  <2>1. PICK u \in User :
           \/ \E v \in User \ {u}, op \in Op : Click(u, op, v) \/ SendCommand(u, op, v)
           \/ Serve(u) \/ LoseCall(u) \/ Answered(u)
           \/ LoadList(u) \/ ReadFriends(u) \/ ReadRequests(u) \/ ListArrives(u)
           \/ HandleCommand(u) \/ Notice(u)
    BY <1>1 DEF FriendsNext
  <2>2. QED
    BY Zenon, <2>1, StartInv, ServeInv, LoseCallInv, AnsweredInv, ListInv, HandleCommandInv, NoticeInv
<1>2. CASE UNCHANGED friendsVars
  BY Zenon, <1>2 DEF friendsVars, IInv, FriendsTypeOK, Shape, CallsMeant, FramesMeant, Meant, InboxMeant, LoadsReal,
             PagesReal, FriendReal, RequestReal, FriendsConsented
<1>3. QED
  BY <1>1, <1>2

\* The inductive invariant holds throughout.
LEMMA Invariant == FriendsSpec => []IInv
<1>1. QED
  BY InitInv, NextInv, PTL DEF FriendsSpec

-----------------------------------------------------------------------------
(* The theorems                                                            *)

\* The table, the pages and the bounds keep their types, and no page lists its own
\* user.
THEOREM FriendsTypeCorrect == FriendsSpec => []FriendsTypeOK
<1>1. IInv => FriendsTypeOK
  BY DEF IInv
<1>2. QED
  BY <1>1, Invariant, PTL

\* Every row was asked for by its uid and, when accepted, agreed to by its
\* friend_uid, for any number of users, requests and late or repeated commands.
THEOREM FriendshipIsMutual == FriendsSpec => []FriendsConsented
<1>1. IInv => FriendsConsented
  BY DEF IInv
<1>2. QED
  BY <1>1, Invariant, PTL

\* What a page shows has really happened, however old the list or notice is.
THEOREM PagesShowFacts == FriendsSpec => []ShownIsReal
<1>1. IInv => ShownIsReal
  BY Zenon DEF IInv, PagesReal, ShownIsReal, FriendReal, RequestReal
<1>2. QED
  BY <1>1, Invariant, PTL

\* Rows move along their life cycle only; in particular a rejected request stays
\* rejected.
THEOREM RowsFollowLifecycle == FriendsSpec => RowLifecycle
<1> DEFINE Step == \A p \in Pair :
          row'[p] # row[p] =>
              <<row[p], row'[p]>> \in {<<"none", "pending">>, <<"pending", "accepted">>,
                                      <<"pending", "rejected">>, <<"accepted", "none">>}
<1>1. IInv /\ [FriendsNext]_friendsVars => [Step]_friendsVars
  <2>1. SUFFICES ASSUME IInv, FriendsNext PROVE Step
    BY Zenon
  <2>2. PICK u \in User :
           \/ \E v \in User \ {u}, op \in Op : Click(u, op, v) \/ SendCommand(u, op, v)
           \/ Serve(u) \/ LoseCall(u) \/ Answered(u)
           \/ LoadList(u) \/ ReadFriends(u) \/ ReadRequests(u) \/ ListArrives(u)
           \/ HandleCommand(u) \/ Notice(u)
    BY Zenon, <2>1 DEF FriendsNext
  <2>3. CASE Serve(u)
    <3>1. call[u] \in Call /\ Meant(u, call[u])
      BY <2>1, <2>3 DEF Serve, IInv, Shape, CallsMeant, Inactive
    <3>2. row' = Apply(row, call[u].op, u, call[u].peer) /\ UNCHANGED <<asked, agreed>>
      BY <2>3 DEF Serve
    <3>3. QED
      BY Zenon, <2>1, <3>1, <3>2, TableStep DEF Call
  <2>4. CASE HandleCommand(u)
    <3> DEFINE f == Head(frames[u])
    <3>1. frames \in [User -> Seq(Command0)] /\ frames[u] # <<>>
      BY Zenon, <2>1, <2>4 DEF IInv, Shape, HandleCommand
    <3>2. f \in Command0 /\ f = frames[u][1] /\ 1 \in 1..Len(frames[u])
      BY <3>1, QueueFacts
    <3>3. Meant(u, f) /\ f.op \in Op /\ f.peer \in User
      BY <2>1, <3>2 DEF IInv, FramesMeant, Command0
    <3>4. row' = Apply(row, f.op, u, f.peer) /\ UNCHANGED <<asked, agreed>>
      BY Zenon, <2>4 DEF HandleCommand
    <3> HIDE DEF f
    <3>5. QED
      BY Zenon, <2>1, <3>3, <3>4, TableStep
  <2>5. CASE ~(Serve(u) \/ HandleCommand(u))
    BY Zenon, <2>2, <2>5 DEF Click, SendCommand, LoseCall, Answered, LoadList, ReadFriends, ReadRequests,
                      ListArrives, Notice
  <2>6. QED
    BY Zenon, <2>3, <2>4, <2>5
<1>2. QED
  BY <1>1, Invariant, PTL DEF FriendsSpec, RowLifecycle

-----------------------------------------------------------------------------
(* Pages that agree with the table                                         *)

\* What u's page shows once it has handled the answer to its call.
ShownFriends(u) ==
    LET c == call[u] IN
    IF c.at = "ok" /\ c.op = "accept" THEN friends[u] \cup {c.peer}
    ELSE IF c.at = "ok" /\ c.op = "remove" THEN friends[u] \ {c.peer}
    ELSE friends[u]

ShownPending(u) ==
    LET c == call[u] IN
    IF c.at = "ok" /\ c.op \in {"accept", "reject"} THEN pending[u] \ {c.peer} ELSE pending[u]

\* SettledPageAgrees, of every page, also of one with a call under way.
PagesAgree ==
    \A u \in page \ doubt : /\ ShownFriends(u) = GetFriends(row, u)
                            /\ ShownPending(u) = GetPendingRequests(row, u)

\* A list that no change has outdated is what the table says.
ListsAgree ==
    \A u \in User :
        load[u].at \in {"requests", "read"} /\ load[u].clean = "yes" =>
            /\ load[u].friends = GetFriends(row, u)
            /\ load[u].at = "read" => load[u].pending = GetPendingRequests(row, u)

\* A statement that changed a row changes the two queries of its user as the page
\* changes its own lists.
LEMMA ApplyQueries ==
    ASSUME NEW r \in [Pair -> Status], NEW op \in Op, NEW u \in User, NEW v \in User, u # v,
           NEW s, s = Apply(r, op, u, v), s # r
    PROVE  /\ GetFriends(s, u) = IF op = "accept" THEN GetFriends(r, u) \cup {v}
                                 ELSE IF op = "remove" THEN GetFriends(r, u) \ {v}
                                 ELSE GetFriends(r, u)
           /\ GetPendingRequests(s, u) = IF op \in {"accept", "reject"}
                                         THEN GetPendingRequests(r, u) \ {v}
                                         ELSE GetPendingRequests(r, u)
<1>1. <<u, v>> \in Pair /\ <<v, u>> \in Pair /\ <<u, v>> # <<v, u>>
    BY DEF Pair
<1>2. \A w \in User \ {u} : <<u, w>> \in Pair /\ <<w, u>> \in Pair
    BY DEF Pair
<1>3. CASE op = "request"
  <2>1. s = [r EXCEPT ![<<u, v>>] = "pending"] /\ r[<<u, v>>] = "none"
      BY Zenon, <1>1, <1>3 DEF Apply, SendRequest
  <2>2. \A w \in User \ {u} :
            /\ s[<<w, u>>] = r[<<w, u>>]
            /\ s[<<u, w>>] = "accepted" <=> r[<<u, w>>] = "accepted"
      BY Zenon, <1>1, <1>2, <2>1
  <2> QED  BY Zenon, <1>3, <2>2 DEF GetFriends, GetPendingRequests
<1>4. CASE op = "accept"
  <2>1. s = [r EXCEPT ![<<v, u>>] = "accepted"]
      BY Zenon, <1>1, <1>4 DEF Apply, AcceptRequest
  <2>2. /\ s[<<v, u>>] = "accepted"
        /\ \A w \in User \ {u} : /\ w # v => s[<<w, u>>] = r[<<w, u>>]
                                 /\ s[<<u, w>>] = r[<<u, w>>]
      BY Zenon, <1>1, <1>2, <2>1
  <2>3. GetFriends(s, u) = GetFriends(r, u) \cup {v}
    <3>1. v \in GetFriends(s, u)
        BY Zenon, <2>2 DEF GetFriends
    <3>2. ASSUME NEW w, w # v PROVE w \in GetFriends(s, u) <=> w \in GetFriends(r, u)
        BY Zenon, <2>2, <3>2 DEF GetFriends
    <3> QED  BY Zenon, <3>1, <3>2
  <2>4. GetPendingRequests(s, u) = GetPendingRequests(r, u) \ {v}
      BY Zenon, <2>2 DEF GetPendingRequests
  <2> QED  BY <1>4, <2>3, <2>4
<1>5. CASE op = "reject"
  <2>1. s = [r EXCEPT ![<<v, u>>] = "rejected"] /\ r[<<v, u>>] = "pending"
      BY Zenon, <1>1, <1>5 DEF Apply, RejectRequest
  <2>2. /\ s[<<v, u>>] = "rejected"
        /\ \A w \in User \ {u} : /\ w # v => s[<<w, u>>] = r[<<w, u>>]
                                 /\ s[<<u, w>>] = r[<<u, w>>]
      BY Zenon, <1>1, <1>2, <2>1
  <2>3. GetFriends(s, u) = GetFriends(r, u)
      BY <2>1, <2>2 DEF GetFriends
  <2>4. GetPendingRequests(s, u) = GetPendingRequests(r, u) \ {v}
      BY Zenon, <2>2 DEF GetPendingRequests
  <2> QED  BY <1>5, <2>3, <2>4
<1>6. CASE op = "remove"
  <2>1. \A p \in Pair : s[p] = IF p \in {<<u, v>>, <<v, u>>} /\ r[p] = "accepted" THEN "none" ELSE r[p]
      BY <1>6 DEF Apply, RemoveFriend
  <2>2. /\ s[<<v, u>>] # "accepted" /\ s[<<u, v>>] # "accepted"
        /\ s[<<v, u>>] = "pending" <=> r[<<v, u>>] = "pending"
      BY <1>1, <2>1
  <2>3. \A w \in User \ {u, v} : s[<<w, u>>] = r[<<w, u>>] /\ s[<<u, w>>] = r[<<u, w>>]
    <3> SUFFICES ASSUME NEW w \in User \ {u, v}
                 PROVE  s[<<w, u>>] = r[<<w, u>>] /\ s[<<u, w>>] = r[<<u, w>>]
        OBVIOUS
    <3>1. <<w, u>> \notin {<<u, v>>, <<v, u>>} /\ <<u, w>> \notin {<<u, v>>, <<v, u>>}
        OBVIOUS
    <3> QED  BY <1>2, <2>1, <3>1
  <2>4. GetFriends(s, u) = GetFriends(r, u) \ {v}
      BY <2>2, <2>3 DEF GetFriends
  <2>5. GetPendingRequests(s, u) = GetPendingRequests(r, u)
      BY Zenon, <2>2, <2>3 DEF GetPendingRequests
  <2> QED  BY <1>6, <2>4, <2>5
<1> QED  BY Zenon, <1>3, <1>4, <1>5, <1>6 DEF Op

\* A user whose rows did not change gets the answers of before.
LEMMA UntouchedQueries ==
    ASSUME NEW r, NEW w \in User, w \notin Touched(r)
    PROVE  GetFriends(r, w) = GetFriends(row, w) /\ GetPendingRequests(r, w) = GetPendingRequests(row, w)
<1>1. \A v \in User \ {w} : r[<<w, v>>] = row[<<w, v>>] /\ r[<<v, w>>] = row[<<v, w>>]
  <2> SUFFICES ASSUME NEW v \in User \ {w}
               PROVE  r[<<w, v>>] = row[<<w, v>>] /\ r[<<v, w>>] = row[<<v, w>>]
      OBVIOUS
  <2>1. <<w, v>> \in Pair /\ <<v, w>> \in Pair
      BY Zenon DEF Pair
  <2>2. \A p \in Pair : r[p] # row[p] => p[1] \in Touched(r) /\ p[2] \in Touched(r)
      BY DEF Touched
  <2> QED  BY Zenon, <2>1, <2>2
<1> QED  BY Zenon, <1>1 DEF GetFriends, GetPendingRequests

\* A change of the table outdates the lists it touches.
LEMMA OutdateAgrees ==
    ASSUME IInv, ListsAgree, row' \in [Pair -> Status], load' = Outdate(row')
    PROVE  ListsAgree'
<1>1. load \in [User -> {Inactive} \cup Load]
    BY Zenon DEF IInv, Shape
<1> SUFFICES ASSUME NEW w \in User, load'[w].at \in {"requests", "read"}, load'[w].clean = "yes"
             PROVE  /\ load'[w].friends = GetFriends(row', w)
                    /\ load'[w].at = "read" => load'[w].pending = GetPendingRequests(row', w)
    BY Zenon DEF ListsAgree
<1>2. CASE load[w].at # "idle" /\ w \in Touched(row')
  <2>1. load[w] \in Load /\ load'[w] = [load[w] EXCEPT !.clean = "no"]
      BY <1>1, <1>2 DEF Outdate, Inactive
  <2>2. load'[w].clean = "no"
      BY Zenon, <2>1 DEF Load
  <2> QED  BY Zenon, <2>2
<1>3. CASE ~(load[w].at # "idle" /\ w \in Touched(row'))
  <2>1. load'[w] = load[w]
      BY Zenon, <1>3 DEF Outdate
  <2>2. w \notin Touched(row')
      BY Zenon, <1>3, <2>1
  <2> QED  BY Zenon, <2>1, <2>2, UntouchedQueries DEF ListsAgree
<1> QED  BY Zenon, <1>2, <1>3

\* Starting an operation changes neither pages nor table.
LEMMA StartAgrees ==
    ASSUME IInv, PagesAgree, ListsAgree, NEW u \in User, NEW v \in User \ {u}, NEW op \in Op,
           Click(u, op, v) \/ SendCommand(u, op, v)
    PROVE  PagesAgree' /\ ListsAgree'
<1>1. UNCHANGED <<row, page, friends, pending, load, doubt>>
    BY Zenon DEF Click, SendCommand
<1>2. \A w \in User : call'[w] = call[w] \/ (call[w].at = "idle" /\ call'[w].at = "sent")
  <2>1. call' = call \/ (call[u] = Inactive /\ call' = [call EXCEPT ![u] = [at |-> "sent", op |-> op, peer |-> v]])
      BY Zenon DEF Click, SendCommand
  <2>2. call \in [User -> {Inactive} \cup Call] /\ Inactive.at = "idle"
      BY Zenon DEF IInv, Shape, Inactive
  <2>3. [at |-> "sent", op |-> op, peer |-> v].at = "sent"
      OBVIOUS
  <2> QED  BY Zenon, <2>1, <2>2, <2>3
<1>3. \A w \in User : ShownFriends(w)' = ShownFriends(w) /\ ShownPending(w)' = ShownPending(w)
    BY Zenon, <1>1, <1>2 DEF ShownFriends, ShownPending
<1>4. page \subseteq User
    BY FriendsAssumption DEF FriendsAssumption, IInv, FriendsTypeOK
<1> QED  BY Zenon, <1>1, <1>3, <1>4 DEF PagesAgree, ListsAgree

\* The HTTP handler: the caller's page is told, the others' are in doubt.
LEMMA ServeAgrees ==
    ASSUME IInv, PagesAgree, ListsAgree, NEW u \in User, Serve(u)
    PROVE  PagesAgree' /\ ListsAgree'
<1> DEFINE op == call[u].op
           v == call[u].peer
<1>1. call[u] \in Call /\ Meant(u, call[u]) /\ call[u].at = "sent"
    BY DEF Serve, IInv, Shape, CallsMeant, Inactive
<1>2. op \in Op /\ v \in User /\ u # v
    BY <1>1 DEF Call, Meant
<1>3. /\ row' = Apply(row, op, u, v) /\ load' = Outdate(row')
      /\ call' = [call EXCEPT ![u].at = IF row' = row THEN "failed" ELSE "ok"]
      /\ doubt' = doubt \cup (Touched(row') \ {u}) \cup (IF load[u].at # "idle" THEN {u} ELSE {})
      /\ UNCHANGED <<page, friends, pending>>
    BY Zenon DEF Serve
<1>4. row \in [Pair -> Status] /\ page \subseteq User /\ call \in [User -> {Inactive} \cup Call]
    BY FriendsAssumption DEF FriendsAssumption, IInv, FriendsTypeOK, Shape
<1>5. row' \in [Pair -> Status]
    BY <1>2, <1>3, <1>4, ApplyStep
<1>6. ListsAgree'
    BY <1>3, <1>5, OutdateAgrees
<1>7. PagesAgree'
  <2> SUFFICES ASSUME NEW w \in page', w \notin doubt'
               PROVE  /\ ShownFriends(w)' = GetFriends(row', w)
                      /\ ShownPending(w)' = GetPendingRequests(row', w)
      BY DEF PagesAgree
  <2>1. /\ w \in page \ doubt /\ w \in User
        /\ ShownFriends(w) = GetFriends(row, w) /\ ShownPending(w) = GetPendingRequests(row, w)
      BY <1>3, <1>4 DEF PagesAgree
  <2>2. CASE w # u
    <3>1. w \notin Touched(row') /\ call'[w] = call[w]
        BY <1>3, <1>4, <2>1, <2>2
    <3>2. ShownFriends(w)' = ShownFriends(w) /\ ShownPending(w)' = ShownPending(w)
        BY Zenon, <1>3, <3>1 DEF ShownFriends, ShownPending
    <3> QED  BY Zenon, <2>1, <3>1, <3>2, UntouchedQueries
  <2>3. CASE w = u
    <3>1. friends[u] = GetFriends(row, u) /\ pending[u] = GetPendingRequests(row, u)
        BY Zenon, <1>1, <2>1, <2>3 DEF ShownFriends, ShownPending
    <3>2. /\ call'[u].at = IF row' = row THEN "failed" ELSE "ok"
          /\ call'[u].op = op /\ call'[u].peer = v
        BY <1>1, <1>3, <1>4 DEF Call
    <3> HIDE DEF op, v
    <3>3. CASE row' = row
        BY <1>3, <2>3, <3>1, <3>2, <3>3 DEF ShownFriends, ShownPending
    <3>4. CASE row' # row
      <4>1. /\ GetFriends(row', u) = IF op = "accept" THEN GetFriends(row, u) \cup {v}
                                     ELSE IF op = "remove" THEN GetFriends(row, u) \ {v}
                                     ELSE GetFriends(row, u)
            /\ GetPendingRequests(row', u) = IF op \in {"accept", "reject"}
                                             THEN GetPendingRequests(row, u) \ {v}
                                             ELSE GetPendingRequests(row, u)
          BY <1>2, <1>3, <1>4, <3>4, ApplyQueries
      <4> QED  BY Zenon, <1>3, <2>3, <3>1, <3>2, <3>4, <4>1 DEF ShownFriends, ShownPending
    <3> QED  BY <3>3, <3>4
  <2> QED  BY <2>2, <2>3
<1> QED  BY <1>6, <1>7

\* An answer that is lost leaves the page in doubt; one that arrives is applied.
LEMMA AnswerAgrees ==
    ASSUME IInv, PagesAgree, ListsAgree, NEW u \in User, LoseCall(u) \/ Answered(u)
    PROVE  PagesAgree' /\ ListsAgree'
<1>1. /\ UNCHANGED <<row, page, load>> /\ doubt \subseteq doubt'
      /\ call \in [User -> {Inactive} \cup Call] /\ page \subseteq User
      /\ friends \in [User -> SUBSET User] /\ pending \in [User -> SUBSET User]
    BY FriendsAssumption DEF FriendsAssumption, LoseCall, Answered, IInv, FriendsTypeOK, Shape
<1>2. ListsAgree'
    BY Zenon, <1>1 DEF ListsAgree
<1>3. ASSUME NEW w \in User, w # u
      PROVE  ShownFriends(w)' = ShownFriends(w) /\ ShownPending(w)' = ShownPending(w)
  <2>1. call'[w] = call[w] /\ friends'[w] = friends[w] /\ pending'[w] = pending[w]
      BY <1>1, <1>3 DEF LoseCall, Answered
  <2> QED  BY Zenon, <2>1 DEF ShownFriends, ShownPending
<1>4. ASSUME u \notin doubt'
      PROVE  ShownFriends(u)' = ShownFriends(u) /\ ShownPending(u)' = ShownPending(u)
  <2>1. CASE LoseCall(u)
    <3>1. call[u].at = "sent" /\ call'[u].at = "failed" /\ UNCHANGED <<friends, pending>>
        BY <1>1, <1>4, <2>1 DEF LoseCall, Inactive, Call
    <3> QED  BY Zenon, <3>1 DEF ShownFriends, ShownPending
  <2>2. CASE Answered(u)
    <3>1. call'[u].at = "idle"
        BY Zenon, <1>1, <2>2 DEF Answered, Inactive
    <3>2. CASE call[u].at = "failed" /\ UNCHANGED <<friends, pending>>
        BY Zenon, <3>1, <3>2 DEF ShownFriends, ShownPending
    <3>3. CASE call[u].at = "ok"
      <4>1. /\ friends'[u] = CASE call[u].op = "accept" -> friends[u] \cup {call[u].peer}
                               [] call[u].op = "remove" -> friends[u] \ {call[u].peer}
                               [] OTHER -> friends[u]
            /\ pending'[u] = IF call[u].op \in {"accept", "reject"} THEN pending[u] \ {call[u].peer}
                             ELSE pending[u]
          BY Zenon, <1>1, <2>2, <3>3 DEF Answered
      <4> QED  BY <3>1, <3>3, <4>1 DEF ShownFriends, ShownPending
    <3> QED  BY <2>2, <3>2, <3>3 DEF Answered
  <2> QED  BY <2>1, <2>2
<1>5. PagesAgree'
    BY <1>1, <1>3, <1>4 DEF PagesAgree
<1> QED  BY <1>2, <1>5

\* The two queries read the table as it is, and a list that is still up to date when
\* it arrives settles the page.
LEMMA ListAgrees ==
    ASSUME IInv, PagesAgree, ListsAgree, NEW u \in User,
           LoadList(u) \/ ReadFriends(u) \/ ReadRequests(u) \/ ListArrives(u)
    PROVE  PagesAgree' /\ ListsAgree'
<1>1. /\ UNCHANGED <<row, page, call>>
      /\ load \in [User -> {Inactive} \cup Load] /\ page \subseteq User
      /\ friends \in [User -> SUBSET User] /\ pending \in [User -> SUBSET User]
    BY Zenon, FriendsAssumption
       DEF FriendsAssumption, LoadList, ReadFriends, ReadRequests, ListArrives, IInv, FriendsTypeOK, Shape
<1>2. \A w \in User \ {u} : load'[w] = load[w]
    BY Zenon, <1>1 DEF LoadList, ReadFriends, ReadRequests, ListArrives
<1>3. load'[u].at \in {"requests", "read"} /\ load'[u].clean = "yes" =>
            /\ load'[u].friends = GetFriends(row, u)
            /\ load'[u].at = "read" => load'[u].pending = GetPendingRequests(row, u)
  <2>1. CASE LoadList(u) \/ ListArrives(u)
    <3>1. CASE LoadList(u)
      <4>1. load'[u].at = "friends"
          BY Zenon, <1>1, <3>1 DEF LoadList
      <4> QED  BY Zenon, <4>1
    <3>2. CASE ListArrives(u)
      <4>1. load'[u] = Inactive
          BY Zenon, <1>1, <3>2 DEF ListArrives
      <4>2. load'[u].at = "idle"
          BY Zenon, <4>1, LoadFields
      <4> QED  BY Zenon, <4>2
    <3> QED  BY Zenon, <2>1, <3>1, <3>2
  <2>2. CASE ReadFriends(u)
    <3>1. load'[u].friends = GetFriends(row, u) /\ load'[u].at = "requests"
        BY <1>1, <2>2 DEF ReadFriends
    <3> QED  BY Zenon, <3>1
  <2>3. CASE ReadRequests(u)
    <3>1. /\ load[u].at = "requests" /\ load'[u].clean = load[u].clean
          /\ load'[u].friends = load[u].friends
          /\ load'[u].pending = GetPendingRequests(row, u)
        BY <1>1, <2>3 DEF ReadRequests
    <3> QED  BY Zenon, <3>1 DEF ListsAgree
  <2> QED  BY Zenon, <2>1, <2>2, <2>3
<1>4. ListsAgree'
    BY Zenon, <1>1, <1>2, <1>3 DEF ListsAgree
<1>5. CASE UNCHANGED <<friends, pending, doubt>>
  <2>1. PagesAgree'
      BY Zenon, <1>1, <1>5 DEF PagesAgree, ShownFriends, ShownPending
  <2> QED  BY <1>4, <2>1
<1>6. CASE /\ load[u].at = "read"
           /\ friends' = [friends EXCEPT ![u] = load[u].friends]
           /\ pending' = [pending EXCEPT ![u] = load[u].pending]
           /\ doubt' = IF load[u].clean = "yes" /\ call[u] = Inactive THEN doubt \ {u}
                       ELSE doubt \cup {u}
  <2>1. \A w \in User \ {u} : friends'[w] = friends[w] /\ pending'[w] = pending[w]
      BY Zenon, <1>1, <1>6
  <2>2. \A w \in page' \ doubt' : w # u => /\ ShownFriends(w)' = GetFriends(row', w)
                                           /\ ShownPending(w)' = GetPendingRequests(row', w)
      BY Zenon, <1>1, <1>6, <2>1 DEF PagesAgree, ShownFriends, ShownPending
  <2>3. u \notin doubt' => /\ ShownFriends(u)' = GetFriends(row', u)
                           /\ ShownPending(u)' = GetPendingRequests(row', u)
    <3>1. friends'[u] = load[u].friends /\ pending'[u] = load[u].pending
        BY Zenon, <1>1, <1>6
    <3> SUFFICES ASSUME u \notin doubt'
                 PROVE  /\ ShownFriends(u)' = GetFriends(row', u)
                        /\ ShownPending(u)' = GetPendingRequests(row', u)
        OBVIOUS
    <3>2. load[u].clean = "yes" /\ call[u].at = "idle"
      <4>1. load[u].clean = "yes" /\ call[u] = Inactive
          BY Zenon, <1>6
      <4> QED  BY Zenon, <4>1, LoadFields
    <3>3. load[u].friends = GetFriends(row, u) /\ load[u].pending = GetPendingRequests(row, u)
        BY Zenon, <1>6, <3>2 DEF ListsAgree
    <3> QED  BY Zenon, <1>1, <3>1, <3>2, <3>3 DEF ShownFriends, ShownPending
  <2>4. PagesAgree'
      BY <2>2, <2>3 DEF PagesAgree
  <2> QED  BY <1>4, <2>4
<1> QED  BY Zenon, <1>5, <1>6 DEF LoadList, ReadFriends, ReadRequests, ListArrives

\* A command puts every page it touches in doubt, a notice the page that gets it.
LEMMA CommandAgrees ==
    ASSUME IInv, PagesAgree, ListsAgree, NEW u \in User, HandleCommand(u) \/ Notice(u)
    PROVE  PagesAgree' /\ ListsAgree'
<1>1. page \subseteq User /\ UNCHANGED <<page, call>>
    BY Zenon, FriendsAssumption DEF FriendsAssumption, IInv, FriendsTypeOK, HandleCommand, Notice
<1>2. CASE HandleCommand(u)
  <2> DEFINE f == Head(frames[u])
  <2>1. frames \in [User -> Seq(Command0)] /\ frames[u] # <<>>
      BY Zenon, <1>2 DEF IInv, Shape, HandleCommand
  <2>2. f \in Command0 /\ f = frames[u][1] /\ 1 \in 1..Len(frames[u])
      BY ZenonT(30), <2>1, QueueFacts
  <2>3. Meant(u, f) /\ f.op \in Op /\ f.peer \in User
      BY Zenon, <2>2 DEF IInv, FramesMeant, Command0
  <2>4. /\ row' = Apply(row, f.op, u, f.peer) /\ load' = Outdate(row')
        /\ doubt' = doubt \cup Touched(row') /\ UNCHANGED <<friends, pending, asked, agreed>>
      BY Zenon, <1>2 DEF HandleCommand
  <2> HIDE DEF f
  <2>5. row' \in [Pair -> Status]
      BY <2>3, <2>4, TableStep
  <2>6. ListsAgree'
      BY Zenon, <2>4, <2>5, OutdateAgrees
  <2>7. \A w \in page \ doubt' : /\ GetFriends(row', w) = GetFriends(row, w)
                                 /\ GetPendingRequests(row', w) = GetPendingRequests(row, w)
      BY <1>1, <2>4, UntouchedQueries
  <2>8. PagesAgree'
      BY Zenon, <1>1, <2>4, <2>7 DEF PagesAgree, ShownFriends, ShownPending
  <2> QED  BY <2>6, <2>8
<1>3. CASE Notice(u)
  <2>1. UNCHANGED <<row, load>> /\ doubt \subseteq doubt'
      BY <1>3 DEF Notice
  <2>2. ListsAgree'
      BY Zenon, <2>1 DEF ListsAgree
  <2>3. \A w \in page \ doubt' : friends'[w] = friends[w] /\ pending'[w] = pending[w]
    <3>1. friends \in [User -> SUBSET User] /\ pending \in [User -> SUBSET User]
        BY DEF IInv, FriendsTypeOK
    <3> QED  BY <1>1, <1>3, <3>1 DEF Notice
  <2>4. PagesAgree'
      BY Zenon, <1>1, <2>1, <2>3 DEF PagesAgree, ShownFriends, ShownPending
  <2> QED  BY <2>2, <2>4
<1> QED  BY <1>2, <1>3

\* Pages that are not in doubt, and lists that are up to date, agree throughout.
LEMMA AgreementInvariant == FriendsSpec => [](PagesAgree /\ ListsAgree)
<1>1. FriendsInit => PagesAgree /\ ListsAgree
  <2> SUFFICES ASSUME FriendsInit PROVE PagesAgree /\ ListsAgree
      OBVIOUS
  <2>1. page \subseteq User /\ \A p \in Pair : row[p] = "none"
      BY Zenon, FriendsAssumption DEF FriendsAssumption, FriendsInit
  <2>2. \A u \in User : GetFriends(row, u) = {} /\ GetPendingRequests(row, u) = {}
    <3> SUFFICES ASSUME NEW u \in User PROVE GetFriends(row, u) = {} /\ GetPendingRequests(row, u) = {}
        BY Zenon
    <3>1. \A v \in User \ {u} : <<u, v>> \in Pair /\ <<v, u>> \in Pair
        BY DEF Pair
    <3>2. \A v \in User \ {u} : row[<<u, v>>] = "none" /\ row[<<v, u>>] = "none"
        BY Zenon, <2>1, <3>1
    <3> QED  BY Zenon, <3>2 DEF GetFriends, GetPendingRequests
  <2>3. \A u \in User : ShownFriends(u) = {} /\ ShownPending(u) = {} /\ load[u].at = "idle"
      BY DEF FriendsInit, ShownFriends, ShownPending, Inactive
  <2> QED  BY Zenon, <2>1, <2>2, <2>3 DEF PagesAgree, ListsAgree
<1>2. IInv /\ PagesAgree /\ ListsAgree /\ [FriendsNext]_friendsVars => (PagesAgree /\ ListsAgree)'
  <2> SUFFICES ASSUME IInv, PagesAgree, ListsAgree, [FriendsNext]_friendsVars PROVE PagesAgree' /\ ListsAgree'
      OBVIOUS
  <2>1. CASE UNCHANGED friendsVars
      BY Zenon, <2>1 DEF friendsVars, PagesAgree, ListsAgree, ShownFriends, ShownPending
  <2>2. CASE FriendsNext
      BY <2>2, StartAgrees, ServeAgrees, AnswerAgrees, ListAgrees, CommandAgrees DEF FriendsNext
  <2> QED  BY <2>1, <2>2
<1> QED  BY <1>1, <1>2, Invariant, PTL DEF FriendsSpec

\* A page that loaded its list, and has since only seen changes of its own that it
\* was told of, shows the table, whatever other pages and clients do.
THEOREM SettledPages == FriendsSpec => []SettledPageAgrees
<1>1. ASSUME NEW u, call[u] = Inactive
      PROVE  ShownFriends(u) = friends[u] /\ ShownPending(u) = pending[u]
  <2>1. call[u].at # "ok"
      BY <1>1 DEF Inactive
  <2> QED  BY Zenon, <2>1 DEF ShownFriends, ShownPending
<1>2. PagesAgree => SettledPageAgrees
    BY Zenon, <1>1 DEF PagesAgree, SettledPageAgrees
<1> QED  BY <1>2, AgreementInvariant, PTL

=============================================================================
