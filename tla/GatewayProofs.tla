---------------------------- MODULE GatewayProofs ---------------------------
(***************************************************************************)
(* Theorems about the two tables of one gateway: the registry of its       *)
(* clients (Hub) and the gateways it knows (Cluster).                      *)
(*                                                                         *)
(* The safety properties of Hub hold for every number of users and         *)
(* connections, every buffer size and every connection limit.              *)
(*                                                                         *)
(* Those of Cluster hold for any set of peers and addresses.  NoOrphanConn *)
(* needs to know that reconcilePeers only adds nodes it found an address   *)
(* for (AddHasAddress): this is what ClusterInv adds to it.  With static   *)
(* peers only the health-check loop writes ring and peerHealth, so the two *)
(* agree except between its two writes: StaticInv says what holds there.   *)
(***************************************************************************)
EXTENDS HubImpl, Cluster, TLAPS

-----------------------------------------------------------------------------
(* The registry of the clients                                             *)


\* Places a connection passes before Register puts it into the map, or that it
\* reaches when Register refuses it.
Outside == {"new", "register", "reject", "rejectClose"}

\* A map entry belongs to its user, and to a goroutine that has yet to
\* unregister it.
EntryOwned ==
    \A u \in Uid : clients[u] # NoConn =>
        /\ Owner[clients[u]] = u
        /\ pc[clients[u]] \in {"kick", "closeOld", "login", "reading", "unregister"}

\* Until it unregisters, a live connection that was not replaced is the entry
\* of its user.  The disjunction tells accepted connections from refused ones.
LiveRegistered ==
    \A c \in Conn \ superseded :
        \/ pc[c] \in {"kick", "closeOld"}
        \/ pc[c] \in {"login", "reading", "unregister"} /\ ~closed[c]
        => clients[Owner[c]] = c

\* What a replaced connection looks like.
SupersededOut ==
    \A c \in superseded : clients[Owner[c]] # c /\ pc[c] \notin Outside

OldSuperseded ==
    \A c \in Conn : pc[c] \in {"kick", "closeOld"} => old[c] \in superseded

OutsideOpen == \A c \in Conn : pc[c] \in Outside => ~closed[c]

\* What WriteLoop writes is a message it took from the channel.
FrameHeld == \A c \in Conn : writer[c] = "writing" => frame[c] \in Message

\* The inductive invariant.  The properties alone are not inductive: that
\* CloseOld may close its target rests on OldSuperseded and SupersededOut, and
\* that Register never re-registers a closed or replaced connection rests on
\* OutsideOpen and SupersededOut.
RegistryInv ==
    /\ HubTypeOK
    /\ EntryOwned
    /\ LiveRegistered
    /\ SupersededOut
    /\ OldSuperseded
    /\ OutsideOpen
    /\ FrameHeld
    /\ ClosedIsUnregistered
    /\ SupersededIsClosing

-----------------------------------------------------------------------------
(* Type correctness                                                        *)

\* Client.Send puts a message behind the queued ones or leaves the queue alone.
LEMMA SendType ==
    ASSUME NEW c \in Conn, NEW m \in Message, HubTypeOK, Send(c, m)
    PROVE  sendq' \in [Conn -> Seq(Message)]
<1>1. CASE SendOk(c, m)
    <2>1. Append(sendq[c], m) \in Seq(Message)
        BY DEF HubTypeOK
    <2> QED
        BY <1>1, <2>1 DEF SendOk, HubTypeOK
<1>2. CASE SendErr(c)
    BY <1>2 DEF SendErr, HubTypeOK
<1> QED
    BY <1>1, <1>2 DEF Send

\* Every step keeps the types; WriteFrame and KickOld need what they hold.
LEMMA TypeStep ==
    OldSuperseded /\ FrameHeld /\ HubTypeOK /\ [HubNext]_hubVars => HubTypeOK'
<1> SUFFICES ASSUME OldSuperseded, FrameHeld, HubTypeOK, [HubNext]_hubVars
             PROVE  HubTypeOK'
    OBVIOUS
<1> USE HubAssumption DEF HubAssumption
<1>0. CASE UNCHANGED hubVars
    BY <1>0 DEF hubVars, HubTypeOK
<1>1. ASSUME NEW c \in Conn, Dial(c)
      PROVE  HubTypeOK'
    BY <1>1 DEF Dial, GoTo, HubTypeOK
<1>2. ASSUME NEW c \in Conn, Register(c)
      PROVE  HubTypeOK'
    <2>1. CASE clients[Owner[c]] = NoConn /\ AtCapacity
        <3>1. /\ pc' = [pc EXCEPT ![c] = "reject"]
              /\ old' = [old EXCEPT ![c] = c]
              /\ UNCHANGED <<clients, closed, open, sendq, writer, frame, wire,
                             superseded>>
            BY <1>2, <2>1 DEF Register, GoTo
        <3> QED
            BY <3>1 DEF HubTypeOK
    <2>2. CASE ~(clients[Owner[c]] = NoConn /\ AtCapacity)
        <3>1. Owner[c] \in Uid /\ clients[Owner[c]] \in Conn \cup {NoConn}
            BY DEF HubTypeOK
        <3>2. /\ clients' = [clients EXCEPT ![Owner[c]] = c]
              /\ old' = [old EXCEPT ![c] = clients[Owner[c]]]
              /\ superseded' = superseded \cup ({clients[Owner[c]]} \ {NoConn})
            BY <1>2, <2>2 DEF Register
        <3>3. clients' \in [Uid -> Conn \cup {NoConn}]
            BY <3>1, <3>2 DEF HubTypeOK
        <3>4. old' \in [Conn -> Conn \cup {NoConn}]
            BY <3>1, <3>2 DEF HubTypeOK
        <3>5. superseded' \subseteq Conn
            BY <3>1, <3>2 DEF HubTypeOK
        <3> QED
            BY Zenon, <1>2, <2>2, <3>3, <3>4, <3>5 DEF Register, GoTo, HubTypeOK
    <2> QED
        BY <2>1, <2>2
<1>3. ASSUME NEW c \in Conn, RejectKick(c)
      PROVE  HubTypeOK'
    <2>1. c \in Conn
        BY <1>3 DEF RejectKick, OldSuperseded
    <2>2. sendq' \in [Conn -> Seq(Message)]
        BY <1>3, <2>1, SendType DEF RejectKick, Message
    <2> QED
        BY Zenon, <1>3, <2>2 DEF RejectKick, GoTo, HubTypeOK
<1>4. ASSUME NEW c \in Conn, RejectClose(c)
      PROVE  HubTypeOK'
    BY <1>4 DEF RejectClose, Close, GoTo, HubTypeOK
<1>5. ASSUME NEW c \in Conn, KickOld(c)
      PROVE  HubTypeOK'
    <2>1. old[c] \in Conn
        BY <1>5 DEF KickOld, OldSuperseded, HubTypeOK
    <2>2. sendq' \in [Conn -> Seq(Message)]
        BY <1>5, <2>1, SendType DEF KickOld, Message
    <2> QED
        BY Zenon, <1>5, <2>2 DEF KickOld, GoTo, HubTypeOK
<1>6. ASSUME NEW c \in Conn, CloseOld(c)
      PROVE  HubTypeOK'
    BY Zenon, <1>6 DEF CloseOld, Close, GoTo, HubTypeOK
<1>7. ASSUME NEW c \in Conn, Login(c)
      PROVE  HubTypeOK'
    <2>1. c \in Conn
        BY <1>7 DEF Login, OldSuperseded
    <2>2. sendq' \in [Conn -> Seq(Message)]
        BY <1>7, <2>1, SendType DEF Login, Message
    <2> QED
        BY Zenon, <1>7, <2>2 DEF Login, GoTo, HubTypeOK
<1>8. ASSUME NEW c \in Conn, ReadFails(c)
      PROVE  HubTypeOK'
    BY <1>8 DEF ReadFails, GoTo, HubTypeOK
<1>9. ASSUME NEW c \in Conn, Unregister(c)
      PROVE  HubTypeOK'
    BY <1>9 DEF Unregister, GoTo, HubTypeOK
<1>10. ASSUME NEW c \in Conn, CloseSelf(c)
      PROVE  HubTypeOK'
    BY <1>10 DEF CloseSelf, Close, GoTo, HubTypeOK
<1>11. ASSUME NEW c \in Conn, TransportClose(c)
      PROVE  HubTypeOK'
    BY <1>11 DEF TransportClose, HubTypeOK
<1>12. ASSUME NEW c \in Conn, TakeFrame(c)
      PROVE  HubTypeOK'
    <2>1. Head(sendq[c]) \in Message /\ Tail(sendq[c]) \in Seq(Message)
        BY <1>12 DEF TakeFrame, HubTypeOK
    <2> QED
        BY <1>12, <2>1 DEF TakeFrame, HubTypeOK
<1>13. ASSUME NEW c \in Conn, WriteFrame(c)
      PROVE  HubTypeOK'
    BY <1>13 DEF WriteFrame, HubTypeOK, FrameHeld
<1>14. ASSUME NEW c \in Conn, WriterReturns(c)
      PROVE  HubTypeOK'
    BY <1>14 DEF WriterReturns, HubTypeOK
<1> QED
    BY <1>0, <1>1, <1>2, <1>3, <1>4, <1>5, <1>6, <1>7, <1>8, <1>9, <1>10, <1>11, <1>12, <1>13, <1>14 DEF HubNext, ConnStep, WriterStep
-----------------------------------------------------------------------------
(* Safety of the registry                                                  *)

\* A connection that is not between Register and Unregister is no map entry.
LEMMA NotRegistered ==
    ASSUME NEW c \in Conn, EntryOwned,
           pc[c] \notin {"kick", "closeOld", "login", "reading", "unregister"}
    PROVE  clients[Owner[c]] # c
<1>1. Owner[c] \in Uid /\ c # NoConn
    BY HubAssumption DEF HubAssumption
<1> QED
    BY <1>1 DEF EntryOwned

\* Every step keeps the inductive invariant.
LEMMA RegistryStep == RegistryInv /\ [HubNext]_hubVars => RegistryInv'
<1> SUFFICES ASSUME RegistryInv, [HubNext]_hubVars
             PROVE  RegistryInv'
    OBVIOUS
<1> USE HubAssumption DEF HubAssumption
<1>a. HubTypeOK /\ HubTypeOK'
    BY TypeStep DEF RegistryInv
<1>0. CASE UNCHANGED hubVars
    BY <1>0, <1>a DEF hubVars, RegistryInv, EntryOwned, LiveRegistered,
        SupersededOut, OldSuperseded, OutsideOpen, FrameHeld,
        ClosedIsUnregistered, SupersededIsClosing
<1>1. ASSUME NEW c \in Conn, Dial(c)
      PROVE  RegistryInv'
    <2>1. EntryOwned' /\ LiveRegistered' /\ SupersededOut'
        BY <1>1, <1>a DEF Dial, GoTo, HubTypeOK, RegistryInv, EntryOwned,
            LiveRegistered, SupersededOut, Outside
    <2>2. OldSuperseded' /\ OutsideOpen' /\ FrameHeld'
        BY <1>1, <1>a DEF Dial, GoTo, HubTypeOK, RegistryInv, OldSuperseded,
            OutsideOpen, FrameHeld, Outside
    <2>3. ClosedIsUnregistered' /\ SupersededIsClosing'
        BY Zenon, <1>1, <1>a DEF Dial, GoTo, HubTypeOK, RegistryInv,
            ClosedIsUnregistered, SupersededIsClosing
    <2> QED
        BY <1>a, <2>1, <2>2, <2>3 DEF RegistryInv
<1>2. ASSUME NEW c \in Conn, Register(c)
      PROVE  RegistryInv'
    <2> DEFINE x == clients[Owner[c]]
    <2>a. Owner[c] \in Uid /\ x \in Conn \cup {NoConn} /\ pc[c] = "register"
        BY <1>2, <1>a DEF Register, HubTypeOK
    <2>b. CASE x = NoConn /\ AtCapacity
        <3>1. /\ UNCHANGED <<clients, superseded, closed, writer, frame>>
              /\ old' = [old EXCEPT ![c] = c]
              /\ pc' = [pc EXCEPT ![c] = "reject"]
            BY <1>2, <2>b DEF Register, GoTo
        <3>2. EntryOwned' /\ LiveRegistered' /\ SupersededOut'
            <4>1. x # c /\ c \notin superseded
                BY <1>a, <2>a, <2>b DEF HubTypeOK, RegistryInv, SupersededOut, Outside
            <4> QED
                BY <1>a, <2>a, <3>1, <4>1, NotRegistered DEF HubTypeOK, RegistryInv,
                    Outside, EntryOwned, LiveRegistered, SupersededOut
        <3>3. OldSuperseded' /\ OutsideOpen' /\ FrameHeld'
            BY <1>a, <2>a, <3>1 DEF HubTypeOK, RegistryInv, Outside, OldSuperseded,
                OutsideOpen, FrameHeld
        <3>4. ClosedIsUnregistered' /\ SupersededIsClosing'
            BY Zenon, <1>a, <2>a, <3>1 DEF HubTypeOK, RegistryInv, ClosedIsUnregistered,
                SupersededIsClosing
        <3> QED
            BY <1>a, <3>2, <3>3, <3>4 DEF RegistryInv
    <2>c. CASE ~(x = NoConn /\ AtCapacity)
        <3>1. /\ clients' = [clients EXCEPT ![Owner[c]] = c]
              /\ old' = [old EXCEPT ![c] = x]
              /\ superseded' = superseded \cup ({x} \ {NoConn})
              /\ pc' = [pc EXCEPT ![c] = IF x = NoConn THEN "login" ELSE "kick"]
              /\ UNCHANGED <<closed, writer, frame>>
            BY <1>2, <2>c DEF Register, GoTo
        <3>2. /\ c \notin superseded /\ ~closed[c] /\ x # c
              /\ x # NoConn => Owner[x] = Owner[c] /\ pc[x] \notin Outside
            <4>1. c \notin superseded /\ ~closed[c]
                BY <2>a DEF RegistryInv, SupersededOut, OutsideOpen, Outside
            <4>2. x # c
                BY <2>a, NotRegistered DEF RegistryInv
            <4>3. x # NoConn => Owner[x] = Owner[c] /\ pc[x] \notin Outside
                BY <2>a DEF RegistryInv, EntryOwned, Outside
            <4> QED
                BY <4>1, <4>2, <4>3
        <3>3. \A d \in Conn : clients[Owner[d]] = d /\ d # x
                              => clients'[Owner[d]] = d
            BY <1>a, <2>a, <3>1 DEF HubTypeOK
        <3> HIDE DEF x
        <3>4. EntryOwned'
            BY <1>a, <2>a, <3>1, <3>2 DEF HubTypeOK, RegistryInv, EntryOwned, Outside
        <3>5. LiveRegistered'
            BY <1>a, <2>a, <3>1, <3>2, <3>3 DEF HubTypeOK, RegistryInv, LiveRegistered
        <3>6. SupersededOut'
            <4>1. ASSUME NEW d \in superseded', d = x
                  PROVE  clients'[Owner[d]] # d /\ pc'[d] \notin Outside
                BY <1>a, <2>a, <3>1, <3>2, <4>1 DEF HubTypeOK, Outside
            <4>2. ASSUME NEW d \in superseded', d # x
                  PROVE  clients'[Owner[d]] # d /\ pc'[d] \notin Outside
                BY <1>a, <2>a, <3>1, <3>2, <4>2 DEF HubTypeOK, RegistryInv,
                    SupersededOut, Outside
            <4> QED
                BY <4>1, <4>2 DEF SupersededOut
        <3>7. OldSuperseded'
            BY <1>a, <2>a, <3>1, <3>2 DEF HubTypeOK, RegistryInv, OldSuperseded
        <3>8. OutsideOpen' /\ FrameHeld'
            BY <1>a, <2>a, <3>1 DEF HubTypeOK, RegistryInv, OutsideOpen, FrameHeld,
                Outside
        <3>9. ClosedIsUnregistered'
            BY <1>a, <2>a, <3>1, <3>2 DEF HubTypeOK, RegistryInv,
                ClosedIsUnregistered
        <3>10. SupersededIsClosing'
            <4> SUFFICES ASSUME NEW d \in superseded', ~closed'[d]
                         PROVE  \E e \in Conn : /\ old'[e] = d
                                                /\ pc'[e] \in {"kick", "closeOld"}
                BY DEF SupersededIsClosing
            <4>1. CASE d = x
                <5>1. x # NoConn
                    BY <1>a, <4>1 DEF HubTypeOK
                <5>2. old'[c] = d /\ pc'[c] = "kick"
                    BY <1>a, <3>1, <4>1, <5>1 DEF HubTypeOK
                <5> QED
                    BY <5>2
            <4>2. CASE d # x
                <5>1. PICK e \in Conn : /\ old[e] = d
                                        /\ pc[e] \in {"kick", "closeOld"}
                    BY <3>1, <4>2 DEF RegistryInv, SupersededIsClosing
                <5>2. e # c /\ old'[e] = d /\ pc'[e] = pc[e]
                    BY <1>a, <2>a, <3>1, <5>1 DEF HubTypeOK
                <5> QED
                    BY <5>1, <5>2
            <4> QED
                BY <4>1, <4>2
        <3> QED
            BY <1>a, <3>4, <3>5, <3>6, <3>7, <3>8, <3>9, <3>10 DEF RegistryInv
    <2> QED
        BY <2>b, <2>c
<1>3. ASSUME NEW c \in Conn, RejectKick(c)
      PROVE  RegistryInv'
    <2>1. EntryOwned' /\ LiveRegistered' /\ SupersededOut'
        BY <1>3, <1>a DEF RejectKick, GoTo, HubTypeOK, RegistryInv, EntryOwned,
            LiveRegistered, SupersededOut, Outside
    <2>2. OldSuperseded' /\ OutsideOpen' /\ FrameHeld'
        BY <1>3, <1>a DEF RejectKick, GoTo, HubTypeOK, RegistryInv,
            OldSuperseded, OutsideOpen, FrameHeld, Outside
    <2>3. ClosedIsUnregistered' /\ SupersededIsClosing'
        BY Zenon, <1>3, <1>a DEF RejectKick, GoTo, HubTypeOK, RegistryInv,
            ClosedIsUnregistered, SupersededIsClosing
    <2> QED
        BY <1>a, <2>1, <2>2, <2>3 DEF RegistryInv
<1>4. ASSUME NEW c \in Conn, RejectClose(c)
      PROVE  RegistryInv'
    <2>1. clients[Owner[c]] # c
        BY <1>4, NotRegistered DEF RejectClose, RegistryInv
    <2>2. EntryOwned' /\ LiveRegistered' /\ SupersededOut'
        BY <1>4, <1>a, <2>1 DEF RejectClose, GoTo, Close, HubTypeOK,
            RegistryInv, EntryOwned, LiveRegistered, SupersededOut, Outside
    <2>3. OldSuperseded' /\ OutsideOpen' /\ FrameHeld'
        BY <1>4, <1>a DEF RejectClose, GoTo, Close, HubTypeOK, RegistryInv,
            OldSuperseded, OutsideOpen, FrameHeld, Outside
    <2>4. ClosedIsUnregistered'
        BY <1>4, <1>a, <2>1 DEF RejectClose, GoTo, Close, HubTypeOK,
            RegistryInv, ClosedIsUnregistered
    <2>5. SupersededIsClosing'
        BY Zenon, <1>4, <1>a DEF RejectClose, GoTo, Close, HubTypeOK, RegistryInv,
            SupersededIsClosing
    <2> QED
        BY <1>a, <2>2, <2>3, <2>4, <2>5 DEF RegistryInv
<1>5. ASSUME NEW c \in Conn, KickOld(c)
      PROVE  RegistryInv'
    <2>1. EntryOwned' /\ LiveRegistered' /\ SupersededOut'
        BY <1>5, <1>a DEF KickOld, GoTo, HubTypeOK, RegistryInv, EntryOwned,
            LiveRegistered, SupersededOut, Outside
    <2>2. OldSuperseded' /\ OutsideOpen' /\ FrameHeld'
        BY <1>5, <1>a DEF KickOld, GoTo, HubTypeOK, RegistryInv, OldSuperseded,
            OutsideOpen, FrameHeld, Outside
    <2>3. ClosedIsUnregistered' /\ SupersededIsClosing'
        BY <1>5, <1>a DEF KickOld, GoTo, HubTypeOK, RegistryInv,
            ClosedIsUnregistered, SupersededIsClosing
    <2> QED
        BY <1>a, <2>1, <2>2, <2>3 DEF RegistryInv
<1>6. ASSUME NEW c \in Conn, CloseOld(c)
      PROVE  RegistryInv'
    <2>1. old[c] \in superseded
        BY <1>6, <1>a DEF CloseOld, HubTypeOK, RegistryInv, OldSuperseded
    <2>2. EntryOwned' /\ LiveRegistered' /\ SupersededOut'
        BY <1>6, <1>a, <2>1 DEF CloseOld, GoTo, Close, HubTypeOK, RegistryInv,
            EntryOwned, LiveRegistered, SupersededOut, Outside
    <2>3. OldSuperseded' /\ OutsideOpen' /\ FrameHeld'
        BY <1>6, <1>a, <2>1 DEF CloseOld, GoTo, Close, HubTypeOK, RegistryInv,
            OldSuperseded, OutsideOpen, SupersededOut, FrameHeld, Outside
    <2>4. ClosedIsUnregistered'
        BY <1>6, <1>a, <2>1 DEF CloseOld, GoTo, Close, HubTypeOK, RegistryInv,
            ClosedIsUnregistered, SupersededOut
    <2>5. SupersededIsClosing'
        BY <1>6, <1>a DEF CloseOld, GoTo, Close, HubTypeOK, RegistryInv,
            SupersededIsClosing
    <2> QED
        BY <1>a, <2>2, <2>3, <2>4, <2>5 DEF RegistryInv
<1>7. ASSUME NEW c \in Conn, Login(c)
      PROVE  RegistryInv'
    <2>1. EntryOwned' /\ LiveRegistered' /\ SupersededOut'
        BY <1>7, <1>a DEF Login, GoTo, HubTypeOK, RegistryInv, EntryOwned,
            LiveRegistered, SupersededOut, Outside
    <2>2. OldSuperseded' /\ OutsideOpen' /\ FrameHeld'
        BY <1>7, <1>a DEF Login, GoTo, HubTypeOK, RegistryInv, OldSuperseded,
            OutsideOpen, FrameHeld, Outside
    <2>3. ClosedIsUnregistered' /\ SupersededIsClosing'
        BY Zenon, <1>7, <1>a DEF Login, GoTo, HubTypeOK, RegistryInv,
            ClosedIsUnregistered, SupersededIsClosing
    <2> QED
        BY <1>a, <2>1, <2>2, <2>3 DEF RegistryInv
<1>8. ASSUME NEW c \in Conn, ReadFails(c)
      PROVE  RegistryInv'
    <2>1. EntryOwned' /\ LiveRegistered' /\ SupersededOut'
        BY <1>8, <1>a DEF ReadFails, GoTo, HubTypeOK, RegistryInv, EntryOwned,
            LiveRegistered, SupersededOut, Outside
    <2>2. OldSuperseded' /\ OutsideOpen' /\ FrameHeld'
        BY <1>8, <1>a DEF ReadFails, GoTo, HubTypeOK, RegistryInv,
            OldSuperseded, OutsideOpen, FrameHeld, Outside
    <2>3. ClosedIsUnregistered' /\ SupersededIsClosing'
        BY Zenon, <1>8, <1>a DEF ReadFails, GoTo, HubTypeOK, RegistryInv,
            ClosedIsUnregistered, SupersededIsClosing
    <2> QED
        BY <1>a, <2>1, <2>2, <2>3 DEF RegistryInv
<1>9. ASSUME NEW c \in Conn, Unregister(c)
      PROVE  RegistryInv'
    <2>1. EntryOwned' /\ LiveRegistered' /\ SupersededOut'
        BY <1>9, <1>a DEF Unregister, GoTo, HubTypeOK, RegistryInv, EntryOwned,
            LiveRegistered, SupersededOut, Outside
    <2>2. OldSuperseded' /\ OutsideOpen' /\ FrameHeld'
        BY <1>9, <1>a DEF Unregister, GoTo, HubTypeOK, RegistryInv,
            OldSuperseded, OutsideOpen, FrameHeld, Outside
    <2>3. ClosedIsUnregistered'
        BY <1>9, <1>a DEF Unregister, GoTo, HubTypeOK, RegistryInv,
            ClosedIsUnregistered
    <2>4. SupersededIsClosing'
        BY Zenon, <1>9, <1>a DEF Unregister, GoTo, HubTypeOK, RegistryInv,
            SupersededIsClosing
    <2> QED
        BY <1>a, <2>1, <2>2, <2>3, <2>4 DEF RegistryInv
<1>10. ASSUME NEW c \in Conn, CloseSelf(c)
      PROVE  RegistryInv'
    <2>1. clients[Owner[c]] # c
        BY <1>10, NotRegistered DEF CloseSelf, RegistryInv
    <2>2. EntryOwned' /\ LiveRegistered' /\ SupersededOut'
        BY <1>10, <1>a, <2>1 DEF CloseSelf, GoTo, Close, HubTypeOK, RegistryInv,
            EntryOwned, LiveRegistered, SupersededOut, Outside
    <2>3. OldSuperseded' /\ OutsideOpen' /\ FrameHeld'
        BY <1>10, <1>a DEF CloseSelf, GoTo, Close, HubTypeOK, RegistryInv,
            OldSuperseded, OutsideOpen, FrameHeld, Outside
    <2>4. ClosedIsUnregistered'
        BY <1>10, <1>a, <2>1 DEF CloseSelf, GoTo, Close, HubTypeOK, RegistryInv,
            ClosedIsUnregistered
    <2>5. SupersededIsClosing'
        BY Zenon, <1>10, <1>a DEF CloseSelf, GoTo, Close, HubTypeOK, RegistryInv,
            SupersededIsClosing
    <2> QED
        BY <1>a, <2>2, <2>3, <2>4, <2>5 DEF RegistryInv
<1>11. ASSUME NEW c \in Conn, TransportClose(c)
      PROVE  RegistryInv'
    <2>1. EntryOwned' /\ LiveRegistered' /\ SupersededOut'
        BY <1>11, <1>a DEF TransportClose, HubTypeOK, RegistryInv, EntryOwned,
            LiveRegistered, SupersededOut, Outside
    <2>2. OldSuperseded' /\ OutsideOpen' /\ FrameHeld'
        BY <1>11, <1>a DEF TransportClose, HubTypeOK, RegistryInv,
            OldSuperseded, OutsideOpen, FrameHeld, Outside
    <2>3. ClosedIsUnregistered' /\ SupersededIsClosing'
        BY <1>11, <1>a DEF TransportClose, HubTypeOK, RegistryInv,
            ClosedIsUnregistered, SupersededIsClosing
    <2> QED
        BY <1>a, <2>1, <2>2, <2>3 DEF RegistryInv
<1>12. ASSUME NEW c \in Conn, TakeFrame(c)
      PROVE  RegistryInv'
    <2>1. EntryOwned' /\ LiveRegistered' /\ SupersededOut'
        BY <1>12, <1>a DEF TakeFrame, HubTypeOK, RegistryInv, EntryOwned,
            LiveRegistered, SupersededOut, Outside
    <2>2. OldSuperseded' /\ OutsideOpen' /\ FrameHeld'
        BY <1>12, <1>a DEF TakeFrame, HubTypeOK, RegistryInv, OldSuperseded,
            OutsideOpen, FrameHeld, Outside
    <2>3. ClosedIsUnregistered' /\ SupersededIsClosing'
        BY <1>12, <1>a DEF TakeFrame, HubTypeOK, RegistryInv,
            ClosedIsUnregistered, SupersededIsClosing
    <2> QED
        BY <1>a, <2>1, <2>2, <2>3 DEF RegistryInv
<1>13. ASSUME NEW c \in Conn, WriteFrame(c)
      PROVE  RegistryInv'
    <2>1. EntryOwned' /\ LiveRegistered' /\ SupersededOut'
        BY <1>13, <1>a DEF WriteFrame, HubTypeOK, RegistryInv, EntryOwned,
            LiveRegistered, SupersededOut, Outside
    <2>2. OldSuperseded' /\ OutsideOpen' /\ FrameHeld'
        BY <1>13, <1>a DEF WriteFrame, HubTypeOK, RegistryInv, OldSuperseded,
            OutsideOpen, FrameHeld, Outside
    <2>3. ClosedIsUnregistered' /\ SupersededIsClosing'
        BY <1>13, <1>a DEF WriteFrame, HubTypeOK, RegistryInv,
            ClosedIsUnregistered, SupersededIsClosing
    <2> QED
        BY <1>a, <2>1, <2>2, <2>3 DEF RegistryInv
<1>14. ASSUME NEW c \in Conn, WriterReturns(c)
      PROVE  RegistryInv'
    <2>1. EntryOwned' /\ LiveRegistered' /\ SupersededOut'
        BY <1>14, <1>a DEF WriterReturns, HubTypeOK, RegistryInv, EntryOwned,
            LiveRegistered, SupersededOut, Outside
    <2>2. OldSuperseded' /\ OutsideOpen' /\ FrameHeld'
        BY <1>14, <1>a DEF WriterReturns, HubTypeOK, RegistryInv, OldSuperseded,
            OutsideOpen, FrameHeld, Outside
    <2>3. ClosedIsUnregistered' /\ SupersededIsClosing'
        BY <1>14, <1>a DEF WriterReturns, HubTypeOK, RegistryInv,
            ClosedIsUnregistered, SupersededIsClosing
    <2> QED
        BY <1>a, <2>1, <2>2, <2>3 DEF RegistryInv
<1> QED
    BY <1>0, <1>1, <1>2, <1>3, <1>4, <1>5, <1>6, <1>7, <1>8, <1>9, <1>10, <1>11, <1>12, <1>13, <1>14
        DEF HubNext, ConnStep, WriterStep

\* The invariant holds of a gateway that nobody has dialled yet.
LEMMA RegistryInit == HubInit => RegistryInv
<1> SUFFICES ASSUME HubInit PROVE RegistryInv
    OBVIOUS
<1>1. HubTypeOK
    BY HubAssumption DEF HubAssumption, HubInit, HubTypeOK
<1>2. EntryOwned /\ LiveRegistered /\ SupersededOut /\ OldSuperseded
    BY HubAssumption DEF HubAssumption, HubInit, EntryOwned, LiveRegistered,
        SupersededOut, OldSuperseded
<1>3. OutsideOpen /\ FrameHeld /\ ClosedIsUnregistered /\ SupersededIsClosing
    BY DEF HubInit, OutsideOpen, FrameHeld, ClosedIsUnregistered,
        SupersededIsClosing
<1> QED
    BY <1>1, <1>2, <1>3 DEF RegistryInv

\* A handler that sends to a connection leaves the registry alone.
LEMMA PushKeeps ==
    ASSUME RegistryInv, NEW c \in Conn, NEW m \in Chat, Push(c, m)
    PROVE  RegistryInv'
<1>1. sendq' \in [Conn -> Seq(Message)]
    BY SendType DEF Push, RegistryInv, Message
<1>2. UNCHANGED <<clients, pc, old, closed, open, writer, frame, wire, superseded>>
    BY DEF Push
<1>3. HubTypeOK'
    BY <1>1, <1>2 DEF RegistryInv, HubTypeOK
<1>4. EntryOwned' /\ LiveRegistered' /\ SupersededOut' /\ OldSuperseded'
    BY <1>2 DEF RegistryInv, EntryOwned, LiveRegistered, SupersededOut, OldSuperseded
<1>5. OutsideOpen' /\ FrameHeld' /\ ClosedIsUnregistered' /\ SupersededIsClosing'
    BY <1>2 DEF RegistryInv, OutsideOpen, FrameHeld, ClosedIsUnregistered,
        SupersededIsClosing
<1> QED
    BY <1>3, <1>4, <1>5 DEF RegistryInv

\* The registry invariant holds of every behaviour of hub.go, client.go and
\* server_ws.go as modelled, whatever the handlers send.
THEOREM RegistryCorrect == ImplSpec => []RegistryInv
<1>1. RegistryInv /\ [ImplNext]_hubVars => RegistryInv'
    BY RegistryStep, PushKeeps DEF ImplNext
<1> QED
    BY <1>1, RegistryInit, PTL DEF ImplSpec

\* Type correctness.
THEOREM HubTypeCorrect == ImplSpec => []HubTypeOK
<1>1. RegistryInv => HubTypeOK
    BY DEF RegistryInv
<1> QED
    BY <1>1, RegistryCorrect, PTL

\* Unregister of a stale connection never evicts the one that replaced it, so
\* a live connection is always the one Hub.Get returns.
THEOREM NewestConnectionWins == ImplSpec => []ServingIsRegistered
<1>1. RegistryInv => ServingIsRegistered
    BY DEF RegistryInv, LiveRegistered, ServingIsRegistered, Serving
<1> QED
    BY <1>1, RegistryCorrect, PTL

\* Hub.Get never returns a connection that has been closed.
THEOREM ClosedNeverRegistered == ImplSpec => []ClosedIsUnregistered
<1>1. RegistryInv => ClosedIsUnregistered
    BY DEF RegistryInv
<1> QED
    BY <1>1, RegistryCorrect, PTL

\* The connection Register replaced is closed, or its closer is on the way.
THEOREM OneDevicePerUser == ImplSpec => []SupersededIsClosing
<1>1. RegistryInv => SupersededIsClosing
    BY DEF RegistryInv
<1> QED
    BY <1>1, RegistryCorrect, PTL

-----------------------------------------------------------------------------
(* The gateways a gateway knows                                            *)


\* What the discovery loop is about to add has an address.
AddHasAddress ==
    /\ disc.at \in {"idle", "peers"} => disc.add = {}
    /\ disc.add \subseteq Known(disc.found)

\* Inside the body of a loop there is a node it works on.
OnPeers ==
    /\ disc.at \in {"addRing", "addHealth", "remAddr", "remHealth"} => disc.node \in Peer
    /\ check.at \in {"compare", "ring", "health"} => check.node \in Peer

ClusterInv == TypeOK /\ OnPeers /\ AddHasAddress /\ NoOrphanConn

\* The inductive invariant holds in the state NewApp and Start leave.
LEMMA ClusterInit == Init => ClusterInv
<1> SUFFICES ASSUME Init PROVE ClusterInv
    OBVIOUS
<1> USE ClusterAssumption DEF ClusterAssumption
<1>1. NoNode \in [Peer -> MaybeAddr] /\ PeerConfig \in [Peer -> MaybeAddr]
    BY DEF NoNode, MaybeAddr
<1>2. TypeOK
    BY <1>1 DEF Init, TypeOK, DiscIdle, CheckIdle, FwdIdle, Known, MaybeAddr
<1>3. OnPeers /\ AddHasAddress
    BY DEF Init, OnPeers, AddHasAddress, DiscIdle, CheckIdle
<1>4. NoOrphanConn
    BY DEF Init, NoOrphanConn, NoNode
<1>5. QED
    BY <1>2, <1>3, <1>4 DEF ClusterInv

\* Every critical section of the loops and of Forward preserves it.
LEMMA ClusterStep == ClusterInv /\ [Next]_vars => ClusterInv'
<1> SUFFICES ASSUME ClusterInv, [Next]_vars PROVE ClusterInv'
    OBVIOUS
<1> USE ClusterAssumption DEF ClusterAssumption, ClusterInv, MaybeAddr
<1>0. NoNode \in [Peer -> MaybeAddr]
    BY DEF NoNode
<1>1. CASE Scan
  <2> PICK skipped \in SUBSET Known(redis) :
        /\ changes' = changes \/ Change
        /\ disc' = [disc EXCEPT !.at = "peers",
                      !.found = [p \in Peer |-> IF p \in skipped THEN None ELSE redis[p]]]
      BY Zenon, <1>1 DEF Scan
  <2>1. [p \in Peer |-> IF p \in skipped THEN None ELSE redis[p]] \in [Peer -> MaybeAddr]
      BY DEF TypeOK
  <2>2. TypeOK'
    <3>1. changes' \in 0..MaxChanges
        BY DEF Change, TypeOK
    <3>2. QED
        BY Zenon, <1>1, <2>1, <3>1 DEF Scan, TypeOK
  <2>3. OnPeers' /\ AddHasAddress' /\ NoOrphanConn'
      BY <1>1, <2>1 DEF Scan, TypeOK, OnPeers, AddHasAddress, NoOrphanConn
  <2>4. QED
      BY <2>2, <2>3
<1>2. CASE Reconcile
    BY Zenon, <1>2 DEF Reconcile, TypeOK, OnPeers, AddHasAddress, NoOrphanConn, Known
<1>3. CASE ReconcileDone
    BY <1>0, <1>3 DEF ReconcileDone, TypeOK, OnPeers, AddHasAddress, NoOrphanConn, Known, DiscIdle
<1>4. CASE AddPeerRing
    BY <1>4 DEF AddPeerRing, TypeOK, OnPeers, AddHasAddress, NoOrphanConn, Known
<1>5. CASE AddPeerHealth
    BY Zenon, <1>5 DEF AddPeerHealth, TypeOK, OnPeers, AddHasAddress, NoOrphanConn, Known
<1>6. CASE RemovePeer
    BY <1>6 DEF RemovePeer, TypeOK, OnPeers, AddHasAddress, NoOrphanConn, Known
<1>7. CASE RemovePeerHealth
    BY Zenon, <1>7 DEF RemovePeerHealth, TypeOK, OnPeers, AddHasAddress, NoOrphanConn, Known
<1>8. CASE CheckStarts
    BY Zenon, <1>8 DEF CheckStarts, TypeOK, OnPeers, AddHasAddress, NoOrphanConn, Known
<1>9. CASE Compare
    BY Zenon, <1>0, <1>9 DEF Compare, TypeOK, OnPeers, AddHasAddress, NoOrphanConn, Known, Checked, CheckIdle
<1>10. CASE ChangeRing
    BY <1>10 DEF ChangeRing, TypeOK, OnPeers, AddHasAddress, NoOrphanConn, Known
<1>11. CASE ChangeHealth
    BY Zenon, <1>0, <1>11 DEF ChangeHealth, TypeOK, OnPeers, AddHasAddress, NoOrphanConn, Known, Checked, CheckIdle
<1>12. CASE Rpc
    BY <1>12 DEF Rpc, TypeOK, OnPeers, AddHasAddress, NoOrphanConn, Known, FwdIdle
<1>13. CASE \E p \in Peer : AddPeer(p)
  <2> PICK p \in Peer : AddPeer(p)
      BY <1>13
  <2>1. TypeOK'
      BY Zenon DEF AddPeer, TypeOK
  <2>2. OnPeers'
      BY DEF AddPeer, TypeOK, OnPeers
  <2>3. AddHasAddress'
      BY DEF AddPeer, TypeOK, AddHasAddress, Known
  <2>4. NoOrphanConn'
      BY DEF AddPeer, TypeOK, AddHasAddress, NoOrphanConn, Known
  <2>5. QED
      BY <2>1, <2>2, <2>3, <2>4
<1>14. CASE \E p \in Peer : RemovePeerRing(p)
  <2> PICK p \in Peer : RemovePeerRing(p)
      BY <1>14
  <2>1. TypeOK'
      BY Zenon DEF RemovePeerRing, TypeOK
  <2>2. OnPeers'
      BY DEF RemovePeerRing, TypeOK, OnPeers
  <2>3. AddHasAddress'
      BY DEF RemovePeerRing, TypeOK, AddHasAddress, Known
  <2>4. NoOrphanConn'
      BY DEF RemovePeerRing, TypeOK, AddHasAddress, NoOrphanConn, Known
  <2>5. QED
      BY <2>1, <2>2, <2>3, <2>4
<1>15. CASE \E p \in Peer : Probe(p)
  <2> PICK p \in Peer : Probe(p)
      BY <1>15
  <2>1. TypeOK'
      BY Zenon DEF Probe, TypeOK
  <2>2. OnPeers'
      BY DEF Probe, TypeOK, OnPeers
  <2>3. AddHasAddress'
      BY DEF Probe, TypeOK, AddHasAddress, Known
  <2>4. NoOrphanConn'
      BY DEF Probe, TypeOK, AddHasAddress, NoOrphanConn, Known
  <2>5. QED
      BY <2>1, <2>2, <2>3, <2>4
<1>16. CASE \E p \in Peer : GetOrDial(p)
    BY <1>16 DEF GetOrDial, TypeOK, OnPeers, AddHasAddress, NoOrphanConn, Known
<1>17. CASE \E p \in Peer, x \in Addr \cup {None} : PeerRegisters(p, x)
    BY <1>17 DEF PeerRegisters, Change, TypeOK, OnPeers, AddHasAddress, NoOrphanConn
<1>18. CASE \E x \in Addr : PeerStopsOrStarts(x)
    BY <1>18 DEF PeerStopsOrStarts, Change, TypeOK, OnPeers, AddHasAddress, NoOrphanConn
<1>19. CASE UNCHANGED vars
    BY <1>19 DEF vars, TypeOK, OnPeers, AddHasAddress, NoOrphanConn
<1>20. QED
    BY <1>1, <1>2, <1>3, <1>4, <1>5, <1>6, <1>7, <1>8, <1>9, <1>10, <1>11, <1>12, <1>13, <1>14, <1>15, <1>16, <1>17, <1>18, <1>19
       DEF Next, DiscoveryStep, CheckStep

\* The tables of the cluster manager and of the forwarder keep their types.
THEOREM ClusterTypeCorrect == Spec => []TypeOK
<1>1. Spec => []ClusterInv
    BY ClusterInit, ClusterStep, PTL DEF Spec
<1>2. ClusterInv => TypeOK
    BY DEF ClusterInv
<1>3. QED
    BY <1>1, <1>2, PTL

\* Whatever Forward, AddPeer and RemovePeer interleave to, no connection is kept
\* for a node the forwarder has no address of.
THEOREM ConnectionsHaveOwners == Spec => []NoOrphanConn
<1>1. Spec => []ClusterInv
    BY ClusterInit, ClusterStep, PTL DEF Spec
<1>2. ClusterInv => NoOrphanConn
    BY DEF ClusterInv
<1>3. QED
    BY <1>1, <1>2, PTL

-----------------------------------------------------------------------------
(* Static peers                                                            *)

\* What relates peerHealth and the ring, in the middle of a change too.
StaticInv ==
    /\ disc.at = "off"
    /\ \A p \in Peer : \/ health[p] = "good" <=> p \in ring
                       \/ check.at = "health" /\ check.node = p
    /\ check.at = "health" => (check.probed = "good" <=> check.node \in ring)

\* Start marks exactly the peers healthy that NewApp put on the ring.
LEMMA StaticInit == Init /\ ~Discovery => StaticInv
<1> SUFFICES ASSUME Init, ~Discovery PROVE StaticInv
    OBVIOUS
<1>1. \A p \in Peer : health[p] = "good" <=> p \in ring
    BY DEF Init, Known
<1>2. check.at = "idle" /\ disc.at = "off"
    BY DEF Init, CheckIdle, Discovery
<1>3. QED
    BY <1>1, <1>2 DEF StaticInv

\* The discovery loop is not started later.
LEMMA DiscoveryStays == ClusterInv /\ Discovery /\ [Next]_vars => Discovery'
<1> SUFFICES ASSUME ClusterInv, Discovery, [Next]_vars PROVE Discovery'
    OBVIOUS
<1>1. CASE Scan \/ DiscoveryStep
  <2> USE DEF Discovery, ClusterInv, TypeOK
  <2>1. CASE Scan \/ Reconcile
    <3>1. disc'.at \in {"peers", "work"}
        BY Zenon, <2>1 DEF Scan, Reconcile
    <3>2. QED
        BY <3>1
  <2>2. CASE ReconcileDone
      BY <2>2 DEF ReconcileDone, DiscIdle
  <2>3. CASE AddPeerRing \/ AddPeerHealth \/ RemovePeer \/ RemovePeerHealth
      BY Zenon, <2>3 DEF AddPeerRing, AddPeerHealth, RemovePeer, RemovePeerHealth
  <2>4. CASE \E p \in Peer : AddPeer(p) \/ RemovePeerRing(p)
      BY Zenon, <2>4 DEF AddPeer, RemovePeerRing
  <2>5. QED
      BY <1>1, <2>1, <2>2, <2>3, <2>4 DEF DiscoveryStep
<1>2. CASE UNCHANGED disc
    BY <1>2 DEF Discovery
<1>3. QED
    BY Zenon, <1>1, <1>2 DEF Next, CheckStep, vars, PeerRegisters, PeerStopsOrStarts,
                CheckStarts, Probe, Compare, ChangeRing, ChangeHealth, GetOrDial, Rpc

\* Without Redis the discovery loop does not run, and the health-check loop writes
\* both tables.
LEMMA StaticStep == ClusterInv /\ StaticInv /\ [Next]_vars => StaticInv'
<1> SUFFICES ASSUME ClusterInv, StaticInv, [Next]_vars PROVE StaticInv'
    OBVIOUS
<1>1. disc.at = "off"
    BY DEF StaticInv
<1>2. CASE CheckStarts
    BY <1>2 DEF CheckStarts, StaticInv, ClusterInv, TypeOK
<1>3. CASE \E p \in Peer : Probe(p)
    BY <1>3 DEF Probe, StaticInv, ClusterInv, TypeOK
<1>4. CASE Compare
  <2>1. check'.at # "health" /\ check.at # "health"
      BY <1>4 DEF Compare, Checked, CheckIdle, ClusterInv, TypeOK
  <2>2. UNCHANGED <<disc, health, ring>>
      BY <1>4 DEF Compare
  <2>3. QED
      BY <2>1, <2>2 DEF StaticInv
<1>5. CASE ChangeRing
    BY <1>5 DEF ChangeRing, StaticInv, ClusterInv, OnPeers, TypeOK
<1>6. CASE ChangeHealth
  <2>1. check'.at # "health"
      BY <1>6 DEF ChangeHealth, Checked, CheckIdle, ClusterInv, TypeOK
  <2>2. \A p \in Peer : health'[p] = IF p = check.node THEN check.probed
                                   ELSE health[p]
      BY <1>6 DEF ChangeHealth, ClusterInv, TypeOK
  <2>3. \A p \in Peer : health'[p] = "good" <=> p \in ring
      BY <1>6, <2>2 DEF ChangeHealth, StaticInv
  <2>4. QED
      BY <1>6, <2>1, <2>3 DEF ChangeHealth, StaticInv
<1>7. CASE Rpc \/ \E p \in Peer : GetOrDial(p)
    BY <1>7 DEF Rpc, GetOrDial, StaticInv
<1>8. CASE \E x \in Addr : PeerStopsOrStarts(x)
    BY <1>8 DEF PeerStopsOrStarts, StaticInv
<1>9. CASE UNCHANGED vars
    BY <1>9 DEF vars, StaticInv
<1>10. ~Scan /\ ~DiscoveryStep
    BY <1>1 DEF Scan, DiscoveryStep, Reconcile, ReconcileDone, AddPeer, AddPeerRing,
                AddPeerHealth, RemovePeerRing, RemovePeer, RemovePeerHealth
<1>11. \A p \in Peer, x \in Addr \cup {None} : ~PeerRegisters(p, x)
    BY <1>1 DEF PeerRegisters, Discovery
<1>12. QED
    BY <1>2, <1>3, <1>4, <1>5, <1>6, <1>7, <1>8, <1>9, <1>10, <1>11 DEF Next, CheckStep

\* With static peers peerHealth says which peers are on the hash ring whenever
\* runHealthCheck is not in the middle of a change.
THEOREM StaticRingCorrect == Spec => []StaticHealthIsRing
<1>1. Spec => []ClusterInv
    BY ClusterInit, ClusterStep, PTL DEF Spec
<1>2. Init => Discovery \/ StaticInv
    BY StaticInit
<1>3. ClusterInv /\ (Discovery \/ StaticInv) /\ [Next]_vars => (Discovery \/ StaticInv)'
    BY DiscoveryStays, StaticStep
<1>4. Discovery \/ StaticInv => StaticHealthIsRing
    BY DEF StaticInv, StaticHealthIsRing
<1>5. QED
    BY <1>1, <1>2, <1>3, <1>4, PTL DEF Spec

-----------------------------------------------------------------------------
(* Counting, and the least element of a set of numbers                     *)

INSTANCE FiniteSetTheorems

\* A set of natural numbers has a least element.
LEMMA LeastExists ==
    ASSUME NEW S \in SUBSET Nat, S # {}
    PROVE  \E x \in S : \A y \in S : x <= y
<1>1. \E x \in S : \A y \in S : ~(<<y, x>> \in OpToRel(<, Nat))
    BY NatLessThanWellFounded, WFMin, Zenon
<1>2. \E x \in S : \A y \in S : ~(y < x)
    BY <1>1, Zenon DEF OpToRel
<1> QED  BY <1>2

-----------------------------------------------------------------------------
(* The connection limit                                                    *)

\* Cardinality of a set of unknown finiteness says nothing, so the invariant
\* carries that the registry is finite, however many users there are.
CapacityInv == IsFiniteSet(Online) /\ CapacityRespected

\* Only Register lets the registry grow, and only below the limit.
LEMMA CapacityStep == HubTypeOK /\ CapacityInv /\ [HubNext]_hubVars => CapacityInv'
<1> SUFFICES ASSUME HubTypeOK, CapacityInv, [HubNext]_hubVars
             PROVE  CapacityInv'
    OBVIOUS
<1> USE HubAssumption DEF HubAssumption
<1>1. CASE UNCHANGED clients
    BY <1>1 DEF CapacityInv, CapacityRespected, Online
<1>2. ASSUME NEW c \in Conn, Register(c), ~UNCHANGED clients
      PROVE  CapacityInv'
    <2>1. /\ clients' = [clients EXCEPT ![Owner[c]] = c]
          /\ ~(clients[Owner[c]] = NoConn /\ AtCapacity)
        BY <1>2 DEF Register
    <2>2. Online' = Online \cup {Owner[c]}
        BY <2>1 DEF Online, HubTypeOK
    <2>3. CASE Owner[c] \in Online
        <3>1. Online' = Online
            BY <2>2, <2>3
        <3> QED
            BY <3>1 DEF CapacityInv, CapacityRespected
    <2>4. CASE Owner[c] \notin Online
        <3>1. clients[Owner[c]] = NoConn
            BY <2>4 DEF Online, HubTypeOK
        <3>2. ~AtCapacity
            BY <2>1, <3>1
        <3>3. /\ IsFiniteSet(Online')
              /\ Cardinality(Online') = Cardinality(Online) + 1
            BY <2>2, <2>4, FS_AddElement DEF CapacityInv
        <3>4. Cardinality(Online) \in Nat
            BY FS_CardinalityType DEF CapacityInv
        <3> QED
            BY <3>2, <3>3, <3>4 DEF AtCapacity, CapacityInv, CapacityRespected
    <2> QED
        BY <2>3, <2>4
<1>3. ASSUME NEW c \in Conn, Unregister(c), ~UNCHANGED clients
      PROVE  CapacityInv'
    <2>1. clients' = [clients EXCEPT ![Owner[c]] = NoConn]
        BY Zenon, <1>3 DEF Unregister, HubTypeOK
    <2>2. Online' = Online \ {Owner[c]}
        BY <2>1 DEF Online, HubTypeOK
    <2>3. Online' \subseteq Online
        BY <2>2
    <2>4. /\ IsFiniteSet(Online')
          /\ Cardinality(Online') <= Cardinality(Online)
        BY <2>3, FS_Subset DEF CapacityInv
    <2>5. Cardinality(Online) \in Nat /\ Cardinality(Online') \in Nat
        BY <2>4, FS_CardinalityType DEF CapacityInv
    <2> QED
        BY <2>4, <2>5 DEF CapacityInv, CapacityRespected
<1> QED
    BY Zenon, <1>1, <1>2, <1>3 DEF HubNext, ConnStep, WriterStep, hubVars, Dial,
        RejectKick, RejectClose, KickOld, CloseOld, Login, ReadFails, CloseSelf,
        TransportClose, TakeFrame, WriteFrame, WriterReturns

\* However logins and disconnections interleave, Register never lets the
\* registry grow past maxConnections.
THEOREM CapacityHolds == ImplSpec => []CapacityRespected
<1>1. HubInit => CapacityInv
    <2> SUFFICES ASSUME HubInit PROVE CapacityInv
        OBVIOUS
    <2>1. Online = {}
        BY DEF HubInit, Online
    <2> QED
        BY <2>1, FS_EmptySet, HubAssumption DEF CapacityInv, CapacityRespected,
            HubAssumption
<1>2. CapacityInv => CapacityRespected
    BY DEF CapacityInv
<1>3. HubTypeOK /\ CapacityInv /\ [ImplNext]_hubVars => CapacityInv'
    <2>1. ASSUME NEW c \in Conn, NEW m \in Chat, CapacityInv, Push(c, m)
          PROVE  CapacityInv'
        BY <2>1 DEF Push, CapacityInv, CapacityRespected, Online
    <2> QED
        BY <2>1, CapacityStep DEF ImplNext
<1> QED
    BY <1>1, <1>2, <1>3, HubTypeCorrect, PTL DEF ImplSpec

-----------------------------------------------------------------------------
(* The chat messages of a queue                                           *)

\* What a listing is.
LEMMA ListingForm ==
    ASSUME NEW q \in Seq(Message), NEW f \in Listings(q)
    PROVE  \E n \in 0..Len(q) :
             /\ f \in [1..n -> 1..Len(q)]
             /\ \A i, j \in 1..n : i < j => f[i] < f[j]
             /\ \A p \in 1..Len(q) : q[p] \in Chat <=> \E i \in 1..n : f[i] = p
<1>1. PICK n \in 0..Len(q) : f \in [1..n -> DOMAIN q]
    BY DEF Listings
<1>2. DOMAIN q = 1..Len(q) /\ DOMAIN f = 1..n
    BY <1>1
<1> QED  BY Zenon, <1>1, <1>2 DEF Listings

\* What makes a listing.
LEMMA IsListing ==
    ASSUME NEW q \in Seq(Message), NEW n \in 0..Len(q), NEW f \in [1..n -> 1..Len(q)],
           \A i, j \in 1..n : i < j => f[i] < f[j],
           \A p \in 1..Len(q) : q[p] \in Chat <=> \E i \in 1..n : f[i] = p
    PROVE  f \in Listings(q)
<1>1. DOMAIN q = 1..Len(q) /\ DOMAIN f = 1..n
    OBVIOUS
<1>2. f \in UNION {[1..k -> DOMAIN q] : k \in 0..Len(q)}
    BY <1>1
<1> QED  BY <1>1, <1>2 DEF Listings

\* Of two lists of the same places, each starts like the other.
LEMMA ListingStarts ==
    ASSUME NEW q \in Seq(Message), NEW f \in Listings(q), NEW g \in Listings(q)
    PROVE  \A i \in DOMAIN f : i \in DOMAIN g /\ f[i] = g[i]
<1>a. PICK n \in 0..Len(q) :
             /\ f \in [1..n -> 1..Len(q)]
             /\ \A i, j \in 1..n : i < j => f[i] < f[j]
             /\ \A p \in 1..Len(q) : q[p] \in Chat <=> \E i \in 1..n : f[i] = p
    BY Zenon, ListingForm
<1>b. PICK k \in 0..Len(q) :
             /\ g \in [1..k -> 1..Len(q)]
             /\ \A i, j \in 1..k : i < j => g[i] < g[j]
             /\ \A p \in 1..Len(q) : q[p] \in Chat <=> \E i \in 1..k : g[i] = p
    BY Zenon, ListingForm
<1>c. /\ \A i \in 1..n : \E j \in 1..k : f[i] = g[j]
      /\ \A j \in 1..k : \E i \in 1..n : f[i] = g[j]
    BY Zenon, <1>a, <1>b
<1> DEFINE D == {i \in 1..n : ~(i \in 1..k /\ f[i] = g[i])}
<1> SUFFICES ASSUME D # {} PROVE FALSE
    BY Zenon, <1>a, <1>b
<1>1. D \in SUBSET Nat
    OBVIOUS
<1>2. PICK d \in D : \A y \in D : d <= y
    BY Zenon, <1>1, LeastExists
<1> HIDE DEF D
<1>3. d \in 1..n /\ ~(d \in 1..k /\ f[d] = g[d])
    BY DEF D
<1>4. \A i \in 1..n : i < d => i \in 1..k /\ f[i] = g[i]
  <2> SUFFICES ASSUME NEW i \in 1..n, i < d, ~(i \in 1..k /\ f[i] = g[i]) PROVE FALSE
      OBVIOUS
  <2>1. i \in D
      BY DEF D
  <2> QED  BY <1>2, <1>3, <2>1
<1>5. PICK j \in 1..k : f[d] = g[j]
    BY <1>3, <1>c
<1>6. ~(j < d)
  <2> SUFFICES ASSUME j < d PROVE FALSE
      OBVIOUS
  <2>1. j \in 1..n /\ f[j] = g[j]
      BY <1>3, <1>4
  <2>2. f[j] < f[d]
      BY <1>a, <1>3, <2>1
  <2>3. f[d] \in Nat
      BY <1>a, <1>3
  <2> QED  BY <1>5, <2>1, <2>2, <2>3
<1>7. d \in 1..k
    BY <1>3, <1>5, <1>6
<1>8. f[d] # g[d] /\ d < j
    BY <1>3, <1>5, <1>6, <1>7
<1>9. f[d] \in Nat /\ g[d] \in Nat /\ g[d] < f[d]
    BY <1>a, <1>b, <1>3, <1>5, <1>7, <1>8
<1>10. PICK e \in 1..n : f[e] = g[d]
    BY <1>c, <1>7
<1>11. CASE e < d
  <2>1. e \in 1..k /\ f[e] = g[e]
      BY <1>4, <1>11
  <2>2. g[e] < g[d]
      BY <1>b, <1>7, <1>11, <2>1
  <2> QED  BY <1>9, <1>10, <2>1, <2>2
<1>12. CASE e = d
    BY <1>8, <1>10, <1>12
<1>13. CASE d < e
  <2>1. f[d] < f[e]
      BY <1>a, <1>3, <1>13
  <2> QED  BY <1>9, <1>10, <2>1
<1> QED  BY <1>3, <1>11, <1>12, <1>13

\* The places of the chat messages can be listed in one way.
LEMMA ListingUnique ==
    ASSUME NEW q \in Seq(Message), NEW f \in Listings(q), NEW g \in Listings(q)
    PROVE  f = g
<1>1. PICK n \in 0..Len(q) : f \in [1..n -> 1..Len(q)]
    BY Zenon, ListingForm
<1>2. PICK k \in 0..Len(q) : g \in [1..k -> 1..Len(q)]
    BY Zenon, ListingForm
<1>a. DOMAIN f = 1..n /\ DOMAIN g = 1..k
    BY <1>1, <1>2
<1>b. \A i \in DOMAIN f : i \in DOMAIN g /\ f[i] = g[i]
    BY ListingStarts
<1>c. \A i \in DOMAIN g : i \in DOMAIN f /\ g[i] = f[i]
    BY ListingStarts
<1>3. \A i \in 1..n : i \in 1..k /\ f[i] = g[i]
    BY Zenon, <1>a, <1>b
<1>4. \A i \in 1..k : i \in 1..n /\ g[i] = f[i]
    BY Zenon, <1>a, <1>c
<1>5. n = k
  <2>1. n \in Nat /\ k \in Nat
      OBVIOUS
  <2>2. ~(k < n)
      BY <1>3, <2>1
  <2>3. ~(n < k)
      BY <1>4, <2>1
  <2> QED  BY <2>1, <2>2, <2>3
<1> QED  BY <1>1, <1>2, <1>3, <1>5

\* The chat messages of a sequence, given the list of their places.
LEMMA ChatsListed ==
    ASSUME NEW q \in Seq(Message), NEW f \in Listings(q)
    PROVE  Chats(q) = [i \in DOMAIN f |-> q[f[i]]]
<1>1. \A g \in Listings(q) : g = f
    BY ListingUnique
<1>2. (CHOOSE g \in Listings(q) : TRUE) = f
    BY <1>1, Zenon
<1> QED  BY <1>2, Zenon DEF Chats

\* A message behind the others is listed last, if it is a chat message.
LEMMA ListingAppend ==
    ASSUME NEW q \in Seq(Message), NEW f \in Listings(q), NEW m \in Message,
           NEW n \in 0..Len(q), f \in [1..n -> 1..Len(q)]
    PROVE  /\ m \in Chat =>
                 [i \in 1..(n + 1) |-> IF i = n + 1 THEN Len(q) + 1 ELSE f[i]]
                     \in Listings(Append(q, m))
           /\ m \notin Chat => f \in Listings(Append(q, m))
<1> DEFINE r == Append(q, m)
           g == [i \in 1..(n + 1) |-> IF i = n + 1 THEN Len(q) + 1 ELSE f[i]]
<1>1. /\ r \in Seq(Message) /\ Len(r) = Len(q) + 1 /\ r[Len(q) + 1] = m
      /\ \A p \in 1..Len(q) : r[p] = q[p]
    OBVIOUS
<1>2. /\ \A i, j \in 1..n : i < j => f[i] < f[j]
      /\ \A p \in 1..Len(q) : q[p] \in Chat <=> \E i \in 1..n : f[i] = p
  <2>1. PICK k \in 0..Len(q) :
            /\ f \in [1..k -> 1..Len(q)]
            /\ \A i, j \in 1..k : i < j => f[i] < f[j]
            /\ \A p \in 1..Len(q) : q[p] \in Chat <=> \E i \in 1..k : f[i] = p
      BY Zenon, ListingForm
  <2>2. 1..k = 1..n
      BY Zenon, <2>1
  <2> QED  BY Zenon, <2>1, <2>2
<1> HIDE DEF r
<1>3. ASSUME m \in Chat PROVE g \in Listings(r)
  <2>1. g \in [1..(n + 1) -> 1..Len(r)] /\ n + 1 \in 0..Len(r)
      BY <1>1
  <2>2. \A i, j \in 1..(n + 1) : i < j => g[i] < g[j]
      BY <1>2
  <2>3. ASSUME NEW p \in 1..Len(r)
        PROVE  r[p] \in Chat <=> \E i \in 1..(n + 1) : g[i] = p
    <3>1. CASE p = Len(q) + 1
      <4>1. g[n + 1] = p /\ n + 1 \in 1..(n + 1)
          BY <3>1
      <4>2. r[p] \in Chat
          BY <1>1, <1>3, <3>1
      <4> QED  BY Zenon, <4>1, <4>2
    <3>2. CASE p \in 1..Len(q)
      <4>1. r[p] = q[p]
          BY Zenon, <1>1, <3>2
      <4>2. \A i \in 1..n : i \in 1..(n + 1) /\ g[i] = f[i]
          OBVIOUS
      <4>3. \A i \in 1..(n + 1) : i \in 1..n \/ g[i] # p
          BY <3>2
      <4> HIDE DEF g
      <4> QED  BY Zenon, <1>2, <3>2, <4>1, <4>2, <4>3
    <3> QED  BY <1>1, <3>1, <3>2
  <2> HIDE DEF g
  <2> QED  BY Zenon, <1>1, <2>1, <2>2, <2>3, IsListing
<1>4. ASSUME m \notin Chat PROVE f \in Listings(r)
  <2>1. f \in [1..n -> 1..Len(r)] /\ n \in 0..Len(r)
      BY <1>1
  <2>2. ASSUME NEW p \in 1..Len(r)
        PROVE  r[p] \in Chat <=> \E i \in 1..n : f[i] = p
    <3>1. CASE p = Len(q) + 1
        BY <1>1, <1>4, <3>1
    <3>2. CASE p \in 1..Len(q)
        BY Zenon, <1>1, <1>2, <3>2
    <3> QED  BY <1>1, <3>1, <3>2
  <2> QED  BY Zenon, <1>1, <1>2, <2>1, <2>2, IsListing
<1> QED  BY <1>3, <1>4 DEF r
\* Every queue has a list of its chat messages.
LEMMA ListingExists == \A q \in Seq(Message) : Listings(q) # {}
<1> DEFINE D == {n \in Nat : \E q \in Seq(Message) : Len(q) = n /\ Listings(q) = {}}
<1> SUFFICES ASSUME D # {} PROVE FALSE
    OBVIOUS
<1>1. PICK d \in D : \A y \in D : d <= y
    BY Zenon, LeastExists
<1>2. PICK q \in Seq(Message) : Len(q) = d /\ Listings(q) = {}
    OBVIOUS
<1>3. \A r \in Seq(Message) : Len(r) < d => Listings(r) # {}
  <2> SUFFICES ASSUME NEW r \in Seq(Message), Len(r) < d, Listings(r) = {} PROVE FALSE
      OBVIOUS
  <2>1. Len(r) \in D
      OBVIOUS
  <2> QED  BY <1>1, <2>1
<1> HIDE DEF D
<1>4. CASE q = <<>>
  <2>1. Len(q) = 0 /\ 0 \in 0..Len(q) /\ <<>> \in [1..0 -> 1..Len(q)]
      BY <1>4
  <2>2. /\ \A i, j \in 1..0 : i < j => <<>>[i] < <<>>[j]
        /\ \A p \in 1..Len(q) : q[p] \in Chat <=> \E i \in 1..0 : <<>>[i] = p
      BY <2>1
  <2>3. <<>> \in Listings(q)
      BY Zenon, <2>1, <2>2, IsListing
  <2> QED  BY <1>2, <2>3
<1>5. CASE q # <<>>
  <2> DEFINE r == SubSeq(q, 1, Len(q) - 1)
             m == q[Len(q)]
  <2>1. r \in Seq(Message) /\ m \in Message /\ Len(r) = Len(q) - 1 /\ q = Append(r, m)
    <3>1. Len(q) \in Nat /\ Len(q) # 0
        BY <1>5
    <3>2. m \in Message
        BY <3>1
    <3>3. r = [i \in 1..(Len(q) - 1) |-> q[i]]
        BY <3>1
    <3>4. r \in Seq(Message) /\ Len(r) = Len(q) - 1
        BY <3>1, <3>3
    <3>5. Append(r, m) = [i \in 1..Len(q) |-> IF i = Len(q) THEN m ELSE r[i]]
        BY <3>1, <3>4
    <3>6. Append(r, m) = [i \in 1..Len(q) |-> q[i]]
        BY <3>1, <3>3, <3>5
    <3>7. q = [i \in 1..Len(q) |-> q[i]]
        OBVIOUS
    <3> QED  BY <3>2, <3>4, <3>6, <3>7
  <2> HIDE DEF r, m
  <2>2. PICK f : f \in Listings(r)
      BY <1>2, <1>3, <2>1
  <2>3. PICK n \in 0..Len(r) : f \in [1..n -> 1..Len(r)]
      BY Zenon, <2>1, <2>2, ListingForm
  <2>4. Listings(Append(r, m)) # {}
      BY Zenon, <2>1, <2>2, <2>3, ListingAppend
  <2> QED  BY <1>2, <2>1, <2>4
<1> QED  BY <1>4, <1>5

\* What is sent last arrives last, and only chat messages count.
LEMMA ChatsAppend ==
    ASSUME NEW q \in Seq(Message), NEW m \in Message
    PROVE  /\ Chats(q) \in Seq(Message)
           /\ Chats(Append(q, m)) = IF m \in Chat THEN Append(Chats(q), m) ELSE Chats(q)
<1>1. PICK f : f \in Listings(q)
    BY ListingExists
<1>2. PICK n \in 0..Len(q) : f \in [1..n -> 1..Len(q)]
    BY <1>1, ListingForm
<1>3. Chats(q) = [i \in 1..n |-> q[f[i]]]
    BY <1>1, <1>2, ChatsListed
<1>4. Chats(q) \in Seq(Message) /\ Len(Chats(q)) = n
    BY <1>2, <1>3
<1> DEFINE r == Append(q, m)
           g == [i \in 1..(n + 1) |-> IF i = n + 1 THEN Len(q) + 1 ELSE f[i]]
<1>5. r \in Seq(Message) /\ r[Len(q) + 1] = m /\ \A p \in 1..Len(q) : r[p] = q[p]
    OBVIOUS
<1>6. /\ m \in Chat => g \in Listings(r)
      /\ m \notin Chat => f \in Listings(r)
    BY Zenon, <1>1, <1>2, ListingAppend
<1> HIDE DEF r
<1>7. ASSUME m \in Chat PROVE Chats(r) = Append(Chats(q), m)
  <2>1. DOMAIN g = 1..(n + 1)
      OBVIOUS
  <2> HIDE DEF g
  <2>2. Chats(r) = [i \in 1..(n + 1) |-> r[g[i]]]
      BY <1>5, <1>6, <1>7, <2>1, ChatsListed
  <2>3. \A i \in 1..(n + 1) : r[g[i]] = IF i = n + 1 THEN m ELSE q[f[i]]
      BY <1>2, <1>5 DEF g
  <2>4. Append(Chats(q), m) = [i \in 1..(n + 1) |-> IF i = n + 1 THEN m ELSE q[f[i]]]
      BY <1>3, <1>4
  <2> QED  BY <2>2, <2>3, <2>4
<1>8. ASSUME m \notin Chat PROVE Chats(r) = Chats(q)
  <2>1. Chats(r) = [i \in 1..n |-> r[f[i]]]
      BY <1>2, <1>5, <1>6, <1>8, ChatsListed
  <2> QED  BY Zenon, <1>2, <1>3, <1>5, <2>1
<1> QED  BY <1>4, <1>7, <1>8 DEF r
\* Without its first message, a queue has the same chat messages or one less.
LEMMA ChatsTail ==
    ASSUME NEW q \in Seq(Message), q # <<>>
    PROVE  /\ Head(q) \in Chat => Chats(q) # <<>> /\ Head(Chats(q)) = Head(q) /\ Tail(Chats(q)) = Chats(Tail(q))
           /\ Head(q) \notin Chat => Chats(q) = Chats(Tail(q))
<1> DEFINE r == Tail(q)
<1>1. /\ Len(q) \in Nat \ {0} /\ r \in Seq(Message) /\ Len(r) = Len(q) - 1 /\ Head(q) = q[1]
      /\ \A p \in 1..Len(r) : r[p] = q[p + 1]
    OBVIOUS
<1> HIDE DEF r
<1>2. PICK g : g \in Listings(r)
    BY <1>1, ListingExists
<1>3. PICK n \in 0..Len(r) :
             /\ g \in [1..n -> 1..Len(r)]
             /\ \A i, j \in 1..n : i < j => g[i] < g[j]
             /\ \A p \in 1..Len(r) : r[p] \in Chat <=> \E i \in 1..n : g[i] = p
    BY Zenon, <1>1, <1>2, ListingForm
<1>4. Chats(r) = [i \in 1..n |-> r[g[i]]]
    BY <1>1, <1>2, <1>3, ChatsListed
<1>5. ASSUME NEW p \in 2..Len(q) PROVE q[p] \in Chat <=> \E i \in 1..n : g[i] = p - 1
  <2>1. p - 1 \in 1..Len(r) /\ r[p - 1] = q[p]
    <3>1. p - 1 \in 1..Len(r) /\ (p - 1) + 1 = p
        BY <1>1
    <3> QED  BY <1>1, <3>1
  <2> QED  BY <1>3, <2>1
<1>6. ASSUME q[1] \in Chat
      PROVE  Chats(q) # <<>> /\ Head(Chats(q)) = q[1] /\ Tail(Chats(q)) = Chats(r)
  <2> DEFINE f == [i \in 1..(n + 1) |-> IF i = 1 THEN 1 ELSE g[i - 1] + 1]
  <2>1. \A i \in 2..(n + 1) : i - 1 \in 1..n /\ g[i - 1] \in 1..Len(r) /\ f[i] = g[i - 1] + 1 /\ f[i] \in 2..Len(q)
      BY <1>1, <1>3
  <2>2. f[1] = 1 /\ DOMAIN f = 1..(n + 1) /\ n + 1 \in 0..Len(q)
      BY <1>1, <1>3
  <2>3. f \in [1..(n + 1) -> 1..Len(q)]
      BY <1>1, <1>3
  <2> HIDE DEF f
  <2>4. \A i, j \in 1..(n + 1) : i < j => f[i] < f[j]
    <3>1. SUFFICES ASSUME NEW i \in 1..(n + 1), NEW j \in 1..(n + 1), i < j PROVE f[i] < f[j]
        OBVIOUS
    <3>2. CASE i = 1
        BY <1>3, <2>1, <2>2, <3>1, <3>2
    <3>3. CASE i # 1
      <4>1. i - 1 \in 1..n /\ j - 1 \in 1..n /\ i - 1 < j - 1 /\ i \in 2..(n + 1) /\ j \in 2..(n + 1)
          BY <1>3, <3>1, <3>3
      <4>2. g[i - 1] < g[j - 1]
          BY <1>3, <4>1
      <4>3. PICK a, b : a = g[i - 1] /\ b = g[j - 1]
          BY Zenon
      <4>4. f[i] = a + 1 /\ f[j] = b + 1 /\ a \in 1..Len(r) /\ b \in 1..Len(r) /\ a < b
          BY Zenon, <2>1, <4>1, <4>2, <4>3
      <4>5. a + 1 < b + 1
          BY <4>4
      <4> QED  BY Zenon, <4>4, <4>5
    <3> QED  BY Zenon, <3>2, <3>3
  <2>5. ASSUME NEW p \in 1..Len(q)
        PROVE  q[p] \in Chat <=> \E i \in 1..(n + 1) : f[i] = p
    <3>1. CASE p = 1
        BY <1>3, <1>6, <2>2, <3>1
    <3>2. CASE p # 1
      <4>1. p \in 2..Len(q)
          BY <3>2
      <4>2. ASSUME NEW i \in 1..n, g[i] = p - 1 PROVE \E k \in 1..(n + 1) : f[k] = p
        <5>1. i + 1 \in 2..(n + 1) /\ i + 1 \in 1..(n + 1) /\ (i + 1) - 1 = i
            BY <1>3
        <5>2. f[i + 1] = p
            BY <2>1, <4>1, <4>2, <5>1
        <5> QED  BY <5>1, <5>2
      <4>3. ASSUME NEW k \in 1..(n + 1), f[k] = p PROVE \E i \in 1..n : g[i] = p - 1
        <5>1. k \in 2..(n + 1)
            BY <1>3, <2>2, <3>2, <4>3
        <5>2. k - 1 \in 1..n /\ g[k - 1] = p - 1
            BY <2>1, <4>1, <4>3, <5>1
        <5> QED  BY <5>2
      <4> QED  BY <1>5, <4>1, <4>2, <4>3
    <3> QED  BY <3>1, <3>2
  <2>6. f \in Listings(q)
      BY Zenon, <2>2, <2>3, <2>4, <2>5, IsListing
  <2>7. Chats(q) = [i \in 1..(n + 1) |-> q[f[i]]]
      BY <2>2, <2>3, <2>6, ChatsListed
  <2>8. \A i \in 1..n : q[f[i + 1]] = r[g[i]]
    <3>1. SUFFICES ASSUME NEW i \in 1..n PROVE q[f[i + 1]] = r[g[i]]
        OBVIOUS
    <3>2. i + 1 \in 2..(n + 1) /\ (i + 1) - 1 = i
        BY <1>3
    <3>3. f[i + 1] = g[i] + 1 /\ g[i] \in 1..Len(r)
        BY Zenon, <2>1, <3>2
    <3> QED  BY Zenon, <1>1, <3>3
  <2>9. Chats(q) \in Seq(Message) /\ Len(Chats(q)) = n + 1 /\ Chats(q)[1] = q[1]
      BY <1>3, <2>2, <2>3, <2>7
  <2>10. Tail(Chats(q)) = [i \in 1..n |-> q[f[i + 1]]]
      BY <1>3, <2>7, <2>9
  <2>11. Tail(Chats(q)) = Chats(r)
      BY <1>4, <2>8, <2>10
  <2>12. Chats(q) # <<>> /\ Head(Chats(q)) = q[1]
      BY <1>3, <2>9
  <2> QED  BY <2>11, <2>12
<1>7. ASSUME q[1] \notin Chat PROVE Chats(q) = Chats(r)
  <2> DEFINE f == [i \in 1..n |-> g[i] + 1]
  <2>1. f \in [1..n -> 1..Len(q)] /\ DOMAIN f = 1..n /\ n \in 0..Len(q)
      BY <1>1, <1>3
  <2>2. \A i, j \in 1..n : i < j => f[i] < f[j]
      BY <1>1, <1>3
  <2>3. \A i \in 1..n : f[i] = g[i] + 1 /\ g[i] \in 1..Len(r)
      BY <1>3
  <2> HIDE DEF f
  <2>4. ASSUME NEW p \in 1..Len(q)
        PROVE  q[p] \in Chat <=> \E i \in 1..n : f[i] = p
    <3>1. CASE p = 1
      <4>1. \A i \in 1..n : f[i] # 1
          BY <1>1, <2>3
      <4> QED  BY <1>7, <3>1, <4>1
    <3>2. CASE p # 1
      <4>1. p \in 2..Len(q)
          BY <3>2
      <4>2. \A i \in 1..n : f[i] = p <=> g[i] = p - 1
          BY <2>3, <4>1
      <4> QED  BY Zenon, <1>5, <4>1, <4>2
    <3> QED  BY <3>1, <3>2
  <2>5. f \in Listings(q)
      BY Zenon, <2>1, <2>2, <2>4, IsListing
  <2>6. Chats(q) = [i \in 1..n |-> q[f[i]]]
      BY <2>1, <2>5, ChatsListed
  <2>7. \A i \in 1..n : q[f[i]] = r[g[i]]
      BY Zenon, <1>1, <2>3
  <2> QED  BY <1>4, <2>6, <2>7
<1> QED  BY <1>1, <1>6, <1>7 DEF r

-----------------------------------------------------------------------------
(* The registry implements Connections                                     *)

\* The state of Connections that a state of Hub stands for.
Prev == [c \in Conn |-> IF old[c] = c THEN NoConn ELSE old[c]]
Life == [c \in Conn |-> LifeOf(c)]
Flow == [c \in Conn |-> open[c] /\ (writer[c] # "off" \/ pc[c] \in PreLogin)]
Queue == [c \in Conn |-> Chats(Outbound(c))]
Wire == [c \in Conn |-> Chats(wire[c])]

\* Nothing has been replaced before Register, WriteLoop starts after the login,
\* and it holds a frame only while it writes one.
NotYetOld == \A c \in Conn : pc[c] \in {"new", "register"} => old[c] = NoConn
WriterAfterLogin ==
    \A c \in Conn : pc[c] \in PreLogin => writer[c] = "off" /\ frame[c] = NoFrame
IdleIsEmpty == \A c \in Conn : writer[c] = "idle" => frame[c] = NoFrame
LoopInv == RegistryInv /\ NotYetOld /\ WriterAfterLogin /\ IdleIsEmpty

\* The marker of an empty hand is no message.
LEMMA NoFrameApart == NoFrame \notin Message /\ Kick \notin Chat /\ LoginResp \notin Chat
<1>1. NoFrame # Kick /\ NoFrame # LoginResp
    BY DEF NoFrame, Kick, LoginResp
<1> QED  BY <1>1, ChatAssumption DEF ChatAssumption, Message

\* What is on its way to a connection is a sequence of messages.
LEMMA OutboundType ==
    ASSUME HubTypeOK, NEW c \in Conn
    PROVE  /\ Outbound(c) \in Seq(Message)
           /\ frame[c] = NoFrame => Outbound(c) = sendq[c]
           /\ frame[c] # NoFrame => Outbound(c) = <<frame[c]>> \o sendq[c] /\ frame[c] \in Message
<1>1. sendq[c] \in Seq(Message) /\ frame[c] \in Message \cup {NoFrame}
    BY DEF HubTypeOK
<1>2. CASE frame[c] = NoFrame
  <2>1. Outbound(c) = <<>> \o sendq[c]
      BY <1>2 DEF Outbound
  <2> QED  BY <1>1, <1>2, <2>1
<1>3. CASE frame[c] # NoFrame
  <2>1. Outbound(c) = <<frame[c]>> \o sendq[c] /\ frame[c] \in Message
      BY <1>1, <1>3 DEF Outbound
  <2>2. <<frame[c]>> \in Seq(Message)
      BY <2>1
  <2> QED  BY <1>1, <1>3, <2>1, <2>2
<1> QED  BY <1>2, <1>3

\* Client.Send adds its message behind what is on its way.
LEMMA SendAppends ==
    ASSUME HubTypeOK, NEW c \in Conn, NEW m \in Message, SendOk(c, m), frame' = frame
    PROVE  /\ Outbound(c)' = Append(Outbound(c), m)
           /\ \A d \in Conn \ {c} : Outbound(d)' = Outbound(d)
<1>1. sendq'[c] = Append(sendq[c], m) /\ \A d \in Conn \ {c} : sendq'[d] = sendq[d]
    BY DEF SendOk, HubTypeOK
<1>2. sendq[c] \in Seq(Message)
    BY Zenon DEF HubTypeOK
<1>3. CASE frame[c] = NoFrame
  <2>1. Outbound(c) = sendq[c]
      BY Zenon, <1>3, OutboundType
  <2>2. Outbound(c)' = <<>> \o sendq'[c]
      BY <1>3 DEF Outbound
  <2>3. Append(sendq[c], m) \in Seq(Message)
      BY <1>2
  <2>4. <<>> \o Append(sendq[c], m) = Append(sendq[c], m)
      BY <2>3
  <2>5. \A d \in Conn \ {c} : Outbound(d)' = Outbound(d)
      BY Zenon, <1>1 DEF Outbound
  <2> QED  BY <1>1, <2>1, <2>2, <2>4, <2>5
<1>4. CASE frame[c] # NoFrame
  <2>1. Outbound(c) = <<frame[c]>> \o sendq[c] /\ frame[c] \in Message
      BY <1>4, OutboundType
  <2>2. Outbound(c)' = <<frame[c]>> \o sendq'[c]
      BY <1>4 DEF Outbound
  <2>3. <<frame[c]>> \o Append(sendq[c], m) = Append(<<frame[c]>> \o sendq[c], m)
    <3> DEFINE x == frame[c]  q == sendq[c]
    <3>1. x \in Message /\ q \in Seq(Message)
        BY <1>2, <2>1
    <3> HIDE DEF x, q
    <3>2. <<x>> \o Append(q, m) = Append(<<x>> \o q, m)
        BY <3>1
    <3> QED  BY <3>2 DEF x, q
  <2> QED  BY Zenon, <1>1, <2>1, <2>2, <2>3 DEF Outbound
<1> QED  BY <1>3, <1>4

\* Kicks and login responses are not seen by the users of Connections.
LEMMA QuietSend ==
    ASSUME HubTypeOK, NEW c \in Conn, NEW m \in Message, m \notin Chat, Send(c, m), frame' = frame
    PROVE  Queue' = Queue
<1>1. CASE SendErr(c)
    BY <1>1 DEF SendErr, Queue, Outbound
<1>2. CASE SendOk(c, m)
  <2>1. Outbound(c)' = Append(Outbound(c), m) /\ \A d \in Conn \ {c} : Outbound(d)' = Outbound(d)
      BY <1>2, SendAppends
  <2>2. Chats(Append(Outbound(c), m)) = Chats(Outbound(c))
      BY Zenon, OutboundType, ChatsAppend
  <2>3. \A d \in Conn : Chats(Outbound(d)') = Chats(Outbound(d))
      BY Zenon, <2>1, <2>2
  <2>4. Queue' = [d \in Conn |-> Chats(Outbound(d)')]
      BY DEF Queue, Chats, Listings
  <2> QED  BY <2>3, <2>4 DEF Queue
<1> QED  BY <1>1, <1>2 DEF Send

\* A chat message Client.Send accepts is put behind the queued ones.
LEMMA ChatSend ==
    ASSUME HubTypeOK, NEW c \in Conn, NEW m \in Chat, SendOk(c, m), frame' = frame
    PROVE  Queue' = [Queue EXCEPT ![c] = Append(@, m)]
<1>1. m \in Message
    BY DEF Message
<1>2. Outbound(c)' = Append(Outbound(c), m) /\ \A d \in Conn \ {c} : Outbound(d)' = Outbound(d)
    BY <1>1, SendAppends
<1>3. Chats(Append(Outbound(c), m)) = Append(Chats(Outbound(c)), m)
    BY Zenon, <1>1, OutboundType, ChatsAppend
<1>4. Queue' = [d \in Conn |-> Chats(Outbound(d)')]
    BY DEF Queue, Chats, Listings
<1> QED  BY Zenon, <1>2, <1>3, <1>4 DEF Queue

\* A frame WriteLoop takes is still on its way.
LEMMA TakeKeeps ==
    ASSUME LoopInv, NEW c \in Conn, TakeFrame(c)
    PROVE  Queue' = Queue
<1>1. HubTypeOK /\ frame[c] = NoFrame /\ sendq[c] \in Seq(Message) /\ sendq[c] # <<>>
    BY DEF LoopInv, RegistryInv, IdleIsEmpty, TakeFrame, HubTypeOK
<1>2. /\ frame'[c] = Head(sendq[c]) /\ sendq'[c] = Tail(sendq[c])
      /\ \A d \in Conn \ {c} : frame'[d] = frame[d] /\ sendq'[d] = sendq[d]
    BY Zenon, <1>1 DEF TakeFrame, HubTypeOK
<1>3. Head(sendq[c]) \in Message
    BY <1>1
<1>4. Outbound(c) = sendq[c]
    BY Zenon, <1>1, OutboundType
<1>5. Outbound(c)' = <<Head(sendq[c])>> \o Tail(sendq[c])
    BY Zenon, <1>2, <1>3, NoFrameApart DEF Outbound
<1>6. <<Head(sendq[c])>> \o Tail(sendq[c]) = sendq[c]
  <2> DEFINE q == sendq[c]
  <2>1. q \in Seq(Message) /\ q # <<>>
      BY <1>1
  <2> HIDE DEF q
  <2>2. <<Head(q)>> \o Tail(q) = q
      BY <2>1
  <2> QED  BY <2>2 DEF q
<1>7. \A d \in Conn : Outbound(d)' = Outbound(d)
    BY Zenon, <1>2, <1>4, <1>5, <1>6 DEF Outbound
<1>8. Queue' = [d \in Conn |-> Chats(Outbound(d)')]
    BY DEF Queue, Chats, Listings
<1> QED  BY Zenon, <1>7, <1>8 DEF Queue

\* A written frame leaves the head of what is on its way: seen when it is a chat
\* message, and otherwise not.
LEMMA WriteMoves ==
    ASSUME LoopInv, NEW c \in Conn, WriteFrame(c)
    PROVE  \/ /\ Queue[c] # <<>>
              /\ Wire' = [Wire EXCEPT ![c] = Append(@, Head(Queue[c]))]
              /\ Queue' = [Queue EXCEPT ![c] = Tail(@)]
           \/ Queue' = Queue /\ Wire' = Wire
<1> DEFINE x == frame[c]  q == sendq[c]  o == <<x>> \o q
<1>1. HubTypeOK /\ x \in Message /\ q \in Seq(Message) /\ wire[c] \in Seq(Message)
    BY DEF LoopInv, RegistryInv, FrameHeld, WriteFrame, HubTypeOK
<1>2. /\ frame'[c] = NoFrame /\ sendq' = sendq /\ wire'[c] = Append(wire[c], x)
      /\ \A d \in Conn \ {c} : frame'[d] = frame[d] /\ wire'[d] = wire[d]
    BY <1>1 DEF WriteFrame, HubTypeOK
<1>3. Outbound(c) = o
    BY Zenon, <1>1, NoFrameApart, OutboundType
<1>4. Outbound(c)' = q
  <2>1. Outbound(c)' = <<>> \o q
      BY <1>2 DEF Outbound
  <2> QED  BY <1>1, <2>1
<1>5. \A d \in Conn \ {c} : Outbound(d)' = Outbound(d)
    BY Zenon, <1>2 DEF Outbound
<1>6. Queue' = [d \in Conn |-> Chats(Outbound(d)')]
    BY DEF Queue, Chats, Listings
<1>7. Wire' = [d \in Conn |-> Chats(wire'[d])]
    BY DEF Wire, Chats, Listings
<1> HIDE DEF x, q
<1>8. o \in Seq(Message) /\ o # <<>> /\ Head(o) = x /\ Tail(o) = q
    BY <1>1
<1> HIDE DEF o
<1>9. Queue[c] = Chats(o) /\ Wire[c] = Chats(wire[c])
    BY <1>3 DEF Queue, Wire
<1>10. CASE x \in Chat
  <2>1. Chats(o) # <<>> /\ Head(Chats(o)) = x /\ Tail(Chats(o)) = Chats(q)
      BY Zenon, <1>8, <1>10, ChatsTail
  <2>2. Chats(wire'[c]) = Append(Chats(wire[c]), x)
      BY <1>1, <1>2, <1>10, ChatsAppend
  <2>3. Wire' = [Wire EXCEPT ![c] = Append(@, x)]
      BY Zenon, <1>2, <1>7, <2>2 DEF Wire
  <2>4. Queue' = [Queue EXCEPT ![c] = Tail(@)]
      BY Zenon, <1>4, <1>5, <1>6, <1>9, <2>1 DEF Queue
  <2> QED  BY Zenon, <1>9, <2>1, <2>3, <2>4
<1>11. CASE x \notin Chat
  <2>1. Chats(o) = Chats(q)
      BY Zenon, <1>8, <1>11, ChatsTail
  <2>2. Chats(wire'[c]) = Chats(wire[c])
      BY <1>1, <1>2, <1>11, ChatsAppend
  <2>3. Wire' = Wire
      BY Zenon, <1>2, <1>7, <2>2 DEF Wire
  <2>4. Queue' = Queue
      BY <1>3, <1>4, <1>5, <1>6, <2>1 DEF Queue
  <2> QED  BY <2>3, <2>4
<1> QED  BY Zenon, <1>10, <1>11

\* Every step keeps LoopInv.
LEMMA LoopStep == LoopInv /\ [ImplNext]_hubVars => LoopInv'
<1> SUFFICES ASSUME LoopInv, [ImplNext]_hubVars
             PROVE  LoopInv'
    OBVIOUS
<1> DEFINE Rest == NotYetOld /\ WriterAfterLogin /\ IdleIsEmpty
<1> USE DEF PreLogin
<1>a. RegistryInv /\ RegistryInv' /\ HubTypeOK /\ NotYetOld /\ WriterAfterLogin /\ IdleIsEmpty
    BY Zenon, RegistryStep, PushKeeps DEF LoopInv, ImplNext, RegistryInv
<1>0. ASSUME UNCHANGED hubVars PROVE Rest'
    BY Zenon, <1>0, <1>a DEF hubVars, NotYetOld, WriterAfterLogin, IdleIsEmpty
<1>1. ASSUME NEW c \in Conn, Dial(c) PROVE Rest'
    BY <1>1, <1>a DEF Dial, GoTo, HubTypeOK, NotYetOld, WriterAfterLogin, IdleIsEmpty
<1>2. ASSUME NEW c \in Conn, Register(c) PROVE Rest'
  <2>1. /\ pc[c] = "register" /\ UNCHANGED <<writer, frame>>
        /\ \E w \in {"reject", "login", "kick"} : pc' = [pc EXCEPT ![c] = w]
        /\ \A d \in Conn \ {c} : old'[d] = old[d]
      BY Zenon, <1>2, <1>a DEF Register, GoTo, HubTypeOK
  <2> QED  BY Zenon, <1>a, <2>1 DEF HubTypeOK, NotYetOld, WriterAfterLogin, IdleIsEmpty
<1>3. ASSUME NEW c \in Conn, RejectKick(c) PROVE Rest'
    BY Zenon, <1>3, <1>a DEF RejectKick, GoTo, HubTypeOK, NotYetOld, WriterAfterLogin, IdleIsEmpty
<1>4. ASSUME NEW c \in Conn, RejectClose(c) PROVE Rest'
    BY Zenon, <1>4, <1>a DEF RejectClose, GoTo, HubTypeOK, NotYetOld, WriterAfterLogin, IdleIsEmpty
<1>5. ASSUME NEW c \in Conn, KickOld(c) PROVE Rest'
    BY Zenon, <1>5, <1>a DEF KickOld, GoTo, HubTypeOK, NotYetOld, WriterAfterLogin, IdleIsEmpty
<1>6. ASSUME NEW c \in Conn, CloseOld(c) PROVE Rest'
    BY Zenon, <1>6, <1>a DEF CloseOld, GoTo, HubTypeOK, NotYetOld, WriterAfterLogin, IdleIsEmpty
<1>7. ASSUME NEW c \in Conn, Login(c) PROVE Rest'
    BY Zenon, <1>7, <1>a DEF Login, GoTo, HubTypeOK, NotYetOld, WriterAfterLogin, IdleIsEmpty
<1>8. ASSUME NEW c \in Conn, ReadFails(c) PROVE Rest'
    BY Zenon, <1>8, <1>a DEF ReadFails, GoTo, HubTypeOK, NotYetOld, WriterAfterLogin, IdleIsEmpty
<1>9. ASSUME NEW c \in Conn, Unregister(c) PROVE Rest'
    BY Zenon, <1>9, <1>a DEF Unregister, GoTo, HubTypeOK, NotYetOld, WriterAfterLogin, IdleIsEmpty
<1>10. ASSUME NEW c \in Conn, CloseSelf(c) PROVE Rest'
    BY <1>10, <1>a DEF CloseSelf, GoTo, HubTypeOK, NotYetOld, WriterAfterLogin, IdleIsEmpty
<1>11. ASSUME NEW c \in Conn, TransportClose(c) PROVE Rest'
    BY Zenon, <1>11, <1>a DEF TransportClose, NotYetOld, WriterAfterLogin, IdleIsEmpty
<1>12. ASSUME NEW c \in Conn, TakeFrame(c) PROVE Rest'
    BY Zenon, <1>12, <1>a DEF TakeFrame, HubTypeOK, NotYetOld, WriterAfterLogin, IdleIsEmpty
<1>13. ASSUME NEW c \in Conn, WriteFrame(c) PROVE Rest'
    BY Zenon, <1>13, <1>a DEF WriteFrame, HubTypeOK, NotYetOld, WriterAfterLogin, IdleIsEmpty
<1>14. ASSUME NEW c \in Conn, WriterReturns(c) PROVE Rest'
    BY <1>14, <1>a DEF WriterReturns, HubTypeOK, NotYetOld, WriterAfterLogin, IdleIsEmpty
<1>15. ASSUME NEW c \in Conn, NEW m \in Chat, Push(c, m) PROVE Rest'
    BY Zenon, <1>15, <1>a DEF Push, NotYetOld, WriterAfterLogin, IdleIsEmpty
<1>16. Rest'
    BY Zenon, <1>0, <1>1, <1>2, <1>3, <1>4, <1>5, <1>6, <1>7, <1>8, <1>9, <1>10, <1>11, <1>12,
        <1>13, <1>14, <1>15 DEF ImplNext, HubNext, ConnStep, WriterStep
<1> QED  BY <1>a, <1>16 DEF LoopInv

\* A step that changes no variable of Connections is a stutter.
LEMMA Stutters ==
    ASSUME clients' = clients, Prev' = Prev, Life' = Life, Flow' = Flow, Queue' = Queue, Wire' = Wire
    PROVE  UNCHANGED Abstract!connVars
BY Zenon DEF Prev, Life, Flow, Queue, Wire, Abstract!connVars

\* Where a goroutine may go without the users of Connections seeing it.
LEMMA QuietMove ==
    ASSUME LoopInv, NEW c \in Conn, NEW at, GoTo(c, at), old' = old, open' = open, writer' = writer,
           \/ pc[c] = "new" /\ at = "register"
           \/ pc[c] \in PreLogin \ {"new", "register"} /\ at \in PreLogin \ {"new", "register"}
           \/ pc[c] = "reading" /\ at = "unregister"
           \/ pc[c] = "close" /\ at = "gone"
    PROVE  Prev' = Prev /\ Life' = Life /\ Flow' = Flow
<1>1. pc'[c] = at /\ \A d \in Conn \ {c} : pc'[d] = pc[d]
    BY Zenon DEF GoTo, LoopInv, RegistryInv, HubTypeOK
<1>2. \A d \in Conn : LifeOf(d)' = LifeOf(d)
    BY Zenon, <1>1 DEF LifeOf, PreLogin
<1>3. \A d \in Conn : pc'[d] \in PreLogin <=> pc[d] \in PreLogin
    BY Zenon, <1>1 DEF PreLogin
<1> QED  BY Zenon, <1>2, <1>3 DEF Prev, Life, Flow

\* What is queued or written depends on three variables only.
LEMMA SameTraffic ==
    /\ UNCHANGED <<sendq, frame>> => Queue' = Queue
    /\ UNCHANGED wire => Wire' = Wire
<1>1. Queue' = [d \in Conn |-> Chats(Outbound(d)')] /\ Wire' = [d \in Conn |-> Chats(wire'[d])]
    BY DEF Queue, Wire, Chats, Listings
<1>2. UNCHANGED <<sendq, frame>> => \A d \in Conn : Outbound(d)' = Outbound(d)
    BY DEF Outbound
<1>3. UNCHANGED <<sendq, frame>> => Queue' = Queue
    BY <1>1, <1>2 DEF Queue
<1>4. UNCHANGED wire => Wire' = Wire
    BY <1>1 DEF Wire
<1> QED  BY Zenon, <1>3, <1>4

\* Register is Accept, or Refuse when the server is full.
LEMMA RegisterImplements ==
    ASSUME LoopInv, NEW c \in Conn, Register(c)
    PROVE  Abstract!Accept(c) \/ Abstract!Refuse(c)
<1> DEFINE u == Owner[c]
<1>1. /\ RegistryInv /\ HubTypeOK /\ pc[c] = "register" /\ old[c] = NoConn
      /\ UNCHANGED <<open, sendq, writer, frame, wire>>
    BY DEF LoopInv, RegistryInv, NotYetOld, Register
<1>2. u \in Uid /\ NoConn \notin Conn
    BY HubAssumption DEF HubAssumption
<1>3. clients[u] # c /\ clients[u] \in Conn \cup {NoConn}
    BY Zenon, <1>1, <1>2, NotRegistered DEF RegistryInv, HubTypeOK
<1>4. Queue' = Queue /\ Wire' = Wire
    BY <1>1, SameTraffic
<1>5. Life[c] = "new"
    BY Zenon, <1>1 DEF Life, LifeOf
<1>6. CASE clients[u] = NoConn /\ AtCapacity
  <2>1. /\ pc' = [pc EXCEPT ![c] = "reject"] /\ old' = [old EXCEPT ![c] = c] /\ clients' = clients
        /\ MaxConnections > 0
      BY <1>6 DEF Register, GoTo, AtCapacity
  <2>2. Life' = [Life EXCEPT ![c] = "refused"]
      BY Zenon, <1>1, <2>1 DEF Life, LifeOf, PreLogin, HubTypeOK
  <2>3. Prev' = Prev
      BY Zenon, <1>1, <2>1 DEF Prev, HubTypeOK
  <2>4. Flow' = Flow
      BY <1>1, <2>1 DEF Flow, PreLogin, HubTypeOK
  <2>5. Abstract!Refuse(c)
      BY Zenon, <1>4, <1>5, <1>6, <2>1, <2>2, <2>3, <2>4
         DEF Abstract!Refuse, Life, Prev, Flow, Queue, Wire
  <2> QED  BY <2>5
<1>7. CASE ~(clients[u] = NoConn /\ AtCapacity)
  <2>1. PICK w \in {"login", "kick"} : pc' = [pc EXCEPT ![c] = w]
      BY Zenon, <1>7 DEF Register, GoTo
  <2>2. old' = [old EXCEPT ![c] = clients[u]] /\ clients' = [clients EXCEPT ![u] = c]
      BY <1>7 DEF Register
  <2>3. Life' = [Life EXCEPT ![c] = "hello"]
      BY Zenon, <1>1, <1>3, <2>1, <2>2 DEF Life, LifeOf, PreLogin, HubTypeOK
  <2>4. Prev' = [Prev EXCEPT ![c] = clients[u]]
      BY Zenon, <1>1, <1>3, <2>2 DEF Prev, HubTypeOK
  <2>5. Flow' = Flow
      BY <1>1, <2>1 DEF Flow, PreLogin, HubTypeOK
  <2>6. Abstract!Accept(c)
      BY Zenon, <1>4, <1>5, <2>2, <2>3, <2>4, <2>5
         DEF Abstract!Accept, Life, Prev, Flow, Queue, Wire
  <2> QED  BY <2>6
<1> QED  BY Zenon, <1>6, <1>7

\* The login is Greet: by then Register has closed what it had to close.
LEMMA LoginImplements ==
    ASSUME LoopInv, NEW c \in Conn, Login(c)
    PROVE  Abstract!Greet(c)
<1>1. /\ HubTypeOK /\ pc[c] = "login" /\ writer[c] = "off" /\ frame' = frame
      /\ pc' = [pc EXCEPT ![c] = "reading"] /\ writer' = [writer EXCEPT ![c] = "idle"]
      /\ UNCHANGED <<clients, old, open, wire>>
    BY Zenon DEF LoopInv, RegistryInv, WriterAfterLogin, PreLogin, Login, GoTo
<1>2. Queue' = Queue
  <2>1. LoginResp \in Message /\ LoginResp \notin Chat
      BY NoFrameApart DEF Message
  <2> QED  BY <1>1, <2>1, QuietSend DEF Login
<1>3. Wire' = Wire
    BY <1>1, SameTraffic
<1>4. Prev' = Prev /\ Life' = [Life EXCEPT ![c] = "up"]
    BY Zenon, <1>1 DEF Prev, Life, LifeOf, PreLogin, HubTypeOK
<1>5. Flow' = Flow
    BY Zenon, <1>1 DEF Flow, PreLogin, HubTypeOK
<1>6. NoConn \notin Conn /\ old[c] \in Conn \cup {NoConn}
    BY <1>1, HubAssumption DEF HubAssumption, HubTypeOK
<1>7. \/ Life[c] = "hello" /\ (Prev[c] # NoConn => ~Flow[Prev[c]])
      \/ Life[c] = "refused" /\ ~Flow[c]
  <2>1. CASE old[c] = c
      BY Zenon, <1>1, <1>6, <2>1 DEF Login, RegisterReturns, Life, LifeOf, PreLogin, Flow
  <2>2. CASE old[c] # c
    <3>1. Life[c] = "hello" /\ Prev[c] = old[c]
        BY <1>1, <2>2 DEF Life, LifeOf, PreLogin, Prev
    <3>2. old[c] # NoConn => ~Flow[old[c]]
        BY Zenon, <1>6 DEF Login, RegisterReturns, Flow
    <3> QED  BY Zenon, <3>1, <3>2
  <2> QED  BY Zenon, <2>1, <2>2
<1> QED  BY Zenon, <1>1, <1>2, <1>3, <1>4, <1>5, <1>7 DEF Abstract!Greet, Life, Prev, Flow, Queue, Wire

\* Unregister is Disconnect.
LEMMA UnregisterImplements ==
    ASSUME LoopInv, NEW c \in Conn, Unregister(c)
    PROVE  Abstract!Disconnect(c)
<1>1. /\ HubTypeOK /\ pc[c] = "unregister" /\ pc' = [pc EXCEPT ![c] = "close"]
      /\ clients' = [clients EXCEPT ![Owner[c]] = IF @ = c THEN NoConn ELSE @]
      /\ UNCHANGED <<old, open, sendq, writer, frame, wire>>
    BY Zenon DEF LoopInv, RegistryInv, Unregister, GoTo
<1>2. Queue' = Queue /\ Wire' = Wire
    BY <1>1, SameTraffic
<1>3. Life[c] = "up" /\ Prev' = Prev /\ Life' = [Life EXCEPT ![c] = "down"]
    BY Zenon, <1>1 DEF Prev, Life, LifeOf, PreLogin, HubTypeOK
<1>4. Flow' = Flow
    BY <1>1 DEF Flow, PreLogin, HubTypeOK
<1> QED  BY Zenon, <1>1, <1>2, <1>3, <1>4 DEF Abstract!Disconnect, Life, Prev, Flow, Queue, Wire

\* Closing the transport cuts the connection off, unless WriteLoop had gone.
LEMMA TransportCloseImplements ==
    ASSUME LoopInv, NEW c \in Conn, TransportClose(c)
    PROVE  Abstract!Sever(c) \/ UNCHANGED Abstract!connVars
<1>1. /\ HubTypeOK /\ open[c] /\ open' = [open EXCEPT ![c] = FALSE]
      /\ pc[c] \notin {"new", "register"}
      /\ UNCHANGED <<clients, pc, old, sendq, writer, frame, wire>>
    BY DEF LoopInv, RegistryInv, OutsideOpen, Outside, TransportClose
<1>2. Queue' = Queue /\ Wire' = Wire
    BY Zenon, <1>1, SameTraffic
<1>3. Prev' = Prev /\ Life' = Life /\ Life[c] # "new"
    BY <1>1 DEF Prev, Life, LifeOf
<1>4. Flow' = [Flow EXCEPT ![c] = FALSE]
    BY Zenon, <1>1 DEF Flow, HubTypeOK
<1>5. CASE Flow[c]
  <2>1. Abstract!Sever(c)
      BY Zenon, <1>1, <1>2, <1>3, <1>4, <1>5 DEF Abstract!Sever, Life, Prev, Flow, Queue, Wire
  <2> QED  BY <2>1
<1>6. CASE ~Flow[c]
  <2>1. Flow[c] = FALSE
      BY <1>6 DEF Flow
  <2>2. Flow' = Flow
      BY Zenon, <1>4, <2>1 DEF Flow
  <2> QED  BY Zenon, <1>1, <1>2, <1>3, <2>2, Stutters
<1> QED  BY Zenon, <1>5, <1>6

\* So does a WriteLoop that returns, unless the transport had been closed.
LEMMA WriterReturnsImplements ==
    ASSUME LoopInv, NEW c \in Conn, WriterReturns(c)
    PROVE  Abstract!Sever(c) \/ UNCHANGED Abstract!connVars
<1>1. /\ HubTypeOK /\ writer[c] # "off" /\ writer' = [writer EXCEPT ![c] = "off"]
      /\ pc[c] \notin PreLogin
      /\ UNCHANGED <<clients, pc, old, open, sendq, frame, wire>>
    BY DEF LoopInv, RegistryInv, WriterAfterLogin, WriterReturns
<1>2. Queue' = Queue /\ Wire' = Wire
    BY Zenon, <1>1, SameTraffic
<1>3. Prev' = Prev /\ Life' = Life /\ Life[c] # "new"
    BY Zenon, <1>1 DEF Prev, Life, LifeOf, PreLogin
<1>4. Flow' = [Flow EXCEPT ![c] = FALSE]
    BY Zenon, <1>1 DEF Flow, HubTypeOK
<1>5. CASE Flow[c]
  <2>1. Abstract!Sever(c)
      BY Zenon, <1>1, <1>2, <1>3, <1>4, <1>5 DEF Abstract!Sever, Life, Prev, Flow, Queue, Wire
  <2> QED  BY <2>1
<1>6. CASE ~Flow[c]
  <2>1. Flow[c] = FALSE
      BY <1>6 DEF Flow
  <2>2. Flow' = Flow
      BY Zenon, <1>4, <2>1 DEF Flow
  <2> QED  BY Zenon, <1>1, <1>2, <1>3, <2>2, Stutters
<1> QED  BY <1>5, <1>6

\* WriteFrame of a chat message is Flush; of another message it is not seen.
LEMMA WriteFrameImplements ==
    ASSUME LoopInv, NEW c \in Conn, WriteFrame(c)
    PROVE  Abstract!Flush(c) \/ UNCHANGED Abstract!connVars
<1>1. /\ HubTypeOK /\ writer[c] = "writing" /\ open[c] /\ writer' = [writer EXCEPT ![c] = "idle"]
      /\ pc[c] \notin PreLogin
      /\ UNCHANGED <<clients, pc, old, open>>
    BY Zenon DEF LoopInv, RegistryInv, WriterAfterLogin, WriteFrame
<1>2. Prev' = Prev /\ Life' = Life /\ Life[c] \in {"up", "down"}
    BY Zenon, <1>1 DEF Prev, Life, LifeOf, PreLogin
<1>3. Flow' = Flow /\ Flow[c]
    BY <1>1 DEF Flow, HubTypeOK
<1>4. CASE /\ Queue[c] # <<>>
           /\ Wire' = [Wire EXCEPT ![c] = Append(@, Head(Queue[c]))]
           /\ Queue' = [Queue EXCEPT ![c] = Tail(@)]
  <2>1. Abstract!Flush(c)
      BY Zenon, <1>1, <1>2, <1>3, <1>4 DEF Abstract!Flush, Life, Prev, Flow, Queue, Wire
  <2> QED  BY <2>1
<1>5. CASE Queue' = Queue /\ Wire' = Wire
    BY Zenon, <1>1, <1>2, <1>3, <1>5, Stutters
<1> QED  BY Zenon, <1>4, <1>5, WriteMoves

\* A Send of a handler that succeeds is Put.
LEMMA PushImplements ==
    ASSUME LoopInv, NEW c \in Conn, NEW m \in Chat, Push(c, m)
    PROVE  Abstract!Environment \/ UNCHANGED Abstract!connVars
<1>1. /\ HubTypeOK /\ pc[c] \notin {"new", "register"}
      /\ UNCHANGED <<clients, pc, old, open, writer, frame, wire>>
    BY DEF LoopInv, RegistryInv, Push
<1>2. Prev' = Prev /\ Life' = Life /\ Flow' = Flow /\ Life[c] # "new"
    BY Zenon, <1>1 DEF Prev, Life, LifeOf, Flow
<1>3. Wire' = Wire
    BY <1>1, SameTraffic
<1>4. CASE SendOk(c, m)
  <2>1. Queue' = [Queue EXCEPT ![c] = Append(@, m)]
      BY Zenon, <1>1, <1>4, ChatSend
  <2>2. Abstract!Put(c, m)
      BY Zenon, <2>1 DEF Abstract!Put, Queue
  <2>3. UNCHANGED clients /\ Prev' = Prev /\ Life' = Life /\ Flow' = Flow /\ Wire' = Wire
      BY <1>1, <1>2, <1>3
  <2>4. Abstract!Environment
      BY Zenon, <1>2, <2>2, <2>3 DEF Abstract!Environment, Life, Prev, Flow, Wire
  <2> QED  BY Zenon, <2>4
<1>5. CASE SendErr(c)
  <2>1. Queue' = Queue
      BY Zenon, <1>1, <1>5, SameTraffic DEF SendErr
  <2> QED  BY Zenon, <1>1, <1>2, <1>3, <2>1, Stutters
<1> QED  BY Zenon, <1>4, <1>5 DEF Push, Send

\* The other steps are not seen by the users of Connections.
LEMMA QuietSteps ==
    ASSUME LoopInv, NEW c \in Conn,
           Dial(c) \/ RejectKick(c) \/ RejectClose(c) \/ KickOld(c) \/ CloseOld(c) \/ ReadFails(c)
           \/ CloseSelf(c) \/ TakeFrame(c)
    PROVE  UNCHANGED Abstract!connVars
<1>0. HubTypeOK /\ Kick \in Message /\ Kick \notin Chat
    BY NoFrameApart DEF LoopInv, RegistryInv, Message
<1>1. CASE Dial(c) \/ ReadFails(c) \/ CloseSelf(c)
  <2>1. /\ UNCHANGED <<clients, old, open, sendq, writer, frame, wire>>
        /\ \/ pc[c] = "new" /\ GoTo(c, "register")
           \/ pc[c] = "reading" /\ GoTo(c, "unregister")
           \/ pc[c] = "close" /\ GoTo(c, "gone")
      BY Zenon, <1>1 DEF Dial, ReadFails, CloseSelf
  <2>2. Prev' = Prev /\ Life' = Life /\ Flow' = Flow
      BY Zenon, <2>1, QuietMove
  <2> QED  BY Zenon, <2>1, <2>2, SameTraffic, Stutters
<1>2. CASE RejectKick(c) \/ KickOld(c)
  <2>1. /\ UNCHANGED <<clients, old, open, writer, frame, wire>>
        /\ pc[c] \in {"reject", "kick"} /\ \E w \in {"rejectClose", "closeOld"} : GoTo(c, w)
      BY Zenon, <1>2 DEF RejectKick, KickOld
  <2>2. PICK d \in Conn : Send(d, Kick)
      BY Zenon, <1>2 DEF RejectKick, KickOld, LoopInv, RegistryInv, OldSuperseded, HubTypeOK
  <2>3. Queue' = Queue
      BY Zenon, <1>0, <2>1, <2>2, QuietSend
  <2>4. Prev' = Prev /\ Life' = Life /\ Flow' = Flow
      BY Zenon, <2>1, QuietMove DEF PreLogin
  <2> QED  BY <2>1, <2>3, <2>4, SameTraffic, Stutters
<1>3. CASE RejectClose(c) \/ CloseOld(c)
  <2>1. /\ UNCHANGED <<clients, old, open, sendq, writer, frame, wire>>
        /\ pc[c] \in {"rejectClose", "closeOld"} /\ GoTo(c, "login")
      BY Zenon, <1>3 DEF RejectClose, CloseOld
  <2>2. Prev' = Prev /\ Life' = Life /\ Flow' = Flow
      BY Zenon, <2>1, QuietMove DEF PreLogin
  <2> QED  BY <2>1, <2>2, SameTraffic, Stutters
<1>4. CASE TakeFrame(c)
  <2>1. /\ UNCHANGED <<clients, pc, old, open, wire>>
        /\ writer[c] = "idle" /\ writer' = [writer EXCEPT ![c] = "writing"]
      BY Zenon, <1>4 DEF TakeFrame
  <2>2. Prev' = Prev /\ Life' = Life
      BY Zenon, <2>1 DEF Prev, Life, LifeOf
  <2>3. Flow' = Flow
      BY <1>0, <2>1 DEF Flow, HubTypeOK
  <2> QED  BY Zenon, <1>4, <2>1, <2>2, <2>3, TakeKeeps, SameTraffic, Stutters
<1> QED  BY Zenon, <1>1, <1>2, <1>3, <1>4

\* A gateway starts as Connections does.
LEMMA RefinesInit == HubInit => Abstract!ConnInit
<1> SUFFICES ASSUME HubInit PROVE Abstract!ConnInit
    OBVIOUS
<1>1. NoConn \notin Conn
    BY HubAssumption DEF HubAssumption
<1>2. Prev = [c \in Conn |-> NoConn] /\ Life = [c \in Conn |-> "new"] /\ Flow = [c \in Conn |-> TRUE]
    BY Zenon, <1>1 DEF HubInit, Prev, Life, LifeOf, Flow, PreLogin
<1>3. Chats(<<>>) = <<>>
  <2>1. <<>> \in Seq(Message) /\ Len(<<>>) = 0
      OBVIOUS
  <2>2. PICK f : f \in Listings(<<>>)
      BY Zenon, <2>1, ListingExists
  <2>3. PICK n \in 0..Len(<<>>) : f \in [1..n -> 1..Len(<<>>)]
      BY Zenon, <2>1, <2>2, ListingForm
  <2>4. n = 0 /\ Chats(<<>>) = [i \in 1..n |-> (<<>>)[f[i]]]
      BY <2>1, <2>2, <2>3, ChatsListed
  <2> QED  BY <2>4
<1>4. \A c \in Conn : Outbound(c) = <<>> \o <<>> /\ wire[c] = <<>>
    BY DEF HubInit, Outbound
<1>5. Queue = [c \in Conn |-> <<>>] /\ Wire = [c \in Conn |-> <<>>]
    BY <1>3, <1>4 DEF Queue, Wire
<1> QED  BY Zenon, <1>2, <1>5 DEF HubInit, Abstract!ConnInit, Prev, Life, Flow, Queue, Wire

\* The registry, the kick and the write loop implement Connections: every
\* behaviour of hub.go, client.go and server_ws.go as modelled, with the sends of
\* the handlers, is one of Connections when the goroutine steps, the kicks and
\* the login responses are left out.  This holds for every number of users and
\* connections, every buffer size and connection limit.
THEOREM RegistryImplements == ImplSpec => ImplementsConnections
<1>1. HubInit => LoopInv
    BY RegistryInit DEF HubInit, LoopInv, NotYetOld, WriterAfterLogin, IdleIsEmpty
<1>2. LoopInv /\ [ImplNext]_hubVars => [Abstract!ConnNext]_(Abstract!connVars)
  <2> SUFFICES ASSUME LoopInv, [ImplNext]_hubVars
               PROVE  Abstract!ConnNext \/ UNCHANGED Abstract!connVars
      OBVIOUS
  <2>1. CASE UNCHANGED hubVars
    <3>1. clients' = clients /\ Prev' = Prev /\ Life' = Life /\ Flow' = Flow /\ UNCHANGED <<sendq, frame, wire>>
        BY <2>1 DEF hubVars, Prev, Life, LifeOf, Flow
    <3> QED  BY Zenon, <3>1, SameTraffic, Stutters
  <2>2. ASSUME NEW c \in Conn, ConnStep(c) \/ ReadFails(c) \/ TransportClose(c) \/ WriterStep(c)
        PROVE  Abstract!ConnNext \/ UNCHANGED Abstract!connVars
    <3>1. \/ UNCHANGED Abstract!connVars
          \/ Abstract!Accept(c) \/ Abstract!Refuse(c) \/ Abstract!Greet(c) \/ Abstract!Disconnect(c)
          \/ Abstract!Sever(c) \/ Abstract!Flush(c)
        BY Zenon, <2>2, QuietSteps, RegisterImplements, LoginImplements, UnregisterImplements,
           TransportCloseImplements, WriterReturnsImplements, WriteFrameImplements
           DEF ConnStep, WriterStep
    <3> QED  BY Zenon, <3>1 DEF Abstract!ConnNext, Abstract!ConnStep
  <2>3. ASSUME NEW c \in Conn, NEW m \in Chat, Push(c, m)
        PROVE  Abstract!ConnNext \/ UNCHANGED Abstract!connVars
      BY <2>3, PushImplements DEF Abstract!ConnNext
  <2> QED  BY <2>1, <2>2, <2>3 DEF ImplNext, HubNext
<1> QED  BY <1>1, <1>2, LoopStep, RefinesInit, PTL DEF ImplSpec, ImplementsConnections, Abstract!ConnSpec
=============================================================================
