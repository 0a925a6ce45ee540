---------------------------- MODULE StoreProofs -----------------------------
(***************************************************************************)
(* What the stores keep: groups and messages.                              *)
(*                                                                         *)
(* The group store and the requests on it, for any number of users and of  *)
(* requests at the same time, in memory, in MySQL and behind Logic.        *)
(* GroupHasMembers is not inductive: a MySQL operation writes on what its  *)
(* snapshot said.  Snapshot(h) says that it holds still as long as no      *)
(* write has come in between, which is what overlapped records.            *)
(*                                                                         *)
(* Persistence for any number of messages, workers and crashes and any     *)
(* sizes of the queue, of the buffer and of the topic.                     *)
(* UntriedIsRedelivered is not inductive.  Commits come from three places  *)
(* (a flush, a message cut off the full buffer, a malformed record), late  *)
(* and in any order; none of them passes what is in the buffer, because    *)
(* the buffer is sorted and everything that left it is older: Ordered.     *)
(* RecallSticks rests on INSERT IGNORE alone.                              *)
(***************************************************************************)
EXTENDS Groups, Persistence, FiniteSetTheorems, WellFoundedInduction, TLAPS

-----------------------------------------------------------------------------
(* Groups                                                                  *)


Writing == {"insert", "delete", "update"}

RequestType ==
    [cmd : {"none", "create", "join", "leave", "invite", "kick", "rename", "transfer"},
     via : {"local", "grpc"},
     by : User \cup {None}, tgt : User \cup {None},
     at : {"idle", "owner", "add", "insert", "remove", "delete",
           "rename", "transfer", "update", "read", "announce"},
     last : {"yes", "no"}, list : SUBSET User]

\* Where a request of each kind may be, and what it carries.
Course(h) ==
    LET r == op[h] IN
    /\ r.cmd = "none" => r.at = "idle"
    /\ r.cmd = "create" => r.at \in {"add", "insert", "announce"} /\ r.via = "local"
    /\ r.cmd = "join" => r.at \in {"add", "insert", "read", "announce"} /\ r.by = r.tgt
    /\ r.cmd = "leave" => r.at \in {"remove", "delete", "read", "announce"}
    /\ r.cmd = "invite" => r.at \in {"owner", "add", "insert", "read", "announce"}
    /\ r.cmd = "kick" => r.at \in {"owner", "remove", "delete", "announce"} /\ r.via = "local"
    /\ r.cmd = "rename" => r.at \in {"owner", "rename", "announce"}
    /\ r.cmd = "transfer" => r.at \in {"transfer", "update", "announce"} /\ r.via = "local"
    /\ r.cmd # "none" => r.by \in User /\ r.tgt \in User /\ owner # "new"
    /\ InMemory => r.at \notin Writing

\* What the snapshot of a MySQL operation said holds still.
Snapshot(h) ==
    LET r == op[h] IN
    /\ r.at \in Writing => Exists
    /\ r.at = "delete" => (r.last = "yes" <=> Cardinality(members) <= 1)
    /\ r.at = "update" => owner = r.by /\ r.tgt \in members

\* Members that a request must tell of an addition are in the list it has read.
Listed(h) ==
    LET r == op[h] IN
    r.at = "announce" /\ r.via = "grpc" /\ r.cmd \in {"join", "invite"}
        => since[h] \subseteq r.list \/ owner = "gone"

\* OnlyOwnerActs, of one request.
ByOwner(h) ==
    \/ op[h].cmd \in {"invite", "kick", "rename"}
          /\ op[h].at \in {"add", "insert", "remove", "delete", "rename", "read", "announce"}
    \/ op[h].cmd = "transfer" /\ op[h].at \in {"update", "announce"}
    => op[h].by \in owners[h]

GroupsInv ==
    /\ GroupsTypeOK
    /\ IsFiniteSet(members)
    /\ owner = "new" => members = {}
    /\ GroupHasMembers
    /\ JoinIsAnnounced
    /\ overlapped = "no" => \A h \in Handler : Snapshot(h)
    /\ \A h \in Handler : /\ Course(h)
                          /\ Listed(h)
                          /\ ByOwner(h)
                          /\ since[h] \subseteq members

\* What a request may do to the group: it exists once, and a group that is gone
\* stays gone.
Lives ==
    /\ members' \in SUBSET User /\ IsFiniteSet(members')
    /\ owner' \in User \cup {"new", "gone"}
    /\ owner = "gone" => owner' = "gone"
    /\ owner # "new" => owner' # "new"
    /\ owner' = "new" => members' = {}

\* What Track makes of the histories when only h moves.
LEMMA Histories ==
    ASSUME GroupsInv, NEW h \in Handler, Track, Lives, op' \in [Handler -> RequestType],
           \A g \in Handler \ {h} : op'[g] = op[g]
    PROVE  /\ store' = store
           /\ owners' \in [Handler -> SUBSET (User \cup {"new", "gone"})]
           /\ since' \in [Handler -> SUBSET User]
           /\ overlapped' \in {"yes", "no"}
           /\ \A g \in Handler : since'[g] \subseteq members'
           /\ \A g \in Handler : op[g].at \notin {"add", "insert"} => since'[g] \subseteq since[g]
           /\ \A g \in Handler : op'[g].at # "idle" =>
                                    owners[g] \subseteq owners'[g] /\ owner \in owners'[g]
           /\ overlapped' = "no" => overlapped = "no"
           /\ overlapped' = "no" /\ <<owner', members'>> # <<owner, members>>
                 => \A g \in Handler \ {h} : op[g].at \notin Writing
<1>1. store' = store
    BY DEF Track
<1>2. owners' = [g \in Handler |->
                    IF op'[g].at # "idle" THEN owners[g] \cup {owner, owner'} ELSE {}]
    BY DEF Track, Active
<1>3. owner \in User \cup {"new", "gone"} /\ owners \in [Handler -> SUBSET (User \cup {"new", "gone"})]
    BY DEF GroupsInv, GroupsTypeOK
<1>4. owners' \in [Handler -> SUBSET (User \cup {"new", "gone"})]
    BY <1>2, <1>3 DEF Lives
<1>5. since' = [g \in Handler |->
                   IF op'[g].at = "idle" THEN {}
                   ELSE IF Adds(g) THEN members' ELSE since[g] \cap members']
    BY DEF Track, Active
<1>6. since' \in [Handler -> SUBSET User]
    BY <1>5 DEF Lives
<1>7. \A g \in Handler : since'[g] \subseteq members'
    BY <1>5
<1>8. \A g \in Handler : op[g].at \notin {"add", "insert"} => since'[g] \subseteq since[g]
    BY <1>5 DEF Adds
<1>9. \A g \in Handler : op'[g].at # "idle" => owners[g] \subseteq owners'[g] /\ owner \in owners'[g]
    BY <1>2
<1>10. overlapped \in {"yes", "no"}
    BY DEF GroupsInv, GroupsTypeOK
<1>11. overlapped' = IF /\ <<owner', members'>> # <<owner, members>>
                        /\ \E g \in Handler : op[g].at \in Writing /\ op'[g] = op[g]
                     THEN "yes" ELSE overlapped
    BY DEF Track, Writing
<1> QED  BY <1>1, <1>4, <1>6, <1>7, <1>8, <1>9, <1>10, <1>11

\* When h moves, and its request and the group are as they should be, then so are
\* the requests of the others.
LEMMA OthersKeep ==
    ASSUME GroupsInv, NEW h \in Handler, Track, Lives, op' \in [Handler -> RequestType],
           \A g \in Handler \ {h} : op'[g] = op[g],
           GroupHasMembers', JoinIsAnnounced',
           overlapped' = "no" => Snapshot(h)',
           Course(h)', Listed(h)', ByOwner(h)'
    PROVE  GroupsInv'
<1>1. GroupsTypeOK'
    BY Zenon, Histories DEF GroupsTypeOK, GroupsInv, Lives, RequestType, JoinIsAnnounced
<1>2. ASSUME NEW g \in Handler \ {h}
      PROVE  Course(g)' /\ Listed(g)' /\ ByOwner(g)' /\ (overlapped' = "no" => Snapshot(g)')
  <2>1. op'[g] = op[g] /\ Course(g) /\ Listed(g) /\ ByOwner(g) /\ store' = store
      BY Histories DEF GroupsInv
  <2>2. Course(g)'
      BY <2>1 DEF Course, Lives, InMemory
  <2>3. Listed(g)'
    <3>1. op[g].at = "announce" => since'[g] \subseteq since[g]
        BY Histories
    <3> QED  BY <2>1, <3>1 DEF Listed, Lives
  <2>4. ByOwner(g)'
    <3>1. op[g].at # "idle" => owners[g] \subseteq owners'[g]
        BY <2>1, Histories
    <3> QED  BY <2>1, <3>1 DEF ByOwner
  <2>5. ASSUME overlapped' = "no" PROVE Snapshot(g)'
    <3>1. overlapped = "no" /\ Snapshot(g)
        BY <2>5, Histories DEF GroupsInv
    <3>2. op[g].at \in Writing => owner' = owner /\ members' = members
        BY <2>5, Histories
    <3> QED  BY Zenon, <2>1, <3>1, <3>2 DEF Snapshot, Exists, Writing
  <2> QED  BY <2>2, <2>3, <2>4, <2>5
<1>3. \A g \in Handler : since'[g] \subseteq members'
    BY Histories
<1> QED  BY <1>1, <1>2, <1>3 DEF GroupsInv, Lives

\* A step that leaves the group alone.
LEMMA QuietKeeps ==
    ASSUME GroupsInv, NEW h \in Handler, NoChange, op' \in [Handler -> RequestType],
           \A g \in Handler \ {h} : op'[g] = op[g],
           overlapped = "no" => Snapshot(h)',
           Course(h)', Listed(h)', ByOwner(h)'
    PROVE  GroupsInv'
<1>1. owner' = owner /\ members' = members /\ missed' = missed /\ Track
    BY DEF NoChange
<1>2. Lives
    BY <1>1 DEF Lives, GroupsInv, GroupsTypeOK
<1>3. overlapped' = overlapped /\ store' = store
    BY <1>1 DEF Track
<1>4. GroupHasMembers' /\ JoinIsAnnounced'
    BY <1>1, <1>3 DEF GroupsInv, GroupHasMembers, JoinIsAnnounced, InMemory, Exists
<1> QED  BY <1>1, <1>2, <1>3, <1>4, OthersKeep

\* A request that moves on keeps what it carries.
LEMMA GotoMoves ==
    ASSUME GroupsTypeOK, NEW h \in Handler, NEW where, Goto(h, where),
           where \in {"owner", "add", "insert", "remove", "delete", "rename", "transfer",
                      "update", "read", "announce"}
    PROVE  /\ op' \in [Handler -> RequestType]
           /\ \A g \in Handler \ {h} : op'[g] = op[g]
           /\ op'[h] = [op[h] EXCEPT !.at = where]
           /\ op'[h].at = where /\ op'[h].cmd = op[h].cmd /\ op'[h].via = op[h].via
           /\ op'[h].by = op[h].by /\ op'[h].tgt = op[h].tgt
           /\ op'[h].last = op[h].last /\ op'[h].list = op[h].list
BY DEF GroupsTypeOK, RequestType, Goto

\* A request that has ended is as it should be.
LEMMA EndMoves ==
    ASSUME GroupsTypeOK, NEW h \in Handler, End(h)
    PROVE  /\ op' \in [Handler -> RequestType]
           /\ \A g \in Handler \ {h} : op'[g] = op[g]
           /\ Course(h)' /\ Listed(h)' /\ ByOwner(h)' /\ Snapshot(h)'
<1>1. Idle \in RequestType
    BY DEF Idle, RequestType
<1>2. op'[h] = Idle /\ op' \in [Handler -> RequestType] /\ \A g \in Handler \ {h} : op'[g] = op[g]
    BY <1>1 DEF End, GroupsTypeOK, RequestType
<1>3. Course(h)' /\ Listed(h)' /\ ByOwner(h)' /\ Snapshot(h)'
    BY <1>2 DEF Course, Listed, ByOwner, Snapshot, Idle, Writing
<1> QED  BY <1>2, <1>3

\* A request that ends without an effect.
LEMMA EndKeeps ==
    ASSUME GroupsInv, NEW h \in Handler, End(h), NoChange
    PROVE  GroupsInv'
BY EndMoves, QuietKeeps DEF GroupsInv

\* A request begins.
LEMMA RequestKeeps ==
    ASSUME GroupsInv, NEW h \in Handler, NEW u \in User, NEW v \in User,
           NEW cmd, NEW via \in {"local", WebSocket}, NEW where,
           \/ cmd = "join" /\ where = "add" /\ u = v
           \/ cmd = "leave" /\ where = "remove"
           \/ cmd = "invite" /\ where = "owner"
           \/ cmd \in {"kick", "rename"} /\ where = "owner" /\ via = "local"
           \/ cmd = "transfer" /\ where = "transfer" /\ via = "local",
           Request(h, cmd, via, u, v, where)
    PROVE  GroupsInv'
<1> DEFINE r == [Idle EXCEPT !.cmd = cmd, !.via = via, !.by = u, !.tgt = v, !.at = where]
<1>1. r \in RequestType
    BY Zenon DEF Idle, RequestType, WebSocket
<1>2. /\ op' \in [Handler -> RequestType]
      /\ \A g \in Handler \ {h} : op'[g] = op[g]
      /\ op'[h] = r
    BY <1>1 DEF Request, GroupsInv, GroupsTypeOK, RequestType
<1>3. r.cmd = cmd /\ r.via = via /\ r.by = u /\ r.tgt = v /\ r.at = where
    BY DEF Idle
<1>4. NoChange /\ owner # "new" /\ owner' = owner
    BY DEF Request, NoChange
<1> HIDE DEF r
<1>5. Course(h)' /\ Listed(h)' /\ ByOwner(h)' /\ Snapshot(h)'
    BY <1>2, <1>3, <1>4 DEF Course, Listed, ByOwner, Snapshot, Writing
<1> QED  BY <1>2, <1>4, <1>5, QuietKeeps

\* The group is created, with its owner among the members.
LEMMA CreateKeeps ==
    ASSUME GroupsInv, NEW h \in Handler, NEW u \in User, NEW v \in User,
           NEW m, NEW where, \/ m = {u} /\ where = "add"
                             \/ m = {u, v} /\ where = "announce",
           CreateWith(h, u, v, m, where)
    PROVE  GroupsInv'
<1> DEFINE r == [Idle EXCEPT !.cmd = "create", !.by = u, !.tgt = v, !.at = where, !.list = m]
<1>1. owner = "new" /\ owner' = u /\ members' = m /\ missed' = missed /\ Track
    BY DEF CreateWith
<1>2. Lives
  <2>1. IsFiniteSet({u}) /\ IsFiniteSet({u} \cup {v}) /\ {u} \cup {v} = {u, v}
      BY Zenon, FS_Singleton, FS_AddElement
  <2> QED  BY <1>1, <2>1, GroupsAssumption DEF Lives, GroupsAssumption
<1>3. GroupHasMembers' /\ JoinIsAnnounced'
    BY <1>1 DEF GroupHasMembers, JoinIsAnnounced, GroupsInv, Exists
<1>4. op[h].cmd = "none" /\ op[h].at = "idle"
    BY DEF CreateWith, Idle
<1>5. CASE v = u
  <2>1. op' = op
      BY <1>5 DEF CreateWith
  <2>2. op' \in [Handler -> RequestType] /\ \A g \in Handler \ {h} : op'[g] = op[g]
      BY <2>1 DEF GroupsInv, GroupsTypeOK, RequestType
  <2>3. Course(h)' /\ Listed(h)' /\ ByOwner(h)' /\ Snapshot(h)'
      BY <1>4, <2>1 DEF Course, Listed, ByOwner, Snapshot, Writing
  <2> QED  BY <1>1, <1>2, <1>3, <2>2, <2>3, OthersKeep
<1>6. CASE v # u
  <2>1. r \in RequestType
      BY Zenon DEF Idle, RequestType
  <2>2. /\ op' \in [Handler -> RequestType]
        /\ \A g \in Handler \ {h} : op'[g] = op[g]
        /\ op'[h] = r
      BY <1>6, <2>1 DEF CreateWith, GroupsInv, GroupsTypeOK, RequestType
  <2>3. r.cmd = "create" /\ r.via = "local" /\ r.by = u /\ r.tgt = v /\ r.at = where
      BY DEF Idle
  <2> HIDE DEF r
  <2>4. u # "new"
      BY GroupsAssumption DEF GroupsAssumption
  <2>5. Course(h)' /\ Listed(h)' /\ ByOwner(h)' /\ Snapshot(h)'
      BY <1>1, <2>2, <2>3, <2>4 DEF Course, Listed, ByOwner, Snapshot, Writing
  <2> QED  BY <1>1, <1>2, <1>3, <2>2, <2>5, OthersKeep
<1> QED  BY <1>5, <1>6

\* Get compares the owner with the requester, who thereby owned the group.
LEMMA GetKeeps ==
    ASSUME GroupsInv, NEW h \in Handler, Get(h)
    PROVE  GroupsInv'
<1>1. op[h].at = "owner" /\ NoChange /\ GroupsTypeOK /\ Course(h)
    BY DEF Get, GroupsInv
<1>2. CASE owner = op[h].by
  <2>1. PICK where : /\ Goto(h, where)
                     /\ \/ op[h].cmd = "invite" /\ where = "add"
                        \/ op[h].cmd = "kick" /\ where = "remove"
                        \/ op[h].cmd = "rename" /\ where = "rename"
    <3>1. op[h].cmd \in {"invite", "kick", "rename"}
        BY <1>1 DEF Course, GroupsTypeOK
    <3> QED  BY <1>2, <3>1 DEF Get, AfterOwner
  <2>2. /\ op' \in [Handler -> RequestType]
        /\ \A g \in Handler \ {h} : op'[g] = op[g]
        /\ op'[h].at = where /\ op'[h].cmd = op[h].cmd /\ op'[h].via = op[h].via
        /\ op'[h].by = op[h].by /\ op'[h].tgt = op[h].tgt
      BY Zenon, <1>1, <2>1, GotoMoves
  <2>3. Course(h)' /\ Listed(h)' /\ Snapshot(h)'
      BY <1>1, <2>1, <2>2 DEF Course, Listed, Snapshot, Writing, NoChange
  <2>4. Lives
      BY <1>1 DEF NoChange, Lives, GroupsInv, GroupsTypeOK
  <2>5. owner \in owners'[h]
      BY <1>1, <2>1, <2>2, <2>4, Histories DEF NoChange
  <2>6. ByOwner(h)'
      BY <1>2, <2>2, <2>5 DEF ByOwner
  <2> QED  BY <1>1, <2>2, <2>3, <2>6, QuietKeeps
<1>3. CASE owner # op[h].by
    BY Zenon, <1>1, <1>3, EndKeeps DEF Get
<1> QED  BY <1>2, <1>3

\* A user is added to a group that exists, or did at the snapshot.
LEMMA InsertKeeps ==
    ASSUME GroupsInv, NEW h \in Handler, op[h].at \in {"add", "insert"},
           Insert(h), UNCHANGED <<owner, missed>>, Track,
           InMemory => Exists, ~InMemory => op[h].at = "insert"
    PROVE  GroupsInv'
<1>1. GroupsTypeOK /\ Course(h)
    BY DEF GroupsInv
<1>2. op[h].cmd \in {"create", "join", "invite"} /\ op[h].tgt \in User
    BY <1>1 DEF Course, GroupsTypeOK
<1>3. /\ op' \in [Handler -> RequestType]
      /\ \A g \in Handler \ {h} : op'[g] = op[g]
      /\ op'[h].at = IF op[h].via = "grpc" THEN "read" ELSE "announce"
      /\ op'[h].cmd = op[h].cmd /\ op'[h].via = op[h].via
      /\ op'[h].by = op[h].by /\ op'[h].tgt = op[h].tgt
  <2> DEFINE at == IF op[h].via = "grpc" THEN "read" ELSE "announce"
             list == IF op[h].cmd = "create" THEN op[h].list \cup {op[h].tgt} ELSE op[h].list
  <2>1. op' = [op EXCEPT ![h] = [op[h] EXCEPT !.at = at, !.list = list]]
      BY Zenon, <1>1 DEF Insert, GroupsTypeOK
  <2>2. at \in {"read", "announce"} /\ list \in SUBSET User
      BY <1>1, <1>2 DEF GroupsTypeOK
  <2> HIDE DEF at, list
  <2>3. /\ op' \in [Handler -> RequestType]
        /\ \A g \in Handler \ {h} : op'[g] = op[g]
        /\ op'[h].at = at /\ op'[h].cmd = op[h].cmd /\ op'[h].via = op[h].via
        /\ op'[h].by = op[h].by /\ op'[h].tgt = op[h].tgt
    <3> DEFINE r == [op[h] EXCEPT !.at = at, !.list = list]
    <3>1. op \in [Handler -> RequestType]
        BY <1>1 DEF GroupsTypeOK, RequestType
    <3>2. /\ r \in RequestType
          /\ r.at = at /\ r.cmd = op[h].cmd /\ r.via = op[h].via
          /\ r.by = op[h].by /\ r.tgt = op[h].tgt
        BY Zenon, <2>2, <3>1 DEF RequestType
    <3> HIDE DEF r
    <3> QED  BY <2>1, <3>1, <3>2 DEF r
  <2> QED  BY <2>3 DEF at
<1>4. members' = members \cup {op[h].tgt}
    BY DEF Insert
<1>5. Lives
  <2>1. IsFiniteSet(members')
      BY Zenon, <1>4, FS_AddElement DEF GroupsInv
  <2>2. owner # "new"
      BY <1>1, <1>2 DEF Course
  <2> QED  BY <1>1, <1>2, <1>4, <2>1, <2>2 DEF Lives, GroupsTypeOK
<1>6. store' = store /\ (overlapped' = "no" => overlapped = "no")
    BY <1>3, <1>5, Histories
<1>7. GroupHasMembers'
  <2>1. overlapped = "no" /\ ~InMemory => Exists
      BY Zenon DEF GroupsInv, Snapshot, Writing
  <2> QED  BY Zenon, <1>4, <1>6, <2>1 DEF GroupHasMembers, InMemory, Exists
<1>8. Course(h)' /\ Listed(h)' /\ Snapshot(h)'
    BY Zenon, <1>1, <1>2, <1>3, <1>6 DEF Course, Listed, Snapshot, Writing, InMemory
<1>9. ByOwner(h)'
  <2>1. op'[h].at # "idle" => owners[h] \subseteq owners'[h]
      BY <1>3, <1>5, Histories
  <2>2. ByOwner(h)
      BY DEF GroupsInv
  <2> QED  BY <1>2, <1>3, <2>1, <2>2 DEF ByOwner
<1> QED  BY <1>3, <1>5, <1>7, <1>8, <1>9, OthersKeep DEF GroupsInv, JoinIsAnnounced

\* Adding fails: creation through Logic carries on, every other request ends.
LEMMA AddFailsKeeps ==
    ASSUME GroupsInv, NEW h \in Handler, op[h].at \in {"add", "insert"},
           AddFails(h), UNCHANGED <<owner, missed>>, Track
    PROVE  GroupsInv'
<1>1. NoChange /\ GroupsTypeOK /\ Course(h)
    BY DEF AddFails, NoChange, GroupsInv
<1>2. CASE op[h].cmd = "create"
  <2>1. /\ op' \in [Handler -> RequestType]
        /\ \A g \in Handler \ {h} : op'[g] = op[g]
        /\ op'[h].at = "announce" /\ op'[h].cmd = op[h].cmd /\ op'[h].via = op[h].via
        /\ op'[h].by = op[h].by /\ op'[h].tgt = op[h].tgt
    <3>1. Goto(h, "announce")
        BY Zenon, <1>2 DEF AddFails
    <3> QED  BY Zenon, <1>1, <3>1, GotoMoves
  <2>2. Course(h)' /\ Listed(h)' /\ Snapshot(h)' /\ ByOwner(h)'
      BY <1>1, <1>2, <2>1 DEF Course, Listed, Snapshot, ByOwner, Writing, NoChange
  <2> QED  BY <1>1, <2>1, <2>2, QuietKeeps
<1>3. CASE op[h].cmd # "create"
    BY <1>1, <1>3, EndKeeps DEF AddFails
<1> QED  BY <1>2, <1>3

\* AddMember of the store in memory and of the one in MySQL.
LEMMA AddKeeps ==
    ASSUME GroupsInv, NEW h \in Handler,
           AddMember(h) \/ AddMemberCheck(h) \/ AddMemberInsert(h)
    PROVE  GroupsInv'
<1>1. CASE AddMember(h)
    BY <1>1, InsertKeeps, AddFailsKeeps DEF AddMember
<1>2. CASE AddMemberCheck(h)
  <2>1. CASE Exists
    <3>1. NoChange /\ Goto(h, "insert") /\ op[h].at = "add" /\ ~InMemory /\ GroupsTypeOK /\ Course(h)
        BY <1>2, <2>1 DEF AddMemberCheck, NoChange, GroupsInv
    <3>2. /\ op' \in [Handler -> RequestType]
          /\ \A g \in Handler \ {h} : op'[g] = op[g]
          /\ op'[h].at = "insert" /\ op'[h].cmd = op[h].cmd /\ op'[h].via = op[h].via
          /\ op'[h].by = op[h].by /\ op'[h].tgt = op[h].tgt
        BY Zenon, <3>1, GotoMoves
    <3>3. owner' = owner /\ store' = store
        BY Zenon, <3>1 DEF NoChange, Track
    <3>4. Course(h)' /\ Listed(h)' /\ Snapshot(h)'
        BY Zenon, <2>1, <3>1, <3>2, <3>3 DEF Course, Listed, Snapshot, Exists, InMemory
    <3>5. ByOwner(h)'
      <4>1. Lives
          BY Zenon, <3>1 DEF NoChange, Lives, GroupsInv, GroupsTypeOK
      <4>2. owners[h] \subseteq owners'[h]
          BY Zenon, <3>1, <3>2, <4>1, Histories DEF NoChange
      <4>3. ByOwner(h)
          BY DEF GroupsInv
      <4> QED  BY Zenon, <3>1, <3>2, <4>2, <4>3 DEF ByOwner
    <3> QED  BY Zenon, <3>1, <3>2, <3>4, <3>5, QuietKeeps
  <2>2. CASE ~Exists
      BY <1>2, <2>2, AddFailsKeeps DEF AddMemberCheck
  <2> QED  BY Zenon, <2>1, <2>2
<1>3. CASE AddMemberInsert(h)
  <2>1. op[h].at = "insert" /\ ~InMemory
      BY <1>3 DEF AddMemberInsert, GroupsInv, Course, Writing
  <2> QED  BY Zenon, <1>3, <2>1, InsertKeeps, AddFailsKeeps DEF AddMemberInsert
<1> QED  BY <1>1, <1>2, <1>3

\* The last member takes the group along.
LEMMA RemoveKeeps ==
    ASSUME GroupsInv, NEW h \in Handler, op[h].at \in {"remove", "delete"},
           NEW removes \in BOOLEAN, NEW deletes \in BOOLEAN, RemoveOrFail(h, removes, deletes),
           removes => op[h].tgt \in members,
           removes /\ (InMemory \/ overlapped = "no")
               => Exists /\ (deletes <=> members = {op[h].tgt})
    PROVE  GroupsInv'
<1>1. GroupsTypeOK /\ Course(h) /\ Track /\ missed' = missed
    BY DEF GroupsInv, RemoveOrFail
<1>2. CASE removes
  <2>1. /\ members' = members \ {op[h].tgt}
        /\ owner' = IF deletes THEN "gone" ELSE owner
      BY <1>2 DEF RemoveOrFail
  <2>2. PICK where \in {"read", "announce"} :
            Goto(h, where) /\ (op[h].via = "grpc" => where = "read")
      BY <1>2 DEF RemoveOrFail
  <2>3. /\ op' \in [Handler -> RequestType]
        /\ \A g \in Handler \ {h} : op'[g] = op[g]
        /\ op'[h].at = where /\ op'[h].cmd = op[h].cmd /\ op'[h].via = op[h].via
        /\ op'[h].by = op[h].by /\ op'[h].tgt = op[h].tgt
        /\ op[h].via = "local" => where = "announce"
    <3>1. /\ op' \in [Handler -> RequestType]
          /\ \A g \in Handler \ {h} : op'[g] = op[g]
          /\ op'[h].at = where /\ op'[h].cmd = op[h].cmd /\ op'[h].via = op[h].via
          /\ op'[h].by = op[h].by /\ op'[h].tgt = op[h].tgt
        BY Zenon, <1>1, <2>2, GotoMoves
    <3>2. op[h].via = "local" => Goto(h, "announce")
        BY <1>2 DEF RemoveOrFail
    <3>3. op[h].via = "local" => op'[h].at = "announce"
        BY Zenon, <1>1, <3>2, GotoMoves
    <3> QED  BY <3>1, <3>3
  <2>4. op[h].cmd \in {"leave", "kick"}
      BY <1>1 DEF Course, GroupsTypeOK
  <2>5. Lives
    <3>1. IsFiniteSet(members')
        BY <2>1, FS_RemoveElement DEF GroupsInv
    <3>2. owner # "new"
        BY <1>1, <2>4 DEF Course
    <3> QED  BY <1>1, <2>1, <3>1, <3>2 DEF Lives, GroupsTypeOK
  <2>6. store' = store /\ (overlapped' = "no" => overlapped = "no")
      BY <1>1, <2>3, <2>5, Histories
  <2>7. GroupHasMembers'
    <3>1. "gone" \notin User
        BY Zenon, GroupsAssumption DEF GroupsAssumption
    <3> QED  BY <1>2, <2>1, <2>6, <3>1 DEF GroupHasMembers, InMemory, Exists
  <2>8. Course(h)'
    <3>1. owner' # "new"
        BY Zenon, <1>1, <2>4, <2>5 DEF Course, Lives
    <3> QED  BY Zenon, <1>1, <2>3, <2>4, <3>1 DEF Course, Writing
  <2>9. Listed(h)' /\ Snapshot(h)'
      BY <2>3, <2>4 DEF Listed, Snapshot, Writing
  <2>10. ByOwner(h)'
    <3>1. owners[h] \subseteq owners'[h]
        BY Zenon, <1>1, <2>3, <2>5, Histories
    <3>2. ByOwner(h)
        BY DEF GroupsInv
    <3> QED  BY Zenon, <2>3, <2>4, <3>1, <3>2 DEF ByOwner
  <2> QED  BY Zenon, <1>1, <2>3, <2>5, <2>7, <2>8, <2>9, <2>10, OthersKeep DEF GroupsInv, JoinIsAnnounced
<1>3. CASE ~removes
    BY <1>1, <1>3, EndKeeps DEF RemoveOrFail, NoChange
<1> QED  BY Zenon, <1>2, <1>3

\* RemoveMember of the store in memory and of the one in MySQL.
LEMMA RemovalKeeps ==
    ASSUME GroupsInv, NEW h \in Handler,
           RemoveMember(h) \/ RemoveMemberCount(h) \/ RemoveMemberDelete(h)
    PROVE  GroupsInv'
<1>1. CASE RemoveMember(h)
    BY Zenon, <1>1, RemoveKeeps DEF RemoveMember
<1>2. CASE RemoveMemberCount(h)
  <2>1. NoChange /\ op[h].at = "remove" /\ ~InMemory /\ GroupsTypeOK /\ Course(h)
      BY <1>2 DEF RemoveMemberCount, GroupsInv
  <2>2. CASE Exists
    <3> DEFINE few == IF Cardinality(members) <= 1 THEN "yes" ELSE "no"
    <3>1. op' = [op EXCEPT ![h].at = "delete", ![h].last = few]
        BY <1>2, <2>2 DEF RemoveMemberCount
    <3>2. few \in {"yes", "no"} /\ (few = "yes" <=> Cardinality(members) <= 1)
        OBVIOUS
    <3> HIDE DEF few
    <3>3. /\ op' \in [Handler -> RequestType]
          /\ \A g \in Handler \ {h} : op'[g] = op[g]
          /\ op'[h].at = "delete" /\ op'[h].cmd = op[h].cmd /\ op'[h].via = op[h].via
          /\ op'[h].by = op[h].by /\ op'[h].tgt = op[h].tgt /\ op'[h].last = few
      <4> DEFINE r == [op[h] EXCEPT !.at = "delete", !.last = few]
      <4>1. op \in [Handler -> RequestType]
          BY <2>1 DEF GroupsTypeOK, RequestType
      <4>2. /\ r \in RequestType
            /\ r.at = "delete" /\ r.cmd = op[h].cmd /\ r.via = op[h].via
            /\ r.by = op[h].by /\ r.tgt = op[h].tgt /\ r.last = few
          BY Zenon, <3>2, <4>1 DEF RequestType
      <4>3. op' = [op EXCEPT ![h] = r]
          BY Zenon, <3>1, <4>1
      <4> HIDE DEF r
      <4> QED  BY <4>1, <4>2, <4>3
    <3>4. owner' = owner /\ store' = store /\ members' = members
        BY <2>1 DEF NoChange, Track
    <3>5. op[h].cmd \in {"leave", "kick"}
        BY <2>1 DEF Course, GroupsTypeOK
    <3>6. Course(h)'
        BY Zenon, <2>1, <3>3, <3>4, <3>5 DEF Course, InMemory
    <3>7. Listed(h)' /\ Snapshot(h)'
        BY Zenon, <2>2, <3>2, <3>3, <3>4 DEF Listed, Snapshot, Exists
    <3>8. ByOwner(h)'
      <4>1. Lives
          BY Zenon, <2>1 DEF NoChange, Lives, GroupsInv, GroupsTypeOK
      <4>2. owners[h] \subseteq owners'[h]
          BY Zenon, <2>1, <3>3, <4>1, Histories DEF NoChange
      <4>3. ByOwner(h)
          BY DEF GroupsInv
      <4> QED  BY Zenon, <2>1, <3>3, <3>5, <4>2, <4>3 DEF ByOwner
    <3> QED  BY <2>1, <3>3, <3>6, <3>7, <3>8, QuietKeeps
  <2>3. CASE ~Exists
      BY Zenon, <1>2, <2>1, <2>3, EndKeeps DEF RemoveMemberCount
  <2> QED  BY <2>2, <2>3
<1>3. CASE RemoveMemberDelete(h)
  <2>1. op[h].at = "delete" /\ ~InMemory
      BY Zenon, <1>3 DEF RemoveMemberDelete, GroupsInv, Course, Writing
  <2>2. overlapped = "no" => Exists /\ (op[h].last = "yes" <=> Cardinality(members) <= 1)
      BY <2>1 DEF GroupsInv, Snapshot, Writing
  <2>3. op[h].tgt \in members => (Cardinality(members) <= 1 <=> members = {op[h].tgt})
    <3> SUFFICES ASSUME op[h].tgt \in members
                 PROVE  Cardinality(members) <= 1 <=> members = {op[h].tgt}
        OBVIOUS
    <3> DEFINE rest == members \ {op[h].tgt}
    <3>1. IsFiniteSet(rest) /\ Cardinality(rest) = Cardinality(members) - 1
        BY Zenon, FS_RemoveElement DEF GroupsInv
    <3>2. Cardinality(rest) \in Nat /\ Cardinality(members) \in Nat
        BY <3>1, FS_CardinalityType DEF GroupsInv
    <3>3. Cardinality(rest) = 0 <=> rest = {}
        BY Zenon, <3>1, FS_EmptySet
    <3>4. rest = {} <=> members = {op[h].tgt}
        OBVIOUS
    <3> HIDE DEF rest
    <3> QED  BY <3>1, <3>2, <3>3, <3>4
  <2>4. RemoveOrFail(h, op[h].tgt \in members, op[h].last = "yes")
      BY <1>3 DEF RemoveMemberDelete
  <2> DEFINE removes == op[h].tgt \in members
             deletes == op[h].last = "yes"
  <2>5. /\ removes \in BOOLEAN /\ deletes \in BOOLEAN
        /\ removes => op[h].tgt \in members
        /\ removes /\ (InMemory \/ overlapped = "no")
               => Exists /\ (deletes <=> members = {op[h].tgt})
      BY <2>1, <2>2, <2>3
  <2>6. RemoveOrFail(h, removes, deletes)
      BY <2>4
  <2> HIDE DEF removes, deletes
  <2> QED  BY Zenon, <2>1, <2>5, <2>6, RemoveKeeps
<1> QED  BY <1>1, <1>2, <1>3

\* A request that had the owner's consent moves on and leaves the group alone.
LEMMA RenameKeeps ==
    ASSUME GroupsInv, NEW h \in Handler, UpdateName(h)
    PROVE  GroupsInv'
<1>1. op[h].at = "rename" /\ NoChange /\ GroupsTypeOK /\ Course(h) /\ ByOwner(h)
    BY Zenon DEF UpdateName, GroupsInv
<1>2. CASE Exists
  <2>1. op[h].cmd = "rename"
      BY <1>1 DEF Course, GroupsTypeOK
  <2>2. /\ op' \in [Handler -> RequestType]
        /\ \A g \in Handler \ {h} : op'[g] = op[g]
        /\ op'[h].at = "announce" /\ op'[h].cmd = op[h].cmd /\ op'[h].via = op[h].via
        /\ op'[h].by = op[h].by /\ op'[h].tgt = op[h].tgt
      BY Zenon, <1>1, <1>2, GotoMoves DEF UpdateName
  <2>3. Course(h)' /\ Listed(h)' /\ Snapshot(h)'
      BY <1>1, <2>1, <2>2 DEF Course, Listed, Snapshot, Writing, NoChange
  <2>4. Lives
      BY <1>1 DEF NoChange, Lives, GroupsInv, GroupsTypeOK
  <2>5. owners[h] \subseteq owners'[h]
      BY Zenon, <1>1, <2>2, <2>4, Histories DEF NoChange
  <2>6. ByOwner(h)'
      BY <1>1, <2>1, <2>2, <2>5 DEF ByOwner
  <2> QED  BY <1>1, <2>2, <2>3, <2>6, QuietKeeps
<1>3. CASE ~Exists
    BY Zenon, <1>1, <1>3, EndKeeps DEF UpdateName
<1> QED  BY <1>2, <1>3

\* The owner becomes op[h].tgt, a member, when the requester owned the group.
LEMMA OwnerMoves ==
    ASSUME GroupsInv, NEW h \in Handler, op[h].at \in {"transfer", "update"},
           Goto(h, "announce"), Track, members' = members, missed' = missed,
           owner' = IF Exists THEN op[h].tgt ELSE owner,
           op[h].by \in owners[h] \/ owner = op[h].by
    PROVE  GroupsInv'
<1>1. GroupsTypeOK /\ Course(h)
    BY Zenon DEF GroupsInv
<1>2. op[h].cmd = "transfer" /\ op[h].tgt \in User /\ op[h].via = "local" /\ owner # "new"
    BY <1>1 DEF Course, GroupsTypeOK
<1>3. /\ op' \in [Handler -> RequestType]
      /\ \A g \in Handler \ {h} : op'[g] = op[g]
      /\ op'[h].at = "announce" /\ op'[h].cmd = op[h].cmd /\ op'[h].via = op[h].via
      /\ op'[h].by = op[h].by /\ op'[h].tgt = op[h].tgt
    BY Zenon, <1>1, GotoMoves
<1>4. "gone" \notin User /\ "new" \notin User
    BY GroupsAssumption DEF GroupsAssumption
<1>5. Lives
    BY Zenon, <1>1, <1>2, <1>4 DEF Lives, GroupsInv, GroupsTypeOK, Exists
<1>6. store' = store /\ (overlapped' = "no" => overlapped = "no")
    BY Zenon, <1>3, <1>5, Histories
<1>7. Exists' <=> Exists
    BY <1>2 DEF Exists
<1>8. GroupHasMembers' /\ JoinIsAnnounced'
    BY Zenon, <1>6, <1>7 DEF GroupsInv, GroupHasMembers, JoinIsAnnounced, InMemory
<1>9. Course(h)' /\ Listed(h)' /\ Snapshot(h)'
    BY Zenon, <1>1, <1>2, <1>3, <1>5 DEF Course, Listed, Snapshot, Writing, Lives
<1>10. ByOwner(h)'
  <2>1. op'[h].by \in owners'[h]
      BY Zenon, <1>3, <1>5, Histories
  <2> QED  BY Zenon, <2>1 DEF ByOwner
<1> QED  BY Zenon, <1>3, <1>5, <1>8, <1>9, <1>10, OthersKeep

\* TransferOwnership of the store in memory and of the one in MySQL.
LEMMA TransferKeeps ==
    ASSUME GroupsInv, NEW h \in Handler,
           TransferOwnership(h) \/ TransferCheck(h) \/ TransferUpdate(h)
    PROVE  GroupsInv'
<1>1. GroupsTypeOK /\ Course(h) /\ ByOwner(h)
    BY Zenon DEF GroupsInv
<1>2. op[h].at \in {"transfer", "update"} => op[h].cmd = "transfer" /\ op[h].by \in User
    BY <1>1 DEF Course, GroupsTypeOK
<1>3. CASE TransferOwnership(h)
  <2>1. CASE MayTransfer(h)
      BY Zenon, <1>2, <1>3, <2>1, OwnerMoves DEF TransferOwnership, MayTransfer, Exists
  <2>2. CASE ~MayTransfer(h)
      BY Zenon, <1>3, <2>2, EndKeeps DEF TransferOwnership, NoChange
  <2> QED  BY Zenon, <2>1, <2>2
<1>4. CASE TransferCheck(h)
  <2>1. op[h].at = "transfer" /\ ~InMemory /\ NoChange
      BY Zenon, <1>4 DEF TransferCheck
  <2>2. CASE MayTransfer(h)
    <3>1. /\ op' \in [Handler -> RequestType]
          /\ \A g \in Handler \ {h} : op'[g] = op[g]
          /\ op'[h].at = "update" /\ op'[h].cmd = op[h].cmd /\ op'[h].via = op[h].via
          /\ op'[h].by = op[h].by /\ op'[h].tgt = op[h].tgt
        BY Zenon, <1>1, <1>4, <2>2, GotoMoves DEF TransferCheck
    <3>2. owner' = owner /\ members' = members /\ store' = store
        BY Zenon, <2>1 DEF NoChange, Track
    <3>3. Course(h)' /\ Listed(h)'
        BY Zenon, <1>1, <1>2, <2>1, <3>1, <3>2 DEF Course, Listed, InMemory
    <3>4. Snapshot(h)'
        BY <1>2, <2>1, <2>2, <3>1, <3>2 DEF Snapshot, MayTransfer, Exists
    <3>5. Lives
        BY <2>1 DEF NoChange, Lives, GroupsInv, GroupsTypeOK
    <3>6. owner \in owners'[h]
        BY Zenon, <2>1, <3>1, <3>5, Histories DEF NoChange
    <3>7. ByOwner(h)'
        BY <2>2, <3>1, <3>6 DEF ByOwner, MayTransfer
    <3> QED  BY <2>1, <3>1, <3>3, <3>4, <3>7, QuietKeeps
  <2>3. CASE ~MayTransfer(h)
      BY Zenon, <1>4, <2>1, <2>3, EndKeeps DEF TransferCheck
  <2> QED  BY <2>2, <2>3
<1>5. CASE TransferUpdate(h)
  <2>1. op[h].at = "update" /\ op[h].by \in owners[h]
      BY Zenon, <1>1, <1>2, <1>5 DEF TransferUpdate, ByOwner
  <2> QED  BY Zenon, <1>5, <2>1, OwnerMoves DEF TransferUpdate
<1> QED  BY <1>3, <1>4, <1>5

\* The list read for an announcement holds the members of that moment.
LEMMA ReadKeeps ==
    ASSUME GroupsInv, NEW h \in Handler, ReadGroup(h)
    PROVE  GroupsInv'
<1> DEFINE list == IF Exists THEN members ELSE {}
           r == [op[h] EXCEPT !.at = "announce", !.list = list]
<1>1. op[h].at = "read" /\ NoChange /\ GroupsTypeOK /\ Course(h) /\ ByOwner(h) /\ since[h] \subseteq members
    BY DEF ReadGroup, GroupsInv
<1>2. owner' = owner /\ members' = members /\ store' = store
    BY <1>1 DEF NoChange, Track
<1>3. list \in SUBSET User /\ (Exists => list = members)
    BY <1>1 DEF GroupsTypeOK
<1>4. op' = [op EXCEPT ![h] = r]
    BY Zenon, <1>1 DEF ReadGroup, GroupsTypeOK
<1> HIDE DEF list
<1>5. op \in [Handler -> RequestType]
    BY <1>1 DEF GroupsTypeOK, RequestType
<1>6. /\ r \in RequestType /\ r.list = list
      /\ r.at = "announce" /\ r.cmd = op[h].cmd /\ r.via = op[h].via
      /\ r.by = op[h].by /\ r.tgt = op[h].tgt
    BY Zenon, <1>3, <1>5 DEF RequestType
<1> HIDE DEF r
<1>7. op' \in [Handler -> RequestType] /\ op'[h] = r /\ \A g \in Handler \ {h} : op'[g] = op[g]
    BY <1>4, <1>5, <1>6
<1>8. op[h].cmd \in {"join", "leave", "invite"}
    BY <1>1 DEF Course, GroupsTypeOK
<1>9. Course(h)' /\ Snapshot(h)'
    BY Zenon, <1>1, <1>2, <1>6, <1>7, <1>8 DEF Course, Snapshot, Writing
<1>10. Lives
    BY <1>1 DEF NoChange, Lives, GroupsInv, GroupsTypeOK
<1>11. Listed(h)'
  <2>1. since'[h] \subseteq since[h]
      BY Zenon, <1>1, <1>7, <1>10, Histories DEF NoChange
  <2>2. owner # "new"
      BY Zenon, <1>1, <1>8 DEF Course
  <2>3. Exists \/ owner = "gone"
      BY Zenon, <1>1, <2>2 DEF GroupsTypeOK, Exists
  <2> QED  BY Zenon, <1>1, <1>2, <1>3, <1>6, <1>7, <2>1, <2>3 DEF Listed
<1>12. ByOwner(h)'
  <2>1. owners[h] \subseteq owners'[h]
      BY Zenon, <1>1, <1>6, <1>7, <1>10, Histories DEF NoChange
  <2> QED  BY Zenon, <1>1, <1>6, <1>7, <1>8, <2>1 DEF ByOwner
<1> QED  BY Zenon, <1>1, <1>7, <1>9, <1>11, <1>12, QuietKeeps

\* Everyone who must hear of an addition is told, or is the one added.
LEMMA AnnounceKeeps ==
    ASSUME GroupsInv, NEW h \in Handler, sendGroupNotification(h)
    PROVE  GroupsInv'
<1>1. GroupsTypeOK /\ Course(h) /\ Listed(h) /\ since[h] \subseteq members /\ op[h].at = "announce"
    BY DEF GroupsInv, sendGroupNotification
<1>2. ASSUME Exists, op[h].cmd \in {"join", "invite"}
      PROVE  since[h] \subseteq Told(h) \cup {op[h].tgt}
  <2>1. Skipped(h) = op[h].tgt
      BY Zenon, <1>1, <1>2 DEF Skipped, Course
  <2>2. op[h].via = "grpc" => since[h] \subseteq op[h].list
    <3>1. owner # "gone"
        BY <1>2, GroupsAssumption DEF Exists, GroupsAssumption
    <3> QED  BY <1>1, <1>2, <3>1 DEF Listed
  <2>3. since[h] \subseteq IF op[h].cmd = "create" \/ op[h].via = "grpc"
                           THEN op[h].list ELSE members
      BY <1>1, <1>2, <2>2
  <2> QED  BY Zenon, <2>1, <2>3 DEF Told
<1>3. missed' = missed
    BY <1>2 DEF sendGroupNotification
<1>4. NoChange /\ End(h)
    BY <1>3 DEF sendGroupNotification, NoChange
<1> QED  BY Zenon, <1>4, EndKeeps

\* A request arrives over the WebSocket or HTTP.
LEMMA BeginKeeps ==
    ASSUME GroupsInv, NEW h \in Handler, NEW u \in User, Begin(h, u)
    PROVE  GroupsInv'
<1>1. CASE handleGroupJoin(h, u) \/ HandleGroupJoin(h, u)
    BY <1>1, RequestKeeps DEF handleGroupJoin, HandleGroupJoin
<1>2. CASE handleGroupLeave(h, u) \/ HandleGroupLeave(h, u)
    BY <1>2, RequestKeeps DEF handleGroupLeave, HandleGroupLeave
<1>3. CASE HandleGroupRename(h, u)
    BY <1>3, RequestKeeps DEF HandleGroupRename
<1>4. ASSUME NEW v \in User, handleGroupCreate(h, u, v) \/ HandleGroupCreate(h, u, v)
      PROVE  GroupsInv'
  <2>1. CreateWith(h, u, v, {u}, "add") \/ CreateWith(h, u, v, {u, v}, "announce")
      BY <1>4 DEF handleGroupCreate, HandleGroupCreate
  <2> QED  BY <2>1, CreateKeeps
<1>5. ASSUME NEW v \in User, handleGroupInviteMember(h, u, v) \/ HandleGroupInvite(h, u, v)
      PROVE  GroupsInv'
    BY <1>5, RequestKeeps DEF handleGroupInviteMember, HandleGroupInvite
<1>6. ASSUME NEW v \in User, HandleGroupKick(h, u, v)
      PROVE  GroupsInv'
    BY <1>6, RequestKeeps DEF HandleGroupKick
<1>7. ASSUME NEW v \in User, HandleGroupTransfer(h, u, v)
      PROVE  GroupsInv'
    BY <1>7, RequestKeeps DEF HandleGroupTransfer
<1> QED  BY <1>1, <1>2, <1>3, <1>4, <1>5, <1>6, <1>7 DEF Begin

\* No group yet, and no request.
LEMMA GroupsStart == GroupsInit => GroupsInv
<1> SUFFICES ASSUME GroupsInit PROVE GroupsInv
    OBVIOUS
<1>1. Idle \in RequestType
    BY DEF Idle, RequestType
<1>2. GroupsTypeOK
    BY <1>1 DEF GroupsInit, GroupsTypeOK, RequestType
<1>3. IsFiniteSet(members)
    BY FS_EmptySet DEF GroupsInit
<1>4. GroupHasMembers
  <2>1. "new" \notin User
      BY Zenon, GroupsAssumption DEF GroupsAssumption
  <2> QED  BY <2>1 DEF GroupsInit, GroupHasMembers, Exists
<1>5. ASSUME NEW h \in Handler
      PROVE  Course(h) /\ Listed(h) /\ ByOwner(h) /\ Snapshot(h) /\ since[h] = {}
  <2>1. op[h] = Idle /\ since[h] = {}
      BY DEF GroupsInit
  <2> QED  BY <2>1 DEF Course, Listed, ByOwner, Snapshot, Idle, Writing
<1> QED  BY <1>2, <1>3, <1>4, <1>5 DEF GroupsInit, GroupsInv, JoinIsAnnounced

\* Every step of every request keeps the invariant.
LEMMA GroupsSteps == GroupsInv /\ [GroupsNext]_groupsVars => GroupsInv'
<1> SUFFICES ASSUME GroupsInv, [GroupsNext]_groupsVars PROVE GroupsInv'
    OBVIOUS
<1>1. ASSUME NEW h \in Handler, Step(h)
      PROVE  GroupsInv'
  <2>1. CASE LogicFails(h)
      BY <2>1, EndKeeps DEF LogicFails
  <2>2. CASE NotificationFails(h)
      BY <2>2, EndKeeps DEF NotificationFails
  <2> QED  BY Zenon, <1>1, <2>1, <2>2, GetKeeps, AddKeeps, RemovalKeeps, RenameKeeps, TransferKeeps,
              ReadKeeps, AnnounceKeeps DEF Step
<1>2. ASSUME NEW h \in Handler, NEW u \in User, Begin(h, u)
      PROVE  GroupsInv'
    BY <1>2, BeginKeeps
<1>3. CASE UNCHANGED groupsVars
  <2>1. UNCHANGED <<store, owner, members, op, owners, since, missed, overlapped>>
      BY <1>3 DEF groupsVars
  <2>2. GroupsTypeOK' /\ GroupHasMembers' /\ JoinIsAnnounced'
      BY <2>1 DEF GroupsInv, GroupsTypeOK, GroupHasMembers, JoinIsAnnounced, InMemory, Exists
  <2>3. ASSUME NEW h \in Handler
        PROVE  Course(h)' /\ Listed(h)' /\ ByOwner(h)' /\ (overlapped' = "no" => Snapshot(h)')
      BY Zenon, <2>1 DEF GroupsInv, Course, Listed, ByOwner, Snapshot, InMemory, Exists
  <2> QED  BY Zenon, <2>1, <2>2, <2>3 DEF GroupsInv
<1> QED  BY <1>1, <1>2, <1>3 DEF GroupsNext

\* The inductive invariant holds always.
LEMMA GroupsInvariant == GroupsSpec => []GroupsInv
BY GroupsStart, GroupsSteps, PTL DEF GroupsSpec

-----------------------------------------------------------------------------
(* What the requests guarantee                                             *)

\* Every variable keeps its type.
THEOREM GroupsTypeCorrect == GroupsSpec => []GroupsTypeOK
<1>1. GroupsInv => GroupsTypeOK
    BY DEF GroupsInv
<1> QED  BY <1>1, GroupsInvariant, PTL

\* A group exists exactly while it has members: always in memory, and in MySQL as
\* long as no write comes between the read and the write of another operation.
THEOREM MembersHold == GroupsSpec => []GroupHasMembers
<1>1. GroupsInv => GroupHasMembers
    BY DEF GroupsInv
<1> QED  BY <1>1, GroupsInvariant, PTL

\* An invitation, a kick, a renaming or a transfer takes effect only for a user who
\* owned the group at some moment of the request, with either store.
THEOREM OwnersAct == GroupsSpec => []OnlyOwnerActs
<1>1. GroupsInv => OnlyOwnerActs
    BY Zenon DEF GroupsInv, OnlyOwnerActs, ByOwner
<1> QED  BY <1>1, GroupsInvariant, PTL

\* Whoever is in the group from the moment a user is added until the others are told
\* is among those told, whichever way the list of members was read.
THEOREM JoinsAnnounced == GroupsSpec => []JoinIsAnnounced
<1>1. GroupsInv => JoinIsAnnounced
    BY DEF GroupsInv
<1> QED  BY <1>1, GroupsInvariant, PTL

\* Only a transfer, asked for by the owner, gives the group to another user, who is
\* a member, unless two operations of MySQL overlap.
THEOREM OwnershipHolds == GroupsSpec => OwnershipMoves
<1> DEFINE Moves ==
       Exists /\ owner' \in User \ {owner} =>
          \/ ~InMemory /\ overlapped' = "yes"
          \/ /\ owner' \in members
             /\ \E h \in Handler : op[h].cmd = "transfer" /\ op[h].by = owner
                                       /\ op[h].tgt = owner'
<1>1. GroupsInv /\ [GroupsNext]_groupsVars => [Moves]_groupsVars
  <2> SUFFICES ASSUME GroupsInv, GroupsNext, Exists, owner' \in User \ {owner}
               PROVE  \/ ~InMemory /\ overlapped' = "yes"
                      \/ /\ owner' \in members
                         /\ \E h \in Handler : op[h].cmd = "transfer" /\ op[h].by = owner
                                                   /\ op[h].tgt = owner'
      OBVIOUS
  <2>1. "new" \notin User /\ "gone" \notin User
      BY GroupsAssumption DEF GroupsAssumption
  <2>2. PICK h \in Handler : Step(h) \/ \E u \in User : Begin(h, u)
      BY DEF GroupsNext
  <2>3. ~ \E u \in User : Begin(h, u)
      BY Zenon, <2>1 DEF Begin, handleGroupJoin, HandleGroupJoin, handleGroupLeave, HandleGroupLeave,
             HandleGroupRename, handleGroupCreate, HandleGroupCreate, handleGroupInviteMember,
             HandleGroupInvite, HandleGroupKick, HandleGroupTransfer, CreateWith, Request,
             NoChange, Exists
  <2>4. ~ (RemoveMember(h) \/ RemoveMemberDelete(h))
      BY <2>1 DEF RemoveMember, RemoveMemberDelete, RemoveOrFail
  <2>5. TransferOwnership(h) \/ TransferUpdate(h)
      BY Zenon, <2>2, <2>3, <2>4 DEF Step, Get, AddMember, AddMemberCheck, AddMemberInsert,
             RemoveMemberCount, UpdateName, TransferCheck, ReadGroup, LogicFails,
             sendGroupNotification, NotificationFails, NoChange
  <2>6. op[h].at \in {"transfer", "update"} => op[h].cmd = "transfer"
      BY Zenon DEF GroupsInv, Course, GroupsTypeOK
  <2>7. CASE TransferOwnership(h)
      BY Zenon, <2>6, <2>7 DEF TransferOwnership, MayTransfer
  <2>8. CASE TransferUpdate(h)
    <3>1. op[h].at = "update" /\ ~InMemory /\ owner' = op[h].tgt
        BY Zenon, <2>8 DEF TransferUpdate, GroupsInv, Course, Writing
    <3>2. overlapped' = "yes" \/ (overlapped' = "no" /\ overlapped = "no")
        BY <2>8 DEF TransferUpdate, Track, GroupsInv, GroupsTypeOK
    <3>3. overlapped = "no" => owner = op[h].by /\ op[h].tgt \in members
        BY Zenon, <3>1 DEF GroupsInv, Snapshot
    <3>4. CASE overlapped' = "yes"
        BY Zenon, <3>1, <3>4
    <3>5. CASE overlapped' = "no" /\ overlapped = "no"
        BY Zenon, <2>6, <3>1, <3>3, <3>5
    <3> QED  BY Zenon, <3>2, <3>4, <3>5
  <2> QED  BY Zenon, <2>5, <2>7, <2>8
<1>2. GroupsSpec => [][Moves]_groupsVars
    BY <1>1, GroupsInvariant, PTL DEF GroupsSpec
<1> QED  BY Zenon, <1>2 DEF OwnershipMoves

-----------------------------------------------------------------------------
(* Persistence                                                             *)


\* The part of TypeOK that is about the gateway and the tables,
StoredTypes ==
    /\ given \subseteq Msg
    /\ queue \in Seq(Msg) /\ Len(queue) <= QueueSize
    /\ worker \in [Worker -> [at : {"idle", "publish", "save", "returned"},
                              msg : Msg \cup {"none"}]]
    /\ gateway \in {"up", "stopping"}
    /\ log \in Seq(Msg \cup {"junk"})
    /\ rows \in [Msg -> Row]
    /\ recalls \cup deleted \subseteq given

\* and the part about the consumer.
ConsumerTypes ==
    /\ committed \in 0..Len(log)
    /\ run \in {"on", "cancelled", "flushing", "done"}
    /\ loop \in {"on", "returned"}
    /\ pos \in 0..Len(log)
    /\ buffer \in Seq(Offset) /\ Len(buffer) <= MaxBuffer
    /\ flush \in [{"run", "loop"} -> Flush]
    /\ discard \cup saved \cup failed \cup dropped \subseteq Offset

\* Every copy of a message is of one that was handed to persistAsync.
Handed ==
    /\ \A i \in DOMAIN queue : queue[i] \in given
    /\ \A w \in Worker : worker[w].at \in {"publish", "save"} => worker[w].msg \in given
    /\ \A i \in DOMAIN log : log[i] \in given \cup {"junk"}
    /\ \A m \in Msg : rows[m] # NoRow => m \in given

StoredInv == StoredTypes /\ Handed /\ RecallSticks

Buffered == {buffer[i] : i \in DOMAIN buffer}

\* Offsets that a flush still has to save or to commit.
Pending(f) == {flush[f].batch[i] : i \in DOMAIN flush[f].batch} \cup flush[f].ok

Gone == discard \cup Pending("run") \cup Pending("loop")

\* What left the buffer is older than what is in it, and that than what is unread.
Ordered ==
    /\ committed <= pos
    /\ \A o \in Buffered \cup Gone : o < pos
    /\ \A o \in Gone, b \in Buffered : o < b
    /\ \A i, j \in DOMAIN buffer : i < j => buffer[i] < buffer[j]

\* A flush that saves has something to save, one that commits something to commit.
Flushing ==
    \A f \in {"run", "loop"} : /\ flush[f].at = "save" => flush[f].batch # <<>>
                               /\ flush[f].at = "commit" => flush[f].ok # {}

\* UntriedIsRedelivered, of the buffer; with committed <= pos it is all of it.
BufferRedelivered ==
    \A b \in Buffered : b >= committed \/ \E j \in b..(committed - 1) : log[j + 1] = "junk"

ConsumerInv == ConsumerTypes /\ Flushing /\ Ordered /\ BufferRedelivered

-----------------------------------------------------------------------------
(* The tables                                                              *)

\* INSERT IGNORE changes no row that is there.
LEMMA SaveKeeps ==
    ASSUME StoredInv, NEW m \in given \cup {"junk"}, Save(m),
           UNCHANGED <<given, queue, gateway, log, recalls, deleted>>,
           worker' \in [Worker -> [at : {"idle", "publish", "save", "returned"},
                                   msg : Msg \cup {"none"}]],
           \A w \in Worker : worker'[w] = worker[w] \/ worker'[w] = Free
    PROVE  StoredInv'
<1> DEFINE r == IF rows[m] = NoRow THEN [content |-> "text", recalled |-> FALSE] ELSE rows[m]
<1>1. rows \in [Msg -> Row] /\ given \subseteq Msg /\ recalls \subseteq given
    BY DEF StoredInv, StoredTypes
<1>2. rows' = [rows EXCEPT ![m] = r]
    BY DEF Save
<1>3. m \in Msg => r \in Row
    BY <1>1 DEF Row
<1>4. rows[m] # NoRow => r = rows[m]
    OBVIOUS
<1> HIDE DEF r
<1>5. rows' \in [Msg -> Row] /\ \A n \in Msg : n # m \/ rows[n] # NoRow => rows'[n] = rows[n]
    BY Zenon, <1>1, <1>2, <1>3, <1>4
<1>6. StoredTypes'
    BY Zenon, <1>5 DEF StoredInv, StoredTypes, Row, NoRow
<1>7. Handed'
  <2>1. m \in Msg => m \in given
      BY Zenon, PersistenceAssumption DEF PersistenceAssumption
  <2>2. \A n \in Msg : rows'[n] # NoRow => n \in given
      BY Zenon, <1>5, <2>1 DEF StoredInv, Handed
  <2>3. \A w \in Worker : worker'[w].at \in {"publish", "save"} => worker'[w].msg \in given
      BY DEF StoredInv, Handed, Free
  <2> QED  BY Zenon, <2>2, <2>3 DEF StoredInv, Handed, NoRow
<1>8. RecallSticks'
  <2> SUFFICES ASSUME NEW n \in recalls \ deleted PROVE rows'[n].recalled
      BY DEF RecallSticks
  <2>1. n \in Msg /\ rows[n].recalled
      BY <1>1 DEF StoredInv, RecallSticks
  <2>2. rows[n] # NoRow
      BY <2>1 DEF NoRow
  <2> QED  BY Zenon, <1>5, <2>1, <2>2
<1> QED  BY <1>6, <1>7, <1>8 DEF StoredInv

\* A row is changed by Recall, Edit or Delete, in a way that keeps a recall.
LEMMA RowKeeps ==
    ASSUME StoredInv, NEW m \in Msg, NEW r \in Row,
           rows[m] # NoRow, rows' = [rows EXCEPT ![m] = r],
           UNCHANGED <<given, queue, gateway, log, worker>>,
           recalls \subseteq recalls', recalls' \subseteq recalls \cup {m},
           deleted \subseteq deleted', deleted' \subseteq deleted \cup {m},
           m \in recalls' \ deleted' => r.recalled
    PROVE  StoredInv'
<1>1. rows \in [Msg -> Row] /\ given \subseteq Msg /\ recalls \subseteq given /\ m \in given
    BY DEF StoredInv, StoredTypes, Handed
<1>2. rows' \in [Msg -> Row] /\ rows'[m] = r /\ \A n \in Msg \ {m} : rows'[n] = rows[n]
    BY Zenon, <1>1
<1>3. StoredTypes'
    BY <1>1, <1>2 DEF StoredInv, StoredTypes, Row, NoRow
<1>4. Handed'
    BY Zenon, <1>1, <1>2 DEF StoredInv, Handed, NoRow
<1>5. RecallSticks'
    BY <1>1, <1>2 DEF StoredInv, RecallSticks
<1> QED  BY <1>3, <1>4, <1>5 DEF StoredInv

\* The messages of the gateway come from the queue, and go to the topic.
LEMMA TopicKeeps ==
    ASSUME StoredInv, NEW given2, given \subseteq given2, given2 \subseteq Msg, given' = given2,
           queue' \in Seq(Msg), Len(queue') <= QueueSize, \A i \in DOMAIN queue' : queue'[i] \in given2,
           worker' \in [Worker -> [at : {"idle", "publish", "save", "returned"},
                                   msg : Msg \cup {"none"}]],
           \A w \in Worker : worker'[w].at \in {"publish", "save"} => worker'[w].msg \in given2,
           log' \in Seq(Msg \cup {"junk"}), \A i \in DOMAIN log' : log'[i] \in given2 \cup {"junk"},
           gateway' \in {"up", "stopping"}, UNCHANGED <<rows, recalls, deleted>>
    PROVE  StoredInv'
<1>1. StoredTypes'
    BY Zenon DEF StoredInv, StoredTypes, Row, NoRow
<1>2. Handed'
    BY DEF StoredInv, Handed, NoRow
<1>3. RecallSticks'
    BY DEF StoredInv, RecallSticks
<1> QED  BY Zenon, <1>1, <1>2, <1>3 DEF StoredInv

\* The topic only grows.
Grows == Len(log) <= Len(log') /\ \A i \in DOMAIN log : log'[i] = log[i]

ConsumerStays == UNCHANGED <<committed, consumerVars, histories>>

\* One more record at the end.
LEMMA RecordAdded ==
    ASSUME NEW S, NEW s \in Seq(S), NEW x \in S
    PROVE  /\ Append(s, x) \in Seq(S) /\ Len(Append(s, x)) = Len(s) + 1
           /\ Len(s) <= Len(Append(s, x))
           /\ \A i \in DOMAIN s : Append(s, x)[i] = s[i]
           /\ \A i \in DOMAIN Append(s, x) : i \in DOMAIN s \/ Append(s, x)[i] = x
OBVIOUS

\* The first record of a batch, and the rest of it.
LEMMA BatchTaken ==
    ASSUME NEW S, NEW s \in Seq(S), s # <<>>
    PROVE  /\ Tail(s) \in Seq(S) /\ Head(s) = s[1] /\ 1 \in DOMAIN s /\ Head(s) \in S
           /\ \A i \in DOMAIN Tail(s) : i + 1 \in DOMAIN s /\ Tail(s)[i] = s[i + 1]
OBVIOUS

\* What a buffer and a flush hold.
LEMMA OffsetsHeld ==
    ASSUME NEW S
    PROVE  /\ \A s \in Seq(S) : {s[i] : i \in DOMAIN s} \subseteq S
           /\ \A z \in [at : {"idle", "save", "commit"}, batch : Seq(S), ok : SUBSET S] :
                 {z.batch[i] : i \in DOMAIN z.batch} \cup z.ok \subseteq S
<1>1. \A s \in Seq(S) : {s[i] : i \in DOMAIN s} \subseteq S
    OBVIOUS
<1>2. ASSUME NEW z \in [at : {"idle", "save", "commit"}, batch : Seq(S), ok : SUBSET S]
      PROVE  {z.batch[i] : i \in DOMAIN z.batch} \cup z.ok \subseteq S
  <2>1. z.batch \in Seq(S) /\ z.ok \subseteq S
      OBVIOUS
  <2> QED  BY Zenon, <1>1, <2>1
<1> QED  BY <1>1, <1>2

\* What a flush has in hand are offsets.
LEMMA PendingHeld ==
    ASSUME NEW f, flush[f] \in Flush
    PROVE  Pending(f) \subseteq Offset
BY Zenon, OffsetsHeld DEF Pending, Flush

\* The workers of the gateway and persistAsync.
LEMMA WorkersKeep ==
    ASSUME StoredInv,
           \/ \E m \in Msg : PersistAsync(m)
           \/ \E w \in Worker : TakeTask(w) \/ Publish(w) \/ SaveDirect(w) \/ WorkerReturns(w)
           \/ Stop
           \/ PublishJunk
    PROVE  StoredInv' /\ Grows /\ ConsumerStays
<1> DEFINE Task == [at : {"idle", "publish", "save", "returned"}, msg : Msg \cup {"none"}]
<1>1. /\ given \subseteq Msg
      /\ queue \in Seq(Msg) /\ Len(queue) <= QueueSize /\ QueueSize \in Nat
      /\ worker \in [Worker -> Task]
      /\ gateway \in {"up", "stopping"}
      /\ log \in Seq(Msg \cup {"junk"})
    BY Zenon, PersistenceAssumption DEF StoredInv, StoredTypes, PersistenceAssumption
<1>2. /\ \A i \in DOMAIN queue : queue[i] \in given
      /\ \A w \in Worker : worker[w].at \in {"publish", "save"} => worker[w].msg \in given
      /\ \A i \in DOMAIN log : log[i] \in given \cup {"junk"}
    BY DEF StoredInv, Handed
<1>3. ConsumerStays
    BY DEF ConsumerStays, PersistAsync, TakeTask, Publish, SaveDirect, WorkerReturns, Stop, PublishJunk
<1>4. ASSUME NEW m \in Msg, PersistAsync(m) PROVE StoredInv' /\ Grows
  <2>1. /\ given' = given \cup {m} /\ (queue' = queue \/ queue' = Append(queue, m))
        /\ Len(queue') <= QueueSize
        /\ UNCHANGED <<worker, gateway, log, rows, recalls, deleted>>
      BY <1>1, <1>4 DEF PersistAsync
  <2>2. queue' \in Seq(Msg) /\ \A i \in DOMAIN queue' : queue'[i] \in given \cup {m}
    <3> DEFINE longer == Append(queue, m)
    <3>0. queue \in Seq(Msg) /\ m \in Msg
        BY Zenon, <1>1, <1>4
    <3>1. /\ longer \in Seq(Msg)
          /\ \A i \in DOMAIN queue : longer[i] = queue[i]
          /\ \A i \in DOMAIN longer : i \in DOMAIN queue \/ longer[i] = m
        BY Zenon, <3>0, RecordAdded
    <3>2. \A i \in DOMAIN longer : longer[i] \in given \cup {m}
        BY Zenon, <1>2, <3>1
    <3> HIDE DEF longer
    <3>3. queue' = queue \/ queue' = longer
        BY <2>1 DEF longer
    <3> QED  BY <1>1, <1>2, <3>1, <3>2, <3>3
  <2>3. StoredInv'
      BY ZenonT(30), <1>1, <1>2, <2>1, <2>2, TopicKeeps
  <2> QED  BY <1>1, <2>1, <2>3 DEF Grows
<1>5. ASSUME NEW w \in Worker, TakeTask(w) PROVE StoredInv' /\ Grows
  <2> DEFINE t == [at |-> "publish", msg |-> Head(queue)]
  <2>1. /\ queue # <<>> /\ queue' = Tail(queue) /\ worker' = [worker EXCEPT ![w] = t]
        /\ UNCHANGED <<given, gateway, log, rows, recalls, deleted>>
      BY Zenon, <1>5 DEF TakeTask
  <2>2. Head(queue) \in given /\ queue' \in Seq(Msg) /\ Len(queue') <= QueueSize
        /\ \A i \in DOMAIN queue' : queue'[i] \in given
      BY <1>1, <1>2, <2>1
  <2>3. t \in Task /\ t.msg \in given
      BY <1>1, <2>2
  <2> HIDE DEF t
  <2>4. worker' \in [Worker -> Task]
        /\ \A v \in Worker : worker'[v].at \in {"publish", "save"} => worker'[v].msg \in given
      BY Zenon, <1>1, <1>2, <2>1, <2>3
  <2>5. StoredInv'
      BY Zenon, <1>1, <1>2, <2>1, <2>2, <2>4, TopicKeeps
  <2> QED  BY <1>1, <2>1, <2>5 DEF Grows
<1>6. ASSUME NEW w \in Worker, Publish(w) PROVE StoredInv' /\ Grows
  <2>1. worker[w].at = "publish" /\ worker[w].msg \in given
      BY Zenon, <1>2, <1>6 DEF Publish
  <2>2. PICK n \in 0..2 : log' = log \o [i \in 1..n |-> worker[w].msg]
      BY <1>6 DEF Publish
  <2> DEFINE copies == [i \in 1..n |-> worker[w].msg]
  <2>3. copies \in Seq(Msg) /\ Len(copies) = n /\ \A i \in 1..n : copies[i] \in given
      BY <1>1, <2>1
  <2>4. log' = log \o copies
      BY <2>2
  <2> HIDE DEF copies
  <2>5. /\ log' \in Seq(Msg \cup {"junk"})
        /\ Len(log') = Len(log) + n
        /\ \A i \in DOMAIN log : log'[i] = log[i]
        /\ \A i \in DOMAIN log' : i \in DOMAIN log \/ (i - Len(log) \in 1..n /\ log'[i] = copies[i - Len(log)])
      BY <1>1, <2>3, <2>4
  <2>6. \A i \in DOMAIN log' : log'[i] \in given \cup {"junk"}
      BY <1>2, <2>3, <2>5
  <2>7. worker' = [worker EXCEPT ![w].at = "save"]
        /\ UNCHANGED <<given, queue, gateway, rows, recalls, deleted>>
      BY <1>6 DEF Publish
  <2>8. worker' \in [Worker -> Task]
        /\ \A v \in Worker : worker'[v].at \in {"publish", "save"} => worker'[v].msg \in given
      BY <1>1, <1>2, <2>1, <2>7
  <2>9. StoredInv'
      BY Zenon, <1>1, <1>2, <2>5, <2>6, <2>7, <2>8, TopicKeeps
  <2>10. Len(log) <= Len(log')
      BY <1>1, <2>5
  <2> QED  BY <2>5, <2>9, <2>10 DEF Grows
<1>7. ASSUME NEW w \in Worker, SaveDirect(w) PROVE StoredInv' /\ Grows
  <2>1. /\ worker[w].msg \in given /\ worker' = [worker EXCEPT ![w] = Free]
        /\ UNCHANGED <<given, queue, gateway, log, recalls, deleted>>
      BY <1>2, <1>7 DEF SaveDirect
  <2>2. /\ worker' \in [Worker -> Task]
        /\ \A v \in Worker : worker'[v] = worker[v] \/ worker'[v] = Free
      BY <1>1, <2>1 DEF Free
  <2>3. Grows
      BY <1>1, <2>1 DEF Grows
  <2>4. CASE Save(worker[w].msg)
      BY <2>1, <2>2, <2>3, <2>4, SaveKeeps
  <2>5. CASE UNCHANGED rows
    <3>1. \A v \in Worker : worker'[v].at \in {"publish", "save"} => worker'[v].msg \in given
        BY <1>2, <2>2 DEF Free
    <3>2. StoredInv'
        BY <1>1, <1>2, <2>1, <2>2, <2>5, <3>1, TopicKeeps
    <3> QED  BY Zenon, <2>3, <3>2
  <2> QED  BY Zenon, <1>7, <2>4, <2>5 DEF SaveDirect
<1>8. ASSUME NEW w \in Worker, WorkerReturns(w) PROVE StoredInv' /\ Grows
  <2>1. worker' = [worker EXCEPT ![w].at = "returned"]
        /\ UNCHANGED <<given, queue, gateway, log, rows, recalls, deleted>>
      BY <1>8 DEF WorkerReturns
  <2>2. worker' \in [Worker -> Task]
        /\ \A v \in Worker : worker'[v].at \in {"publish", "save"} => worker'[v].msg \in given
      BY <1>1, <1>2, <2>1
  <2>3. StoredInv'
      BY <1>1, <1>2, <2>1, <2>2, TopicKeeps
  <2> QED  BY <1>1, <2>1, <2>3 DEF Grows
<1>9. CASE Stop
  <2>1. gateway' = "stopping" /\ UNCHANGED <<given, queue, worker, log, rows, recalls, deleted>>
      BY <1>9 DEF Stop
  <2>2. StoredInv'
      BY <1>1, <1>2, <2>1, TopicKeeps
  <2> QED  BY <1>1, <1>3, <2>1, <2>2 DEF Grows
<1>10. CASE PublishJunk
  <2>1. log' = Append(log, "junk")
        /\ UNCHANGED <<given, queue, worker, gateway, rows, recalls, deleted>>
      BY <1>10 DEF PublishJunk, gatewayVars
  <2>2. /\ log' \in Seq(Msg \cup {"junk"})
        /\ Len(log') = Len(log) + 1 /\ Len(log) <= Len(log')
        /\ \A i \in DOMAIN log : log'[i] = log[i]
        /\ \A i \in DOMAIN log' : log'[i] \in given \cup {"junk"}
    <3>1. /\ log' \in Seq(Msg \cup {"junk"})
          /\ Len(log') = Len(log) + 1 /\ Len(log) <= Len(log')
          /\ \A i \in DOMAIN log : log'[i] = log[i]
          /\ \A i \in DOMAIN log' : i \in DOMAIN log \/ log'[i] = "junk"
      <4>1. "junk" \in Msg \cup {"junk"}
          BY Zenon
      <4> QED  BY <1>1, <2>1, <4>1, RecordAdded
    <3> QED  BY Zenon, <1>2, <2>1, <3>1
  <2>3. StoredInv'
      BY <1>1, <1>2, <2>1, <2>2, TopicKeeps
  <2> QED  BY Zenon, <1>3, <2>2, <2>3 DEF Grows
<1> QED  BY Zenon, <1>3, <1>4, <1>5, <1>6, <1>7, <1>8, <1>9, <1>10

\* Recall, edit and deletion.
LEMMA RowsKeep ==
    ASSUME StoredInv, NEW m \in Msg, Recall(m) \/ Edit(m) \/ Delete(m)
    PROVE  StoredInv' /\ Grows /\ ConsumerStays
<1>1. rows \in [Msg -> Row] /\ log \in Seq(Msg \cup {"junk"})
    BY DEF StoredInv, StoredTypes
<1>2. UNCHANGED <<given, queue, gateway, log, worker>> /\ ConsumerStays
    BY DEF Recall, Edit, Delete, gatewayVars, ConsumerStays
<1>3. Grows
    BY <1>1, <1>2 DEF Grows
<1>4. CASE Recall(m)
  <2> DEFINE r == [content |-> "mark", recalled |-> TRUE]
  <2>1. r \in Row /\ r.recalled
      BY DEF Row
  <2>2. /\ rows[m] # NoRow /\ rows' = [rows EXCEPT ![m] = r]
        /\ recalls' = recalls \cup {m} /\ deleted' = deleted
      BY <1>4 DEF Recall
  <2> HIDE DEF r
  <2> QED  BY Zenon, <1>2, <1>3, <2>1, <2>2, RowKeeps
<1>5. CASE Edit(m)
  <2> DEFINE r == [rows[m] EXCEPT !.content = "edit"]
  <2>1. /\ rows[m] # NoRow /\ rows' = [rows EXCEPT ![m] = r]
        /\ recalls' = recalls /\ deleted' = deleted
      BY <1>5 DEF Edit
  <2>2. r \in Row /\ r.recalled = rows[m].recalled
      BY <1>1, <2>1 DEF Row
  <2>3. m \in recalls \ deleted => rows[m].recalled
      BY DEF StoredInv, RecallSticks
  <2> HIDE DEF r
  <2> QED  BY Zenon, <1>2, <1>3, <2>1, <2>2, <2>3, RowKeeps
<1>6. CASE Delete(m)
  <2>1. /\ rows[m] # NoRow /\ rows' = [rows EXCEPT ![m] = NoRow] /\ NoRow \in Row
        /\ recalls' = recalls /\ deleted' = deleted \cup {m}
      BY <1>6 DEF Delete, Row
  <2> QED  BY Zenon, <1>2, <1>3, <2>1, RowKeeps
<1> QED  BY <1>4, <1>5, <1>6

-----------------------------------------------------------------------------
(* The consumer                                                            *)

\* A sequence over a set is one over a larger set.
LEMMA SeqGrows ==
    ASSUME NEW S, NEW T, S \subseteq T, NEW s \in Seq(S)
    PROVE  s \in Seq(T)
OBVIOUS

\* A bounded set of offsets has a largest one.
LEMMA MaxIsMember ==
    ASSUME NEW S \in SUBSET Nat, S # {}, NEW n \in Nat, \A x \in S : x < n
    PROVE  Max(S) \in S
<1> DEFINE gaps == {n - x : x \in S}
<1>1. gaps \in SUBSET Nat /\ gaps # {}
  <2>1. \A x \in S : x \in Nat /\ n - x \in Nat
      OBVIOUS
  <2>2. gaps # {}
      BY Zenon
  <2> QED  BY <2>1, <2>2
<1>2. \E g \in gaps : \A h \in gaps : ~(<<h, g>> \in OpToRel(<, Nat))
    BY <1>1, NatLessThanWellFounded, WFMin, Zenon
<1>3. \E g \in gaps : \A h \in gaps : ~(h < g)
  <2>1. PICK g \in gaps : \A h \in gaps : ~(<<h, g>> \in OpToRel(<, Nat))
      BY Zenon, <1>2
  <2>2. \A h \in gaps : h \in Nat /\ g \in Nat
      BY <1>1
  <2> HIDE DEF gaps
  <2> QED  BY <2>1, <2>2, Zenon DEF OpToRel
<1>4. \E x \in S : \A y \in S : x >= y
  <2>1. PICK x \in S : \A h \in gaps : ~(h < n - x)
      BY <1>3
  <2>2. ASSUME NEW y \in S PROVE x >= y
    <3>1. ~(n - y < n - x) /\ x \in Nat /\ y \in Nat
        BY <2>1
    <3> QED  BY <3>1
  <2> QED  BY <2>2
<1> QED  BY Zenon, <1>4 DEF Max

\* The consumer does not notice that the topic grows.
LEMMA GrowthKeeps ==
    ASSUME StoredTypes, StoredTypes', ConsumerInv, Grows, ConsumerStays
    PROVE  ConsumerInv'
<1>1. /\ UNCHANGED <<committed, run, loop, pos, buffer, flush, discard, saved, failed, dropped>>
    BY Zenon DEF ConsumerStays, consumerVars, histories
<1>2. /\ Len(log) \in Nat /\ Len(log') \in Nat /\ Len(log) <= Len(log') /\ DOMAIN log = 1..Len(log)
    BY DEF StoredTypes, Grows
<1>3. Offset \subseteq Offset'
    BY <1>2 DEF Offset
<1>4. buffer \in Seq(Offset)' /\ \A f \in {"run", "loop"} : flush[f] \in Flush'
  <2>1. buffer \in Seq(Offset) /\ flush \in [{"run", "loop"} -> Flush]
      BY DEF ConsumerInv, ConsumerTypes
  <2>2. \A s \in Seq(Offset) : s \in Seq(Offset')
      BY <1>3, SeqGrows
  <2>3. Flush \subseteq Flush'
      BY <1>3, <2>2 DEF Flush
  <2> QED  BY <2>1, <2>2, <2>3
<1>5. ConsumerTypes'
  <2>1. flush \in [{"run", "loop"} -> Flush']
      BY <1>4 DEF ConsumerInv, ConsumerTypes
  <2> QED  BY <1>1, <1>2, <1>3, <1>4, <2>1 DEF ConsumerInv, ConsumerTypes
<1>6. Flushing' /\ Ordered'
  <2>1. Buffered' = Buffered /\ Gone' = Gone
      BY Zenon, <1>1 DEF Buffered, Gone, Pending
  <2> QED  BY Zenon, <1>1, <2>1 DEF ConsumerInv, Flushing, Ordered
<1>7. BufferRedelivered'
  <2> SUFFICES ASSUME NEW b \in Buffered, ~(b >= committed)
               PROVE  \E j \in b..(committed - 1) : log'[j + 1] = "junk"
      BY <1>1 DEF BufferRedelivered, Buffered
  <2>1. PICK j \in b..(committed - 1) : log[j + 1] = "junk"
      BY DEF ConsumerInv, BufferRedelivered
  <2>2. b \in Offset /\ committed \in 0..Len(log)
      BY DEF Buffered, ConsumerInv, ConsumerTypes
  <2>3. j + 1 \in DOMAIN log
      BY <1>2, <2>1, <2>2 DEF Offset
  <2> QED  BY Zenon, <2>1, <2>3 DEF Grows
<1> QED  BY <1>5, <1>6, <1>7 DEF ConsumerInv

\* A step that reads nothing: it may take the buffer away and commit what has left it.
LEMMA ConsumerKeeps ==
    ASSUME ConsumerInv, UNCHANGED <<log, pos>>, Len(log) \in Nat,
           committed' = committed \/ \E o \in Gone : committed' = o + 1,
           \/ buffer' = buffer /\ Gone' \subseteq Gone
           \/ buffer' = <<>> /\ Gone' \subseteq Gone \cup Buffered,
           run' \in {"on", "cancelled", "flushing", "done"}, loop' \in {"on", "returned"},
           flush' \in [{"run", "loop"} -> Flush], Flushing',
           discard' \cup saved' \cup failed' \cup dropped' \subseteq Offset
    PROVE  ConsumerInv'
<1>1. /\ committed \in 0..Len(log) /\ pos \in 0..Len(log)
      /\ buffer \in Seq(Offset) /\ Len(buffer) <= MaxBuffer /\ MaxBuffer \in Nat
      /\ Offset' = Offset /\ Flush' = Flush
    BY PersistenceAssumption
       DEF ConsumerInv, ConsumerTypes, PersistenceAssumption, Offset, Flush
<1>2. Buffered \subseteq Offset /\ Gone \subseteq Offset
  <2>1. flush["run"] \in Flush /\ flush["loop"] \in Flush /\ discard \subseteq Offset
      BY DEF ConsumerInv, ConsumerTypes
  <2>2. Pending("run") \subseteq Offset /\ Pending("loop") \subseteq Offset
      BY Zenon, <2>1, PendingHeld
  <2>3. Buffered \subseteq Offset
      BY Zenon, <1>1, OffsetsHeld DEF Buffered
  <2> QED  BY Zenon, <2>1, <2>2, <2>3 DEF Gone
<1>3. /\ committed <= pos
      /\ \A o \in Buffered \cup Gone : o < pos
      /\ \A o \in Gone, b \in Buffered : o < b
      /\ \A i, j \in DOMAIN buffer : i < j => buffer[i] < buffer[j]
    BY DEF ConsumerInv, Ordered
<1>4. committed' \in 0..pos
    BY <1>1, <1>2, <1>3 DEF Offset
<1>5. buffer' \in Seq(Offset) /\ Len(buffer') <= MaxBuffer
  <2>1. <<>> \in Seq(Offset) /\ Len(<<>>) = 0 /\ 0 <= MaxBuffer
      BY <1>1
  <2> QED  BY Zenon, <1>1, <2>1
<1>6. ConsumerTypes'
  <2>1. committed' \in 0..Len(log)
      BY <1>1, <1>4
  <2> QED  BY <1>1, <1>5, <2>1 DEF ConsumerTypes
<1>7. buffer' = <<>> => Buffered' = {}
    BY DEF Buffered
<1>8. buffer' = buffer => Buffered' = Buffered
    BY DEF Buffered
<1>9. Ordered'
  <2>1. committed' <= pos'
      BY <1>1, <1>4
  <2>2. \A o \in Buffered' \cup Gone' : o < pos'
      BY <1>3, <1>7, <1>8
  <2>3. \A o \in Gone', b \in Buffered' : o < b
      BY <1>3, <1>7, <1>8
  <2>4. \A i, j \in DOMAIN buffer' : i < j => buffer'[i] < buffer'[j]
      BY <1>3
  <2> QED  BY Zenon, <2>1, <2>2, <2>3, <2>4 DEF Ordered
<1>10. BufferRedelivered'
  <2> SUFFICES ASSUME NEW b \in Buffered, ~(b >= committed')
               PROVE  \E j \in b..(committed' - 1) : log[j + 1] = "junk"
      BY <1>7, <1>8 DEF BufferRedelivered
  <2>1. committed' = committed
      BY <1>2, <1>3 DEF Offset
  <2> QED  BY <2>1 DEF ConsumerInv, BufferRedelivered
<1> QED  BY Zenon, <1>6, <1>9, <1>10 DEF ConsumerInv

\* A flush moves on to x, whose offsets are in S.
LEMMA FlushMoves ==
    ASSUME ConsumerInv, NEW f \in {"run", "loop"}, NEW x \in Flush, NEW S,
           flush' = [flush EXCEPT ![f] = x], discard' = discard,
           {x.batch[i] : i \in DOMAIN x.batch} \cup x.ok \subseteq S,
           x.at = "save" => x.batch # <<>>, x.at = "commit" => x.ok # {}
    PROVE  /\ flush' \in [{"run", "loop"} -> Flush]
           /\ Flushing'
           /\ Gone' \subseteq Gone \cup S
<1>1. flush \in [{"run", "loop"} -> Flush]
    BY Zenon DEF ConsumerInv, ConsumerTypes
<1>2. /\ flush' \in [{"run", "loop"} -> Flush] /\ flush'[f] = x
      /\ \A g \in {"run", "loop"} \ {f} : flush'[g] = flush[g]
    BY Zenon, <1>1
<1>3. Flushing'
    BY Zenon, <1>2 DEF ConsumerInv, Flushing
<1>4. Pending(f)' \subseteq S /\ \A g \in {"run", "loop"} \ {f} : Pending(g)' = Pending(g)
    BY <1>2 DEF Pending
<1> QED  BY Zenon, <1>2, <1>3, <1>4 DEF Gone

\* What ConsumerInv says of the offsets, in one place.
LEMMA Offsets ==
    ASSUME StoredTypes, ConsumerInv
    PROVE  /\ log \in Seq(Msg \cup {"junk"}) /\ Len(log) \in Nat
           /\ committed \in 0..Len(log) /\ pos \in 0..Len(log)
           /\ buffer \in Seq(Offset) /\ Len(buffer) <= MaxBuffer /\ MaxBuffer \in Nat \ {0}
           /\ flush \in [{"run", "loop"} -> Flush]
           /\ Buffered \subseteq Offset /\ Gone \subseteq Offset
           /\ committed <= pos
           /\ \A o \in Buffered \cup Gone : o < pos
           /\ \A o \in Gone, b \in Buffered : o < b
           /\ \A i, j \in DOMAIN buffer : i < j => buffer[i] < buffer[j]
<1>1. /\ log \in Seq(Msg \cup {"junk"}) /\ Len(log) \in Nat
      /\ committed \in 0..Len(log) /\ pos \in 0..Len(log)
      /\ buffer \in Seq(Offset) /\ Len(buffer) <= MaxBuffer /\ MaxBuffer \in Nat \ {0}
      /\ flush \in [{"run", "loop"} -> Flush] /\ discard \subseteq Offset
    BY PersistenceAssumption DEF StoredTypes, ConsumerInv, ConsumerTypes, PersistenceAssumption
<1>2. Buffered \subseteq Offset
    BY <1>1 DEF Buffered
<1>3. Pending("run") \subseteq Offset /\ Pending("loop") \subseteq Offset
  <2>1. flush["run"] \in Flush /\ flush["loop"] \in Flush
      BY <1>1
  <2> QED  BY Zenon, <2>1, PendingHeld
<1> QED  BY Zenon, <1>1, <1>2, <1>3 DEF ConsumerInv, Ordered, Gone

\* Offsets and positions are integers.
LEMMA OffsetsAreInts == (\A o \in Offset : o \in Int) /\ \A n \in 0..Len(log) : n \in Int
BY DEF Offset

\* The commit of a malformed record may pass the buffer, which that record excuses.
LEMMA FetchJunkKeeps ==
    ASSUME StoredTypes, ConsumerInv, FetchJunk
    PROVE  ConsumerInv'
<1>1. /\ pos < Len(log) /\ log[pos + 1] = "junk"
      /\ committed' = committed \/ committed' = pos + 1
      /\ pos' = pos + 1
      /\ UNCHANGED <<log, run, loop, buffer, flush, discard, saved, failed, dropped>>
    BY DEF FetchJunk, MayFetch, CommitUpTo, histories
<1>2. /\ Len(log) \in Nat /\ committed \in 0..Len(log) /\ pos \in 0..Len(log) /\ committed <= pos
      /\ Buffered \subseteq Offset /\ Gone \subseteq Offset
      /\ \A o \in Buffered \cup Gone : o < pos
    BY Zenon, Offsets
<1>3. Offset' = Offset /\ Flush' = Flush /\ Buffered' = Buffered /\ Gone' = Gone
    BY Zenon, <1>1 DEF Offset, Flush, Buffered, Gone, Pending
<1>4. ConsumerTypes'
  <2>1. committed' \in 0..Len(log) /\ pos' \in 0..Len(log)
      BY <1>1, <1>2
  <2> QED  BY Zenon, <1>1, <1>3, <2>1 DEF ConsumerInv, ConsumerTypes
<1>5. Flushing'
    BY Zenon, <1>1 DEF ConsumerInv, Flushing
<1>6. Ordered'
  <2>1. \A o \in Buffered' \cup Gone' : o < pos'
      BY <1>1, <1>2, <1>3 DEF Offset
  <2> QED  BY <1>1, <1>2, <1>3, <2>1 DEF ConsumerInv, Ordered
<1>7. BufferRedelivered'
  <2> SUFFICES ASSUME NEW b \in Buffered, ~(b >= committed')
               PROVE  \E j \in b..(committed' - 1) : log[j + 1] = "junk"
      BY <1>1, <1>3 DEF BufferRedelivered
  <2>1. CASE committed' = committed
      BY <2>1 DEF ConsumerInv, BufferRedelivered
  <2>2. CASE committed' = pos + 1
    <3>1. pos \in b..(committed' - 1)
      <4>1. b \in Int /\ pos \in Int /\ b < pos
          BY Zenon, <1>2, OffsetsAreInts
      <4> QED  BY <2>2, <4>1
    <3> QED  BY <1>1, <3>1
  <2> QED  BY <1>1, <2>1, <2>2
<1> QED  BY Zenon, <1>4, <1>5, <1>6, <1>7 DEF ConsumerInv

\* A message that is read is newer than the buffer; one cut off is the oldest.
LEMMA FetchKeeps ==
    ASSUME StoredTypes, ConsumerInv, Fetch
    PROVE  ConsumerInv'
<1> DEFINE full == Len(buffer) >= MaxBuffer
           base == IF full THEN Tail(buffer) ELSE buffer
<1>1. /\ pos < Len(log) /\ buffer' = Append(base, pos) /\ pos' = pos + 1
      /\ discard' = IF full THEN discard \cup {Head(buffer)} ELSE discard
      /\ dropped' = IF full THEN dropped \cup {Head(buffer)} ELSE dropped
      /\ UNCHANGED <<log, committed, run, loop, flush, saved, failed>>
    BY DEF Fetch, MayFetch
<1>2. /\ Len(log) \in Nat /\ committed \in 0..Len(log) /\ pos \in 0..Len(log) /\ committed <= pos
      /\ buffer \in Seq(Offset) /\ Len(buffer) <= MaxBuffer /\ MaxBuffer \in Nat \ {0}
      /\ Buffered \subseteq Offset /\ Gone \subseteq Offset
      /\ \A o \in Buffered \cup Gone : o < pos
      /\ \A o \in Gone, b \in Buffered : o < b
      /\ \A i, j \in DOMAIN buffer : i < j => buffer[i] < buffer[j]
    BY Offsets
<1>3. /\ base \in Seq(Offset) /\ Len(base) < MaxBuffer
      /\ \A i \in DOMAIN base : base[i] \in Buffered
      /\ \A i, j \in DOMAIN base : i < j => base[i] < base[j]
      /\ full => Head(buffer) \in Buffered /\ \A i \in DOMAIN base : Head(buffer) < base[i]
  <2>1. CASE full
    <3>1. /\ buffer # <<>> /\ base = Tail(buffer) /\ base \in Seq(Offset)
          /\ Len(base) = Len(buffer) - 1 /\ DOMAIN base = 1..Len(buffer) - 1
          /\ Head(buffer) = buffer[1] /\ DOMAIN buffer = 1..Len(buffer)
          /\ \A i \in DOMAIN base : i + 1 \in DOMAIN buffer /\ base[i] = buffer[i + 1]
          /\ Len(buffer) \in Nat /\ 1 \in DOMAIN buffer
        BY <1>2, <2>1
    <3> HIDE DEF base
    <3>2. Len(base) < MaxBuffer
        BY <1>2, <3>1
    <3>3. \A i \in DOMAIN base : base[i] \in Buffered
        BY <3>1 DEF Buffered
    <3>4. \A i, j \in DOMAIN base : i < j => base[i] < base[j]
        BY <1>2, <3>1
    <3>5. Head(buffer) \in Buffered /\ \A i \in DOMAIN base : Head(buffer) < base[i]
      <4>1. Head(buffer) \in Buffered
          BY Zenon, <3>1 DEF Buffered
      <4>2. \A i \in DOMAIN base : 1 < i + 1
          BY <3>1
      <4> QED  BY Zenon, <1>2, <3>1, <4>1, <4>2
    <3> QED  BY Zenon, <3>1, <3>2, <3>3, <3>4, <3>5
  <2>2. CASE ~full
    <3>1. base = buffer
        BY Zenon, <2>2
    <3>2. Len(buffer) < MaxBuffer
        BY <1>2, <2>2
    <3> HIDE DEF base
    <3> QED  BY Zenon, <1>2, <2>2, <3>1, <3>2 DEF Buffered
  <2> QED  BY Zenon, <2>1, <2>2
<1> HIDE DEF base
<1>4. /\ buffer' \in Seq(Offset) /\ Len(buffer') <= MaxBuffer
      /\ DOMAIN buffer' = 1..Len(base) + 1 /\ DOMAIN base = 1..Len(base) /\ Len(base) \in Nat
      /\ \A i \in DOMAIN base : buffer'[i] = base[i]
      /\ buffer'[Len(base) + 1] = pos
    BY <1>1, <1>2, <1>3 DEF Offset
<1>5. \A b \in Buffered' : b = pos \/ \E i \in DOMAIN base : b = base[i]
  <2>1. \A i \in DOMAIN buffer' : i \in DOMAIN base \/ i = Len(base) + 1
      BY <1>4
  <2> QED  BY Zenon, <1>4, <2>1 DEF Buffered
<1>6. Pending("run")' = Pending("run") /\ Pending("loop")' = Pending("loop")
      /\ Offset' = Offset /\ Flush' = Flush
    BY Zenon, <1>1 DEF Pending, Offset, Flush
<1>7. \A o \in Gone' : o \in Gone \/ (full /\ o = Head(buffer))
    BY Zenon, <1>1, <1>6 DEF Gone
<1>8. ConsumerTypes'
  <2>1. discard' \cup dropped' \subseteq Offset
      BY <1>1, <1>2, <1>3 DEF ConsumerInv, ConsumerTypes
  <2>2. pos' \in 0..Len(log)
      BY <1>1, <1>2
  <2> QED  BY Zenon, <1>1, <1>2, <1>4, <1>6, <2>1, <2>2 DEF ConsumerInv, ConsumerTypes
<1>9. Flushing'
    BY Zenon, <1>1 DEF ConsumerInv, Flushing
<1>10. \A o \in Gone' : o < pos /\ o \in Offset /\ \A i \in DOMAIN base : o < base[i]
    BY <1>2, <1>3, <1>7
<1>11. \A i \in DOMAIN base : base[i] < pos /\ base[i] \in Offset
    BY Zenon, <1>2, <1>3
<1>12. Ordered'
  <2>1. \A o \in Buffered' \cup Gone' : o < pos'
    <3>1. \A o \in Buffered' \cup Gone' : o \in Int /\ (o < pos \/ o = pos)
        BY <1>2, <1>5, <1>10, <1>11 DEF Offset
    <3> QED  BY <1>1, <1>2, <3>1
  <2>2. \A o \in Gone', b \in Buffered' : o < b
      BY <1>5, <1>10
  <2>3. \A i, j \in DOMAIN buffer' : i < j => buffer'[i] < buffer'[j]
    <3> SUFFICES ASSUME NEW i \in DOMAIN buffer', NEW j \in DOMAIN buffer', i < j
                 PROVE  buffer'[i] < buffer'[j]
        OBVIOUS
    <3>1. i \in DOMAIN base /\ (j \in DOMAIN base \/ j = Len(base) + 1)
        BY <1>4
    <3> QED  BY <1>3, <1>4, <1>11, <3>1
  <2> QED  BY <1>1, <1>2, <2>1, <2>2, <2>3 DEF Ordered
<1>13. BufferRedelivered'
  <2> SUFFICES ASSUME NEW b \in Buffered'
               PROVE  b >= committed \/ \E j \in b..(committed - 1) : log[j + 1] = "junk"
      BY <1>1 DEF BufferRedelivered
  <2>1. CASE b = pos
      BY <1>2, <2>1
  <2>2. CASE b \in Buffered
      BY Zenon, <2>2 DEF ConsumerInv, BufferRedelivered
  <2> QED  BY Zenon, <1>3, <1>5, <2>1, <2>2
<1> QED  BY <1>8, <1>9, <1>12, <1>13 DEF ConsumerInv

\* A flush that is over holds no offset.
LEMMA NoFlushHolds ==
    /\ NoFlush \in Flush /\ NoFlush.at = "idle"
    /\ {NoFlush.batch[i] : i \in DOMAIN NoFlush.batch} \cup NoFlush.ok = {}
<1>1. <<>> \in Seq(Offset) /\ DOMAIN <<>> = {}
    OBVIOUS
<1> QED  BY <1>1 DEF NoFlush, Flush

\* The commit of a discarded message stays below the buffer.
LEMMA DiscardKeeps ==
    ASSUME StoredTypes, ConsumerInv, NEW o \in discard, CommitDiscarded(o)
    PROVE  ConsumerInv'
<1>1. /\ committed' = committed \/ committed' = o + 1
      /\ discard' = discard \ {o}
      /\ UNCHANGED <<log, run, loop, pos, buffer, flush, saved, failed, dropped>>
    BY Zenon DEF CommitDiscarded, CommitUpTo, histories
<1>2. o \in Gone /\ Gone' \subseteq Gone
  <2>1. Pending("run")' = Pending("run") /\ Pending("loop")' = Pending("loop")
      BY Zenon, <1>1 DEF Pending
  <2> QED  BY Zenon, <1>1, <2>1 DEF Gone
<1>3. Flushing' /\ Len(log) \in Nat
    BY <1>1, Offsets DEF ConsumerInv, Flushing
<1>4. discard' \cup saved' \cup failed' \cup dropped' \subseteq Offset
    BY <1>1 DEF ConsumerInv, ConsumerTypes
<1>5. /\ run' \in {"on", "cancelled", "flushing", "done"} /\ loop' \in {"on", "returned"}
      /\ flush' \in [{"run", "loop"} -> Flush]
    BY <1>1 DEF ConsumerInv, ConsumerTypes
<1> QED  BY Zenon, <1>1, <1>2, <1>3, <1>4, <1>5, ConsumerKeeps

\* A flush takes the whole buffer.
LEMMA BatchKeeps ==
    ASSUME StoredTypes, ConsumerInv, NEW f \in {"run", "loop"}, TakeBatch(f),
           run' \in {"on", "cancelled", "flushing", "done"}, loop' \in {"on", "returned"},
           UNCHANGED <<log, committed, pos, discard, saved, failed, dropped>>
    PROVE  ConsumerInv'
<1> DEFINE x == [at |-> "save", batch |-> buffer, ok |-> {}]
<1>1. flush' = [flush EXCEPT ![f] = x] /\ buffer # <<>> /\ buffer' = <<>>
    BY DEF TakeBatch
<1>2. /\ x \in Flush /\ x.at = "save" /\ x.batch # <<>>
      /\ {x.batch[i] : i \in DOMAIN x.batch} \cup x.ok \subseteq Buffered
    BY Zenon, <1>1, Offsets DEF Flush, Buffered
<1> HIDE DEF x
<1>3. flush' \in [{"run", "loop"} -> Flush] /\ Flushing' /\ Gone' \subseteq Gone \cup Buffered
    BY Zenon, <1>1, <1>2, FlushMoves
<1>4. discard' \cup saved' \cup failed' \cup dropped' \subseteq Offset /\ Len(log) \in Nat
    BY Offsets DEF ConsumerInv, ConsumerTypes
<1> QED  BY Zenon, <1>1, <1>3, <1>4, ConsumerKeeps

\* The ticker of the loop takes the batch.
LEMMA LoopFlushKeeps ==
    ASSUME StoredTypes, ConsumerInv, LoopFlush
    PROVE  ConsumerInv'
<1>1. /\ TakeBatch("loop")
      /\ UNCHANGED <<log, committed, run, loop, pos, discard, saved, failed, dropped>>
    BY DEF LoopFlush, histories
<1>2. run' \in {"on", "cancelled", "flushing", "done"} /\ loop' \in {"on", "returned"}
    BY <1>1 DEF ConsumerInv, ConsumerTypes
<1> QED  BY <1>1, <1>2, BatchKeeps

\* A step that changes neither offsets nor flushes.
LEMMA ControlKeeps ==
    ASSUME StoredTypes, ConsumerInv,
           run' \in {"on", "cancelled", "flushing", "done"}, loop' \in {"on", "returned"},
           UNCHANGED <<log, committed, pos, buffer, flush, discard, saved, failed, dropped>>
    PROVE  ConsumerInv'
<1>1. Gone' \subseteq Gone /\ Flushing'
    BY Zenon DEF Gone, Pending, ConsumerInv, Flushing
<1>2. /\ flush' \in [{"run", "loop"} -> Flush] /\ Len(log) \in Nat
      /\ discard' \cup saved' \cup failed' \cup dropped' \subseteq Offset
    BY Offsets DEF ConsumerInv, ConsumerTypes
<1> QED  BY Zenon, <1>1, <1>2, ConsumerKeeps

\* The end of Run, with or without a last batch.
LEMMA RunEndKeeps ==
    ASSUME StoredTypes, ConsumerInv, RunEnds
    PROVE  ConsumerInv'
<1>1. UNCHANGED <<log, committed, loop, pos, discard, saved, failed, dropped>>
    BY DEF RunEnds, histories
<1>2. loop' \in {"on", "returned"}
    BY <1>1 DEF ConsumerInv, ConsumerTypes
<1>3. CASE run' = "done" /\ UNCHANGED <<buffer, flush>>
    BY <1>1, <1>2, <1>3, ControlKeeps
<1>4. CASE run' = "flushing" /\ TakeBatch("run")
    BY <1>1, <1>2, <1>4, BatchKeeps
<1> QED  BY <1>3, <1>4 DEF RunEnds

\* One message of a batch is done with, saved or not.
LEMMA AfterSaveKeeps ==
    ASSUME StoredTypes, ConsumerInv, NEW f \in {"run", "loop"}, flush[f].at = "save",
           NEW ok \in SUBSET (flush[f].ok \cup {Head(flush[f].batch)}), AfterSave(f, ok),
           UNCHANGED <<log, committed, loop, pos, buffer, discard, dropped>>,
           saved' \cup failed' \subseteq saved \cup failed \cup {Head(flush[f].batch)}
    PROVE  ConsumerInv'
<1> DEFINE batch == flush[f].batch
           rest == Tail(batch)
           x == [at |-> IF rest = <<>> THEN "commit" ELSE "save", batch |-> rest, ok |-> ok]
<1>1. /\ batch \in Seq(Offset) /\ batch # <<>> /\ flush[f].ok \subseteq Offset
      /\ run \in {"on", "cancelled", "flushing", "done"} /\ loop \in {"on", "returned"}
      /\ saved \cup failed \cup discard \cup dropped \subseteq Offset
    BY DEF ConsumerInv, ConsumerTypes, Flushing, Flush
<1>2. /\ rest \in Seq(Offset) /\ Head(batch) \in Offset
      /\ Head(batch) \in Pending(f)
      /\ {rest[i] : i \in DOMAIN rest} \subseteq Pending(f)
  <2>1. /\ rest \in Seq(Offset) /\ Head(batch) = batch[1] /\ 1 \in DOMAIN batch
        /\ Head(batch) \in Offset
        /\ \A i \in DOMAIN rest : i + 1 \in DOMAIN batch /\ rest[i] = batch[i + 1]
      BY Zenon, <1>1, BatchTaken
  <2> QED  BY Zenon, <2>1 DEF Pending
<1>3. ok \subseteq Pending(f) /\ ok \subseteq Offset
    BY Zenon, <1>1, <1>2 DEF Pending
<1>4. Pending(f) \subseteq Gone
    BY Zenon DEF Gone
<1>5. discard' \cup saved' \cup failed' \cup dropped' \subseteq Offset /\ Len(log) \in Nat
    BY Zenon, <1>1, <1>2, Offsets
<1>6. CASE EndFlush(f)
  <2>1. flush' = [flush EXCEPT ![f] = NoFlush] /\ run' \in {"on", "cancelled", "flushing", "done"}
      BY <1>1, <1>6 DEF EndFlush
  <2>2. flush' \in [{"run", "loop"} -> Flush] /\ Flushing' /\ Gone' \subseteq Gone \cup {}
      BY Zenon, <2>1, NoFlushHolds, FlushMoves
  <2>3. Gone' \subseteq Gone
      BY ZenonT(30), <2>2
  <2> QED  BY ZenonT(30), <1>1, <1>5, <2>1, <2>2, <2>3, ConsumerKeeps
<1>7. CASE flush' = [flush EXCEPT ![f] = x] /\ UNCHANGED run /\ ~(rest = <<>> /\ ok = {})
  <2>1. /\ x \in Flush
        /\ {x.batch[i] : i \in DOMAIN x.batch} \cup x.ok \subseteq Pending(f)
        /\ x.at = "save" => x.batch # <<>>
        /\ x.at = "commit" => x.ok # {}
    <3> HIDE DEF rest
    <3> QED  BY Zenon, <1>2, <1>3, <1>7 DEF Flush
  <2> HIDE DEF x
  <2>2. flush' \in [{"run", "loop"} -> Flush] /\ Flushing' /\ Gone' \subseteq Gone \cup Pending(f)
      BY Zenon, <1>7, <2>1, FlushMoves
  <2> QED  BY Zenon, <1>1, <1>4, <1>5, <1>7, <2>2, ConsumerKeeps
<1> QED  BY Zenon, <1>6, <1>7 DEF AfterSave

\* The highest offset that was saved is one that has left the buffer.
LEMMA CommitKeeps ==
    ASSUME StoredTypes, ConsumerInv, NEW f \in {"run", "loop"}, Commit(f)
    PROVE  ConsumerInv'
<1>1. /\ flush[f].at = "commit"
      /\ committed' = committed \/ committed' = Max(flush[f].ok) + 1
      /\ flush' = [flush EXCEPT ![f] = NoFlush] /\ run' \in {"done", run}
      /\ UNCHANGED <<log, loop, pos, buffer, discard, saved, failed, dropped>>
    BY Zenon DEF Commit, CommitUpTo, EndFlush, histories
<1>2. flush[f].ok # {} /\ flush[f].ok \subseteq Gone
    BY <1>1 DEF ConsumerInv, Flushing, Gone, Pending
<1>3. Gone \subseteq Nat /\ pos \in Nat /\ \A o \in Gone : o < pos
    BY Offsets DEF Offset
<1>4. Max(flush[f].ok) \in Gone
  <2> DEFINE ok == flush[f].ok
  <2>1. ok \in SUBSET Nat /\ ok # {} /\ \A o \in ok : o < pos
      BY Zenon, <1>2, <1>3
  <2> HIDE DEF ok
  <2>2. Max(ok) \in ok
      BY <1>3, <2>1, MaxIsMember
  <2> QED  BY <1>2, <2>2 DEF ok
<1>5. flush' \in [{"run", "loop"} -> Flush] /\ Flushing' /\ Gone' \subseteq Gone \cup {}
    BY Zenon, <1>1, NoFlushHolds, FlushMoves
<1>6. /\ run' \in {"on", "cancelled", "flushing", "done"} /\ loop' \in {"on", "returned"}
      /\ discard' \cup saved' \cup failed' \cup dropped' \subseteq Offset /\ Len(log) \in Nat
    BY <1>1, Offsets DEF ConsumerInv, ConsumerTypes
<1> QED  BY Zenon, <1>1, <1>4, <1>5, <1>6, ConsumerKeeps

\* A new process starts at the committed offset with nothing in hand.
LEMMA RestartKeeps ==
    ASSUME StoredTypes, ConsumerInv, Restart
    PROVE  ConsumerInv'
<1>1. /\ run' = "on" /\ loop' = "on" /\ pos' = committed /\ buffer' = <<>>
      /\ flush' = [f \in {"run", "loop"} |-> NoFlush] /\ discard' = {}
      /\ UNCHANGED <<log, committed, saved, failed, dropped>>
    BY DEF Restart, histories
<1>2. Offset' = Offset /\ Flush' = Flush
    BY <1>1 DEF Offset, Flush
<1>3. Buffered' = {} /\ Gone' = {}
  <2>1. Buffered' = {}
      BY <1>1 DEF Buffered
  <2>2. flush'["run"] = NoFlush /\ flush'["loop"] = NoFlush
      BY <1>1
  <2>3. Pending("run")' = {} /\ Pending("loop")' = {}
      BY <2>2, NoFlushHolds DEF Pending
  <2> QED  BY <1>1, <2>1, <2>3 DEF Gone
<1>4. committed \in 0..Len(log) /\ MaxBuffer \in Nat /\ Len(log) \in Nat
    BY Offsets
<1>5. ConsumerTypes'
  <2>1. buffer' \in Seq(Offset) /\ Len(buffer') <= MaxBuffer
    <3>1. <<>> \in Seq(Offset) /\ Len(<<>>) = 0
        OBVIOUS
    <3>2. 0 <= MaxBuffer
        BY <1>4
    <3> QED  BY Zenon, <1>1, <3>1, <3>2
  <2>2. flush' \in [{"run", "loop"} -> Flush]
      BY Zenon, <1>1, NoFlushHolds
  <2> QED  BY <1>1, <1>2, <1>4, <2>1, <2>2 DEF ConsumerInv, ConsumerTypes
<1>6. Flushing'
    BY <1>1, NoFlushHolds DEF Flushing
<1>7. Ordered' /\ BufferRedelivered'
  <2>1. DOMAIN <<>> = {}
      OBVIOUS
  <2>2. committed <= committed
      BY <1>4
  <2> QED  BY Zenon, <1>1, <1>3, <2>1, <2>2 DEF Ordered, BufferRedelivered
<1> QED  BY <1>5, <1>6, <1>7 DEF ConsumerInv

-----------------------------------------------------------------------------
(* The system                                                              *)

\* A step that leaves the gateway and the tables alone.
LEMMA StoredStays ==
    ASSUME StoredInv, UNCHANGED <<gatewayVars, log, rows, recalls, deleted>>
    PROVE  StoredInv'
BY DEF StoredInv, StoredTypes, Handed, RecallSticks, gatewayVars, Row, NoRow

\* The head of a list is one of its elements.
LEMMA HeadIn ==
    ASSUME NEW S, NEW s \in Seq(S), s # <<>>
    PROVE  Head(s) \in S
OBVIOUS

\* A flush saves what was published, so a message that persistAsync was given.
LEMMA SaveNextKeeps ==
    ASSUME StoredInv, ConsumerInv, NEW f \in {"run", "loop"}, SaveNext(f)
    PROVE  StoredInv' /\ ConsumerInv'
<1> DEFINE o == Head(flush[f].batch)
<1>1. /\ flush[f].at = "save"
      /\ UNCHANGED <<gatewayVars, log, committed, loop, pos, buffer, discard, dropped,
                     recalls, deleted>>
    BY Zenon DEF SaveNext
<1>2. o \in Offset /\ log[o + 1] \in given \cup {"junk"}
  <2>1. flush[f].batch \in Seq(Offset) /\ flush[f].batch # <<>>
      BY <1>1 DEF ConsumerInv, ConsumerTypes, Flushing, Flush
  <2>2. o \in Offset
      BY <2>1, HeadIn
  <2>3. log \in Seq(Msg \cup {"junk"})
      BY DEF StoredInv, StoredTypes
  <2> HIDE DEF o
  <2>4. o + 1 \in DOMAIN log
      BY <2>2, <2>3 DEF Offset
  <2> QED  BY Zenon, <2>2, <2>4 DEF StoredInv, Handed
<1>3. StoredTypes
    BY DEF StoredInv
<1>4. CASE Save(log[o + 1]) /\ saved' = saved \cup {o} /\ AfterSave(f, flush[f].ok \cup {o}) /\ UNCHANGED failed
  <2>1. /\ worker' \in [Worker -> [at : {"idle", "publish", "save", "returned"},
                                   msg : Msg \cup {"none"}]]
        /\ \A w \in Worker : worker'[w] = worker[w] \/ worker'[w] = Free
        /\ UNCHANGED <<given, queue, gateway, log, recalls, deleted>>
      BY Zenon, <1>1, <1>3 DEF StoredTypes, gatewayVars
  <2>2. StoredInv'
    <3> HIDE DEF o
    <3> QED  BY Zenon, <1>2, <1>4, <2>1, SaveKeeps
  <2>3. ConsumerInv'
      BY Zenon, <1>1, <1>3, <1>4, AfterSaveKeeps
  <2> QED  BY <2>2, <2>3
<1>5. CASE failed' = failed \cup {o} /\ AfterSave(f, flush[f].ok) /\ UNCHANGED <<rows, saved>>
  <2>1. UNCHANGED <<gatewayVars, log, rows, recalls, deleted>>
      BY Zenon, <1>1, <1>5
  <2>2. StoredInv'
      BY Zenon, <2>1, StoredStays
  <2>3. ConsumerInv'
      BY Zenon, <1>1, <1>3, <1>5, AfterSaveKeeps
  <2> QED  BY Zenon, <2>2, <2>3
<1> QED  BY Zenon, <1>4, <1>5 DEF SaveNext

\* A new system has nothing stored and nothing to redeliver.
LEMMA InitHolds ==
    ASSUME Init
    PROVE  StoredInv /\ ConsumerInv
<1>1. /\ <<>> \in Seq(Msg) /\ <<>> \in Seq(Offset) /\ <<>> \in Seq(Msg \cup {"junk"})
      /\ DOMAIN <<>> = {} /\ Len(<<>>) = 0
    OBVIOUS
<1>2. QueueSize \in Nat /\ MaxBuffer \in Nat
    BY Zenon, PersistenceAssumption DEF PersistenceAssumption
<1>3. StoredTypes
    BY <1>1, <1>2 DEF Init, StoredTypes, Row, Free
<1>4. Handed /\ RecallSticks
    BY <1>1 DEF Init, Handed, Free, RecallSticks
<1>5. ConsumerTypes
  <2>1. flush \in [{"run", "loop"} -> Flush]
      BY Zenon, NoFlushHolds DEF Init
  <2> QED  BY <1>1, <1>2, <2>1 DEF Init, ConsumerTypes
<1>6. Flushing
    BY NoFlushHolds DEF Init, Flushing
<1>7. Buffered = {} /\ Gone = {}
  <2>1. Buffered = {} /\ discard = {}
      BY DEF Init, Buffered
  <2>2. flush["run"] = NoFlush /\ flush["loop"] = NoFlush
      BY Zenon DEF Init
  <2>3. Pending("run") = {} /\ Pending("loop") = {}
      BY Zenon, <2>2, NoFlushHolds DEF Pending
  <2> QED  BY <2>1, <2>3 DEF Gone
<1>8. Ordered /\ BufferRedelivered
  <2>1. committed = 0 /\ pos = 0 /\ buffer = <<>>
      BY Zenon DEF Init
  <2>2. committed <= pos
      BY <2>1
  <2> QED  BY Zenon, <1>1, <1>7, <2>1, <2>2 DEF Ordered, BufferRedelivered
<1> QED  BY <1>3, <1>4, <1>5, <1>6, <1>8 DEF StoredInv, ConsumerInv

\* Every step of the gateway, of the consumer and of a restart keeps both.
LEMMA StepHolds ==
    ASSUME StoredInv, ConsumerInv, [Next]_vars
    PROVE  StoredInv' /\ ConsumerInv'
<1>1. StoredTypes
    BY DEF StoredInv
<1>2. ASSUME StoredInv', Grows, ConsumerStays PROVE StoredInv' /\ ConsumerInv'
    BY <1>1, <1>2, GrowthKeeps DEF StoredInv
<1>3. CASE \/ \E m \in Msg : PersistAsync(m)
           \/ \E w \in Worker : TakeTask(w) \/ Publish(w) \/ SaveDirect(w) \/ WorkerReturns(w)
           \/ Stop
           \/ PublishJunk
    BY Zenon, <1>2, <1>3, WorkersKeep
<1>4. CASE \E m \in Msg : Recall(m) \/ Edit(m) \/ Delete(m)
    BY <1>2, <1>4, RowsKeep
<1>5. CASE FetchJunk
  <2>1. StoredInv'
      BY Zenon, <1>5, StoredStays DEF FetchJunk
  <2> QED  BY Zenon, <1>1, <1>5, <2>1, FetchJunkKeeps
<1>6. CASE Fetch
  <2>1. StoredInv'
      BY <1>6, StoredStays DEF Fetch
  <2> QED  BY <1>1, <1>6, <2>1, FetchKeeps
<1>7. CASE \E o \in discard : CommitDiscarded(o)
  <2>1. StoredInv'
      BY Zenon, <1>7, StoredStays DEF CommitDiscarded
  <2> QED  BY Zenon, <1>1, <1>7, <2>1, DiscardKeeps
<1>8. CASE LoopFlush
  <2>1. StoredInv'
      BY Zenon, <1>8, StoredStays DEF LoopFlush
  <2> QED  BY <1>1, <1>8, <2>1, LoopFlushKeeps
<1>9. CASE RunEnds
  <2>1. StoredInv'
      BY <1>9, StoredStays DEF RunEnds
  <2> QED  BY <1>1, <1>9, <2>1, RunEndKeeps
<1>10. CASE \E f \in {"run", "loop"} : SaveNext(f)
    BY <1>10, SaveNextKeeps
<1>11. CASE \E f \in {"run", "loop"} : Commit(f)
  <2>1. StoredInv'
      BY Zenon, <1>11, StoredStays DEF Commit
  <2> QED  BY Zenon, <1>1, <1>11, <2>1, CommitKeeps
<1>12. CASE LoopReturns \/ Cancel \/ UNCHANGED vars
  <2>1. /\ UNCHANGED <<gatewayVars, log, committed, pos, buffer, flush, discard, rows, saved,
                       failed, dropped, recalls, deleted>>
        /\ run' \in {run, "cancelled"} /\ loop' \in {loop, "returned"}
      BY Zenon, <1>12 DEF LoopReturns, Cancel, vars, consumerVars, histories
  <2>2. run' \in {"on", "cancelled", "flushing", "done"} /\ loop' \in {"on", "returned"}
      BY Zenon, <2>1 DEF ConsumerInv, ConsumerTypes
  <2> QED  BY <1>1, <2>1, <2>2, StoredStays, ControlKeeps
<1>13. CASE Restart
  <2>1. StoredInv'
      BY <1>13, StoredStays DEF Restart
  <2> QED  BY <1>1, <1>13, <2>1, RestartKeeps
<1> QED
    BY Zenon, <1>3, <1>4, <1>5, <1>6, <1>7, <1>8, <1>9, <1>10, <1>11, <1>12, <1>13 DEF Next, ConsumerStep

\* Both invariants hold in every state.
LEMMA PersistenceInvariant == Spec => [](StoredInv /\ ConsumerInv)
BY InitHolds, StepHolds, PTL DEF Spec

\* Queue, topic, buffer, flushes and rows keep their types through crashes and a
\* full buffer; no commit leaves the topic.
THEOREM TypeCorrect == Spec => []TypeOK
<1>1. StoredInv /\ ConsumerInv => TypeOK
    BY DEF StoredInv, StoredTypes, ConsumerInv, ConsumerTypes, TypeOK
<1> QED  BY <1>1, PersistenceInvariant, PTL

\* Whatever the consumer has not tried to save is redelivered after a crash, unless
\* the commit of a malformed record passed it (consumer.go: flushAll, Run).
THEOREM Redelivered == Spec => []UntriedIsRedelivered
<1>1. StoredInv /\ ConsumerInv => UntriedIsRedelivered
  <2> SUFFICES ASSUME StoredInv, ConsumerInv, NEW o \in Offset,
                      o >= pos \/ \E i \in DOMAIN buffer : buffer[i] = o
               PROVE  o >= committed \/ \E j \in o..(committed - 1) : log[j + 1] = "junk"
      BY DEF UntriedIsRedelivered
  <2>1. StoredTypes
      BY DEF StoredInv
  <2>2. CASE o >= pos
      BY <2>1, <2>2, Offsets DEF Offset
  <2>3. CASE \E i \in DOMAIN buffer : buffer[i] = o
    <3>1. o \in Buffered
        BY <2>3 DEF Buffered
    <3> QED  BY Zenon, <3>1 DEF ConsumerInv, BufferRedelivered
  <2> QED  BY <2>2, <2>3
<1> QED  BY <1>1, PersistenceInvariant, PTL

\* No second copy, redelivery or edit undoes a recall (mysql.go: INSERT IGNORE).
THEOREM RecallHolds == Spec => []RecallSticks
<1>1. StoredInv /\ ConsumerInv => RecallSticks
    BY DEF StoredInv
<1> QED  BY <1>1, PersistenceInvariant, PTL

=============================================================================
