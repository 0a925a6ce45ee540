------------------------------- MODULE Groups -------------------------------
(***************************************************************************)
(* The life of one chat group: the WebSocket handlers of router.go and the *)
(* HTTP handlers of server.go, over the group store in memory              *)
(* (group_store.go), whose operations hold a lock, or in MySQL             *)
(* (repo/mysql_group.go), whose operations read and then write.  With the  *)
(* Logic service the WebSocket handlers reach MySQL through gRPC           *)
(* (grpc_client.go, logic/server.go).                                      *)
(*                                                                         *)
(* A MySQL transaction is its snapshot read followed by its writes and     *)
(* commit in one step: until the commit nobody sees the writes, and the    *)
(* lock on the written row keeps others from writing it.                   *)
(***************************************************************************)
EXTENDS Naturals, FiniteSets

CONSTANTS
    User,      \* users
    Handler,   \* requests that run at the same time
    None       \* no user

ASSUME GroupsAssumption == User \cap {None, "new", "gone"} = {}

VARIABLES
    store,      \* "memory", "mysql", or "logic": MySQL, with WebSocket requests over gRPC
    owner,      \* owner_uid of the group's row; "new" before, "gone" after its life
    members,    \* members of the group
    op,         \* op[h]: the request h runs
    owners,     \* history: owners[h]: owners of the group since h began
    since,      \* history: since[h]: members ever since h added one
    missed,     \* history: members an announcement left out
    overlapped  \* history: a write came between the read and the write of another

groupsVars == <<store, owner, members, op, owners, since, missed, overlapped>>

Idle == [cmd |-> "none", via |-> "local", by |-> None, tgt |-> None, at |-> "idle",
         last |-> "no", list |-> {}]

Exists == owner \in User
InMemory == store = "memory"

GroupsInit ==
    /\ store \in {"memory", "mysql", "logic"}
    /\ owner = "new"
    /\ members = {}
    /\ op = [h \in Handler |-> Idle]
    /\ owners = [h \in Handler |-> {}]
    /\ since = [h \in Handler |-> {}]
    /\ missed = {}
    /\ overlapped = "no"

\* The histories follow what a step does to the group and to the requests.
Active(h) == op'[h].at # "idle"

Adds(h) == op[h].at \in {"add", "insert"} /\ op[h].tgt \in members' \ members

Track ==
    /\ owners' = [h \in Handler |->
                     IF Active(h) THEN owners[h] \cup {owner, owner'} ELSE {}]
    /\ since' = [h \in Handler |->
                     IF ~Active(h) THEN {}
                     ELSE IF Adds(h) THEN members' ELSE since[h] \cap members']
    /\ overlapped' =
           IF /\ <<owner', members'>> # <<owner, members>>
              /\ \E h \in Handler : op[h].at \in {"insert", "delete", "update"}
                                        /\ op'[h] = op[h]
           THEN "yes" ELSE overlapped
    /\ UNCHANGED store

-----------------------------------------------------------------------------
(* Requests                                                                *)

Goto(h, where) == op' = [op EXCEPT ![h].at = where]

\* The request ends, here with an error.
End(h) == op' = [op EXCEPT ![h] = Idle]

NoChange == UNCHANGED <<owner, members, missed>> /\ Track

\* WebSocket requests go to Logic when there is a connection to it.
WebSocket == IF store = "logic" THEN "grpc" ELSE "local"

Request(h, cmd, via, u, v, where) ==
    /\ op[h] = Idle
    /\ owner # "new"
    /\ op' = [op EXCEPT ![h] = [Idle EXCEPT !.cmd = cmd, !.via = via, !.by = u,
                                            !.tgt = v, !.at = where]]
    /\ NoChange

\* The group is created with at most one initial member v (v = u: none).
CreateWith(h, u, v, m, where) ==
    /\ op[h] = Idle
    /\ owner = "new"
    /\ owner' = u
    /\ members' = m
    /\ op' = IF v = u THEN op
             ELSE [op EXCEPT ![h] = [Idle EXCEPT !.cmd = "create", !.by = u, !.tgt = v,
                                                 !.at = where, !.list = m]]
    /\ UNCHANGED missed
    /\ Track

\* Through Logic, v joins once the group is there.
handleGroupCreate(h, u, v) ==
    IF WebSocket = "grpc" THEN CreateWith(h, u, v, {u}, "add")
    ELSE CreateWith(h, u, v, {u, v}, "announce")

HandleGroupCreate(h, u, v) == CreateWith(h, u, v, {u, v}, "announce")

handleGroupJoin(h, u) == Request(h, "join", WebSocket, u, u, "add")
HandleGroupJoin(h, u) == Request(h, "join", "local", u, u, "add")

handleGroupInviteMember(h, u, v) == v # u /\ Request(h, "invite", WebSocket, u, v, "owner")
HandleGroupInvite(h, u, v) == v # u /\ Request(h, "invite", "local", u, v, "owner")

handleGroupLeave(h, u) == Request(h, "leave", WebSocket, u, u, "remove")
HandleGroupLeave(h, u) == Request(h, "leave", "local", u, u, "remove")

HandleGroupKick(h, u, v) == Request(h, "kick", "local", u, v, "owner")
HandleGroupRename(h, u) == Request(h, "rename", "local", u, u, "owner")
HandleGroupTransfer(h, u, v) == v # u /\ Request(h, "transfer", "local", u, v, "transfer")

AfterOwner == [invite |-> "add", kick |-> "remove", rename |-> "rename"]

\* Mutant: the requester's uid is not compared with the owner's.
GetAnyOwner(h) ==
    /\ op[h].at = "owner"
    /\ IF Exists THEN Goto(h, AfterOwner[op[h].cmd]) ELSE End(h)
    /\ NoChange

\* groupStore.Get, or GetGroupClient, and the comparison of owner and requester.
Get(h) ==
    /\ op[h].at = "owner"
    /\ IF owner = op[h].by THEN Goto(h, AfterOwner[op[h].cmd]) ELSE End(h)
    /\ NoChange

-----------------------------------------------------------------------------
(* AddMember                                                               *)

\* A failure ends the request, but creation through Logic carries on.
AddFails(h) ==
    /\ IF op[h].cmd = "create" THEN Goto(h, "announce") ELSE End(h)
    /\ UNCHANGED members

Insert(h) ==
    /\ members' = members \cup {op[h].tgt}
    /\ op' = [op EXCEPT ![h].at = IF op[h].via = "grpc" THEN "read" ELSE "announce",
                        ![h].list = IF op[h].cmd = "create" THEN @ \cup {op[h].tgt} ELSE @]

AddMember(h) ==
    /\ op[h].at = "add"
    /\ InMemory
    /\ IF Exists /\ op[h].tgt \notin members THEN Insert(h) ELSE AddFails(h)
    /\ UNCHANGED <<owner, missed>>
    /\ Track

\* MySQL: SELECT COUNT(1) FROM groups, then INSERT.
AddMemberCheck(h) ==
    /\ op[h].at = "add"
    /\ ~InMemory
    /\ IF Exists THEN Goto(h, "insert") /\ UNCHANGED members ELSE AddFails(h)
    /\ UNCHANGED <<owner, missed>>
    /\ Track

AddMemberInsert(h) ==
    /\ op[h].at = "insert"
    /\ IF op[h].tgt \notin members THEN Insert(h) ELSE AddFails(h)
    /\ UNCHANGED <<owner, missed>>
    /\ Track

-----------------------------------------------------------------------------
(* RemoveMember                                                            *)

RemoveOrFail(h, removes, deletes) ==
    /\ IF removes
       THEN /\ members' = members \ {op[h].tgt}
            /\ owner' = IF deletes THEN "gone" ELSE owner
            /\ Goto(h, IF op[h].via = "grpc" THEN "read" ELSE "announce")
       ELSE End(h) /\ UNCHANGED <<owner, members>>
    /\ UNCHANGED missed
    /\ Track

\* Mutant: an empty group is kept.
RemoveMemberKeeps(h) ==
    /\ op[h].at = "remove"
    /\ InMemory
    /\ RemoveOrFail(h, Exists /\ op[h].tgt \in members, FALSE)

RemoveMember(h) ==
    /\ op[h].at = "remove"
    /\ InMemory
    /\ RemoveOrFail(h, Exists /\ op[h].tgt \in members, members = {op[h].tgt})

\* MySQL: the snapshot of the transaction says whether there is one member left,
RemoveMemberCount(h) ==
    /\ op[h].at = "remove"
    /\ ~InMemory
    /\ IF Exists
       THEN op' = [op EXCEPT ![h].at = "delete",
                             ![h].last = IF Cardinality(members) <= 1 THEN "yes" ELSE "no"]
       ELSE End(h)
    /\ NoChange

\* and its writes delete the member and, on that count, the group.
RemoveMemberDelete(h) ==
    /\ op[h].at = "delete"
    /\ RemoveOrFail(h, op[h].tgt \in members, op[h].last = "yes")

-----------------------------------------------------------------------------
(* UpdateName and TransferOwnership                                        *)

\* The name itself is not modelled.
UpdateName(h) ==
    /\ op[h].at = "rename"
    /\ IF Exists THEN Goto(h, "announce") ELSE End(h)
    /\ NoChange

\* Mutant: the new owner need not be a member.
TransferToAnyone(h) ==
    /\ op[h].at = "transfer"
    /\ InMemory
    /\ IF owner = op[h].by
       THEN owner' = op[h].tgt /\ Goto(h, "announce")
       ELSE End(h) /\ UNCHANGED owner
    /\ UNCHANGED <<members, missed>>
    /\ Track

MayTransfer(h) == owner = op[h].by /\ op[h].tgt \in members

TransferOwnership(h) ==
    /\ op[h].at = "transfer"
    /\ InMemory
    /\ IF MayTransfer(h)
       THEN owner' = op[h].tgt /\ Goto(h, "announce")
       ELSE End(h) /\ UNCHANGED owner
    /\ UNCHANGED <<members, missed>>
    /\ Track

\* MySQL: the snapshot, then UPDATE, which succeeds on a row that is gone.
TransferCheck(h) ==
    /\ op[h].at = "transfer"
    /\ ~InMemory
    /\ IF MayTransfer(h) THEN Goto(h, "update") ELSE End(h)
    /\ NoChange

TransferUpdate(h) ==
    /\ op[h].at = "update"
    /\ owner' = IF Exists THEN op[h].tgt ELSE owner
    /\ Goto(h, "announce")
    /\ UNCHANGED <<members, missed>>
    /\ Track

-----------------------------------------------------------------------------
(* sendGroupNotification                                                   *)

\* GetGroupClient: the members in Logic's answer, none when the group is gone.
ReadGroup(h) ==
    /\ op[h].at = "read"
    /\ op' = [op EXCEPT ![h].at = "announce", ![h].list = IF Exists THEN members ELSE {}]
    /\ NoChange

\* The call fails, or the one before it did after its effect: nobody is told.
LogicFails(h) ==
    /\ op[h].at = "read"
    /\ End(h)
    /\ NoChange

\* Mutant: the announcement of an invitation is from the inviter.
SkippedIsSender(h) == op[h].by

\* The user the notification is from, who is skipped.
Skipped(h) == IF op[h].cmd = "invite" THEN op[h].tgt ELSE op[h].by

\* The members told: those of the given list, or of GetMembers at this moment.
Told(h) ==
    (IF op[h].cmd = "create" \/ op[h].via = "grpc" THEN op[h].list ELSE members)
        \ {Skipped(h)}

sendGroupNotification(h) ==
    /\ op[h].at = "announce"
    /\ missed' = IF Exists /\ op[h].cmd \in {"join", "invite"}
                 THEN missed \cup (since[h] \ (Told(h) \cup {op[h].tgt})) ELSE missed
    /\ End(h)
    /\ UNCHANGED <<owner, members>>
    /\ Track

\* GetMembers fails.
NotificationFails(h) ==
    /\ op[h].at = "announce"
    /\ End(h)
    /\ NoChange

-----------------------------------------------------------------------------
Begin(h, u) ==
    \/ handleGroupJoin(h, u) \/ HandleGroupJoin(h, u)
    \/ handleGroupLeave(h, u) \/ HandleGroupLeave(h, u)
    \/ HandleGroupRename(h, u)
    \/ \E v \in User :
          \/ handleGroupCreate(h, u, v) \/ HandleGroupCreate(h, u, v)
          \/ handleGroupInviteMember(h, u, v) \/ HandleGroupInvite(h, u, v)
          \/ HandleGroupKick(h, u, v)
          \/ HandleGroupTransfer(h, u, v)

Step(h) ==
    \/ Get(h)
    \/ AddMember(h) \/ AddMemberCheck(h) \/ AddMemberInsert(h)
    \/ RemoveMember(h) \/ RemoveMemberCount(h) \/ RemoveMemberDelete(h)
    \/ UpdateName(h)
    \/ TransferOwnership(h) \/ TransferCheck(h) \/ TransferUpdate(h)
    \/ ReadGroup(h) \/ LogicFails(h)
    \/ sendGroupNotification(h) \/ NotificationFails(h)

GroupsNext == \E h \in Handler : Step(h) \/ \E u \in User : Begin(h, u)

GroupsSpec == GroupsInit /\ [][GroupsNext]_groupsVars

-----------------------------------------------------------------------------
(* Properties                                                              *)

GroupsTypeOK ==
    /\ store \in {"memory", "mysql", "logic"}
    /\ owner \in User \cup {"new", "gone"}
    /\ members \subseteq User
    /\ op \in [Handler -> [cmd : {"none", "create", "join", "leave", "invite", "kick",
                                  "rename", "transfer"},
                           via : {"local", "grpc"},
                           by : User \cup {None}, tgt : User \cup {None},
                           at : {"idle", "owner", "add", "insert", "remove", "delete",
                                 "rename", "transfer", "update", "read", "announce"},
                           last : {"yes", "no"}, list : SUBSET User]]
    /\ owners \in [Handler -> SUBSET (User \cup {"new", "gone"})]
    /\ since \in [Handler -> SUBSET User]
    /\ missed \subseteq User
    /\ overlapped \in {"yes", "no"}

\* A group exists exactly while it has members: RemoveMember deletes it with its
\* last one, and AddMember revives none.  The MySQL store keeps this as long as no
\* write comes between the read and the write of another operation.
GroupHasMembers == InMemory \/ overlapped = "no" => (Exists <=> members # {})

\* An invitation, a kick, a renaming or a transfer takes effect only for a user who
\* owned the group at some moment of the request.
OnlyOwnerActs ==
    \A h \in Handler :
        \/ op[h].cmd \in {"invite", "kick", "rename"}
              /\ op[h].at \in {"add", "insert", "remove", "delete", "rename", "read",
                               "announce"}
        \/ op[h].cmd = "transfer" /\ op[h].at \in {"update", "announce"}
        => op[h].by \in owners[h]

\* Ownership moves from the requester of a transfer to a member of the group, and
\* never changes otherwise, as long as no two MySQL operations overlap.
OwnershipMoves ==
    [][Exists /\ owner' \in User \ {owner} =>
          \/ ~InMemory /\ overlapped' = "yes"
          \/ /\ owner' \in members
             /\ \E h \in Handler : op[h].cmd = "transfer" /\ op[h].by = owner
                                       /\ op[h].tgt = owner']_groupsVars

\* Everyone who is in the group from the moment a user is added until the others
\* are told is among those told, unless the members cannot be read or the group is gone.
JoinIsAnnounced == missed = {}
=============================================================================
