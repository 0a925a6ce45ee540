------------------------------ MODULE Friends ------------------------------
(***************************************************************************)
(* Friend requests: the friends table, the HTTP handlers and the WebSocket *)
(* commands that change it, and the friend store of each user's web page.  *)
(*                                                                         *)
(* A page first calls the HTTP interface and, once that has succeeded,     *)
(* sends the WebSocket command that is meant to notify the other user.     *)
(* A client without a page (over TCP) uses the commands alone.  One        *)
(* database statement is one step; GetFriends and GetPendingRequests of    *)
(* one friend list are two.                                                *)
(***************************************************************************)
EXTENDS Naturals, Sequences, FiniteSets

CONSTANTS
    User,
    Pages,      \* Pages: the sets of users who may be the ones with a web page
    MaxClicks,  \* bound: operations users start
    MaxLoads    \* bound: friend lists pages ask for

ASSUME FriendsAssumption ==
    /\ IsFiniteSet(User)
    /\ Pages \subseteq SUBSET User
    /\ MaxClicks \in Nat
    /\ MaxLoads \in Nat

VARIABLES
    row,      \* friends: <<uid, friend_uid>> -> status, "none" without a row
    page,     \* users with a web page
    friends,  \* friends[u]: useFriendStore.friends of u's page, without order
    pending,  \* pending[u]: useFriendStore.pendingRequests of u's page
    call,     \* call[u]: the HTTP request of u's page under way
    load,     \* load[u]: the friend list u's page is waiting for
    frames,   \* frames[u]: commands u sent that the gateway has not handled
    inbox,    \* inbox[u]: notices for u that u's client has not handled
    clicks,   \* operations started
    loads,    \* friend lists asked for
    asked,    \* history: <<a, b>>, a asked for b's friendship
    agreed,   \* history: <<b, a>>, b agreed to a's request
    doubt     \* history: users whose page may differ from the table

friendsVars == <<row, page, friends, pending, call, load, frames, inbox, clicks, loads,
          asked, agreed, doubt>>

Pair == {p \in User \X User : p[1] # p[2]}
Status == {"none", "pending", "accepted", "rejected"}
Op == {"request", "accept", "reject", "remove"}
Inactive == [at |-> "idle"]

FriendsInit ==
    /\ row = [p \in Pair |-> "none"]
    /\ page \in Pages
    /\ friends = [u \in User |-> {}]
    /\ pending = [u \in User |-> {}]
    /\ call = [u \in User |-> Inactive]
    /\ load = [u \in User |-> Inactive]
    /\ frames = [u \in User |-> <<>>]
    /\ inbox = [u \in User |-> <<>>]
    /\ clicks = 0
    /\ loads = 0
    /\ asked = {}
    /\ agreed = {}
    /\ doubt = {}

-----------------------------------------------------------------------------
(* The statements of MySQLStore, as functions of the table.                *)

\* INSERT: the unique key (uid, friend_uid) refuses a second row.
SendRequest(r, u, v) == [r EXCEPT ![<<u, v>>] = IF @ = "none" THEN "pending" ELSE @]

\* Mutant: the row is looked for in the direction of the answer.
AcceptOwn(r, u, v) == [r EXCEPT ![<<u, v>>] = IF @ = "pending" THEN "accepted" ELSE @]

\* UPDATE ... WHERE uid = v AND friend_uid = u AND status = pending.
AcceptRequest(r, u, v) ==
    [r EXCEPT ![<<v, u>>] = IF @ = "pending" THEN "accepted" ELSE @]

RejectRequest(r, u, v) ==
    [r EXCEPT ![<<v, u>>] = IF @ = "pending" THEN "rejected" ELSE @]

\* DELETE of the accepted rows of both directions.
RemoveFriend(r, u, v) ==
    [p \in Pair |-> IF p \in {<<u, v>>, <<v, u>>} /\ r[p] = "accepted"
                    THEN "none" ELSE r[p]]

\* Rows of both directions, the other user taken out of each.
GetFriends(r, u) ==
    {v \in User \ {u} : r[<<u, v>>] = "accepted" \/ r[<<v, u>>] = "accepted"}

GetPendingRequests(r, u) == {v \in User \ {u} : r[<<v, u>>] = "pending"}

Apply(r, op, u, v) ==
    CASE op = "request" -> SendRequest(r, u, v)
      [] op = "accept" -> AcceptRequest(r, u, v)
      [] op = "reject" -> RejectRequest(r, u, v)
      [] op = "remove" -> RemoveFriend(r, u, v)

-----------------------------------------------------------------------------
(* What may make a page differ from the table, for the properties.         *)

Touched(r) == UNION {{p[1], p[2]} : p \in {q \in Pair : r[q] # row[q]}}

\* Friend lists being read while the table changes to r are not up to date.
Outdate(r) ==
    [w \in User |-> IF load[w].at # "idle" /\ w \in Touched(r)
                    THEN [load[w] EXCEPT !.clean = "no"] ELSE load[w]]

-----------------------------------------------------------------------------
(* The page: a button, the answer to its HTTP request, the friend list.    *)

\* The buttons the page shows; the add dialog takes any user id but one's own.
Offered(u, op, v) ==
    \/ op = "request"
    \/ op \in {"accept", "reject"} /\ v \in pending[u]
    \/ op = "remove" /\ v \in friends[u]

\* handleSendRequest, handleAccept, handleReject, handleRemove up to await.
Click(u, op, v) ==
    /\ u \in page
    /\ call[u] = Inactive
    /\ Offered(u, op, v)
    /\ clicks < MaxClicks
    /\ clicks' = clicks + 1
    /\ call' = [call EXCEPT ![u] = [at |-> "sent", op |-> op, peer |-> v]]
    /\ asked' = IF op = "request" THEN asked \cup {<<u, v>>} ELSE asked
    /\ agreed' = IF op = "accept" THEN agreed \cup {<<u, v>>} ELSE agreed
    /\ UNCHANGED <<row, page, friends, pending, load, frames, inbox, loads, doubt>>

\* HandleFriendRequest, -Accept, -Reject, -Remove.  An answer other than 200
\* means that no row changed.
Serve(u) ==
    LET c == call[u]
        r == Apply(row, c.op, u, c.peer)
    IN
    /\ c.at = "sent"
    /\ row' = r
    /\ call' = [call EXCEPT ![u].at = IF r = row THEN "failed" ELSE "ok"]
    /\ load' = Outdate(r)
    /\ doubt' = doubt \cup (Touched(r) \ {u}) \cup (IF load[u].at # "idle" THEN {u} ELSE {})
    /\ UNCHANGED <<page, friends, pending, frames, inbox, clicks, loads, asked, agreed>>

\* The request or its answer is lost: fetch rejects.
LoseCall(u) ==
    /\ call[u].at \in {"sent", "ok"}
    /\ call' = [call EXCEPT ![u].at = "failed"]
    /\ doubt' = IF call[u].at = "ok" THEN doubt \cup {u} ELSE doubt
    /\ UNCHANGED <<row, page, friends, pending, load, frames, inbox, clicks, loads,
                   asked, agreed>>

\* The command the page sends when the HTTP request has succeeded.
Command(c) == [op |-> c.op, peer |-> c.peer]

\* Mutant: handleAccept leaves the request on the page.
AnsweredKeepsRequest(u) ==
    LET c == call[u] IN
    /\ c.at \in {"ok", "failed"}
    /\ call' = [call EXCEPT ![u] = Inactive]
    /\ friends' = [friends EXCEPT ![u] = IF c.at = "ok" /\ c.op = "accept" THEN @ \cup {c.peer}
                                         ELSE @]
    /\ UNCHANGED <<row, page, pending, load, frames, inbox, clicks, loads, asked,
                   agreed, doubt>>

\* The rest of the four functions: the friend store, then, for a request and an
\* acceptance, the command, which wsManager drops while it is not connected.
Answered(u) ==
    LET c == call[u] IN
    /\ \/ /\ c.at = "failed"
          /\ UNCHANGED <<friends, pending, frames>>
       \/ /\ c.at = "ok"
          /\ friends' = [friends EXCEPT ![u] = CASE c.op = "accept" -> @ \cup {c.peer}
                                                 [] c.op = "remove" -> @ \ {c.peer}
                                                 [] OTHER -> @]
          /\ pending' = [pending EXCEPT ![u] =
                            IF c.op \in {"accept", "reject"} THEN @ \ {c.peer} ELSE @]
          /\ \/ /\ c.op \in {"request", "accept"}
                /\ frames' = [frames EXCEPT ![u] = Append(@, Command(c))]
             \/ UNCHANGED frames
    /\ call' = [call EXCEPT ![u] = Inactive]
    /\ UNCHANGED <<row, page, load, inbox, clicks, loads, asked, agreed, doubt>>

\* getFriendList of ContactList, UserProfilePage or CreateGroupDialog.
LoadList(u) ==
    /\ u \in page
    /\ load[u] = Inactive
    /\ loads < MaxLoads
    /\ loads' = loads + 1
    /\ load' = [load EXCEPT ![u] =
                   [at |-> "friends", clean |-> IF call[u] = Inactive THEN "yes" ELSE "no"]]
    /\ UNCHANGED <<row, page, friends, pending, call, frames, inbox, clicks, asked,
                   agreed, doubt>>

\* HandleFriendList, first and second query.
ReadFriends(u) ==
    /\ load[u].at = "friends"
    /\ load' = [load EXCEPT ![u] = [at |-> "requests", clean |-> load[u].clean,
                                    friends |-> GetFriends(row, u)]]
    /\ UNCHANGED <<row, page, friends, pending, call, frames, inbox, clicks, loads,
                   asked, agreed, doubt>>

ReadRequests(u) ==
    /\ load[u].at = "requests"
    /\ load' = [load EXCEPT ![u] = [at |-> "read", clean |-> load[u].clean,
                                    friends |-> load[u].friends,
                                    pending |-> GetPendingRequests(row, u)]]
    /\ UNCHANGED <<row, page, friends, pending, call, frames, inbox, clicks, loads,
                   asked, agreed, doubt>>

\* setFriends, setPendingRequests; or the call failed and is ignored.
ListArrives(u) ==
    /\ load[u].at = "read"
    /\ load' = [load EXCEPT ![u] = Inactive]
    /\ \/ /\ friends' = [friends EXCEPT ![u] = load[u].friends]
          /\ pending' = [pending EXCEPT ![u] = load[u].pending]
          /\ doubt' = IF load[u].clean = "yes" /\ call[u] = Inactive THEN doubt \ {u}
                      ELSE doubt \cup {u}
       \/ UNCHANGED <<friends, pending, doubt>>
    /\ UNCHANGED <<row, page, call, frames, inbox, clicks, loads, asked, agreed>>

-----------------------------------------------------------------------------
(* WebSocket commands.                                                     *)

\* A client without a page sends the command alone.
SendCommand(u, op, v) ==
    /\ u \notin page
    /\ op # "remove"
    /\ clicks < MaxClicks
    /\ clicks' = clicks + 1
    /\ frames' = [frames EXCEPT ![u] = Append(@, [op |-> op, peer |-> v])]
    /\ asked' = IF op = "request" THEN asked \cup {<<u, v>>} ELSE asked
    /\ agreed' = IF op = "accept" THEN agreed \cup {<<u, v>>} ELSE agreed
    /\ UNCHANGED <<row, page, friends, pending, call, load, inbox, loads, doubt>>

\* Router.handleFriendRequest and handleFriendResponse: the statement and, if it
\* changed a row, the notice through routeOrStoreOffline.  (The answer to the
\* sender, an error or "sent", is ignored by every client.)
HandleCommand(u) ==
    LET f == Head(frames[u])
        r == Apply(row, f.op, u, f.peer)
    IN
    /\ frames[u] # <<>>
    /\ frames' = [frames EXCEPT ![u] = Tail(@)]
    /\ row' = r
    /\ inbox' = IF r = row THEN inbox
                ELSE [inbox EXCEPT ![f.peer] = Append(@, [op |-> f.op, from |-> u])]
    /\ load' = Outdate(r)
    /\ doubt' = doubt \cup Touched(r)
    /\ UNCHANGED <<page, friends, pending, call, clicks, loads, asked, agreed>>

\* Mutant: the page takes a refusal for an acceptance.
NoticedFriends(n) == IF n.op # "request" THEN {n.from} ELSE {}

\* addFriend, addPendingRequest: what a notice adds to the page.
NewFriends(n) == IF n.op = "accept" THEN {n.from} ELSE {}
NewRequests(n) == IF n.op = "request" THEN {n.from} ELSE {}

\* Cmd.FriendRequest and Cmd.FriendResponse on the page.  A request stays in
\* pendingRequests when its sender becomes a friend.
Notice(u) ==
    LET n == Head(inbox[u]) IN
    /\ inbox[u] # <<>>
    /\ inbox' = [inbox EXCEPT ![u] = Tail(@)]
    /\ IF u \in page
       THEN /\ friends' = [friends EXCEPT ![u] = @ \cup NewFriends(n)]
            /\ pending' = [pending EXCEPT ![u] = @ \cup NewRequests(n)]
            /\ doubt' = doubt \cup {u}
       ELSE UNCHANGED <<friends, pending, doubt>>
    /\ UNCHANGED <<row, page, call, load, frames, clicks, loads, asked, agreed>>

FriendsNext ==
    \E u \in User :
        \/ \E v \in User \ {u}, op \in Op : Click(u, op, v) \/ SendCommand(u, op, v)
        \/ Serve(u)
        \/ LoseCall(u)
        \/ Answered(u)
        \/ LoadList(u)
        \/ ReadFriends(u)
        \/ ReadRequests(u)
        \/ ListArrives(u)
        \/ HandleCommand(u)
        \/ Notice(u)

FriendsSpec == FriendsInit /\ [][FriendsNext]_friendsVars

-----------------------------------------------------------------------------
(* Properties                                                              *)

FriendsTypeOK ==
    /\ row \in [Pair -> Status]
    /\ page \in Pages
    /\ friends \in [User -> SUBSET User]
    /\ pending \in [User -> SUBSET User]
    /\ \A u \in User : u \notin friends[u] \cup pending[u]
    /\ clicks \in 0..MaxClicks
    /\ loads \in 0..MaxLoads
    /\ asked \cup agreed \subseteq Pair
    /\ doubt \subseteq User

\* Nobody is asked, or made a friend, without the two of them wanting it: a row
\* comes from a request of its uid, and is accepted only if its friend_uid has
\* agreed (mysql.go SendRequest, AcceptRequest), whichever of HTTP request and
\* command came first, was late or was repeated.
FriendsConsented ==
    \A p \in Pair :
        /\ row[p] # "none" => p \in asked
        /\ row[p] = "accepted" => <<p[2], p[1]>> \in agreed

\* A page shows as a friend, or as asking, only somebody with whom that has
\* really happened, however old the list or the notice it shows.
ShownIsReal ==
    \A u \in User :
        /\ \A v \in friends[u] : {<<u, v>>, <<v, u>>} \cap agreed # {}
        /\ \A v \in pending[u] : <<v, u>> \in asked

\* A page that has loaded the friend list, and since then has only seen changes
\* it made itself and was told of, shows exactly what the table says.
SettledPageAgrees ==
    \A u \in page \ doubt :
        call[u] = Inactive => /\ friends[u] = GetFriends(row, u)
                          /\ pending[u] = GetPendingRequests(row, u)

\* A row only goes from none to pending, from pending to accepted or rejected,
\* and from accepted to none.  A rejected request stays: it cannot be sent again.
RowLifecycle ==
    [][\A p \in Pair :
          row'[p] # row[p] =>
              <<row[p], row'[p]>> \in {<<"none", "pending">>, <<"pending", "accepted">>,
                                      <<"pending", "rejected">>, <<"accepted", "none">>}]_friendsVars
=============================================================================
