------------------------------- MODULE Archive ------------------------------
(***************************************************************************)
(* Reading what a gateway has stored, page by page, while messages are     *)
(* being written and deleted and accounts come and go: the history of a    *)
(* conversation or a group (handleHistory), the search (handleSearch over  *)
(* the connection, HandleSearch over HTTP), and the administrator's lists  *)
(* of messages and of users.  Each page is one query of mysql.go; the      *)
(* client goes on from the page it got.                                    *)
(***************************************************************************)
EXTENDS Timeline, Accounts, FiniteSets

CONSTANTS
    Matches,        \* messages that the search of the reader selects
    AskedLimits,    \* page sizes that clients ask for
    DefaultLimit, MaxLimit,
    MaxLate,        \* bound: how long a registration takes after its clock reading
    Budgets,        \* bounds: how often each kind of work is done in a behaviour
    NoListing

ASSUME ArchiveAssumption ==
    /\ Account = Uid
    /\ From \in [Message -> Uid]
    /\ AskedLimits \subseteq Int
    /\ {DefaultLimit, MaxLimit} \subseteq Nat
    /\ 0 < DefaultLimit /\ DefaultLimit <= MaxLimit

VARIABLES
    listing,    \* the pages that a client reads
    removed,    \* history: messages that an administrator deleted
    budget      \* budget[k]: how often work of kind k may still be done

archiveVars == <<listing, removed, budget>>
vars == <<snowVars, limiterVars, timelineVars, accountVars, archiveVars>>

ByTime == {"history", "group", "browse"}
Search == {"search", "search-http"}
Mode == ByTime \cup Search \cup {"users"}
ForAdmin == {"browse", "users"}
OverHttp == ForAdmin \cup {"search-http"}

\* The WHERE clause, without the part that depends on the page.
Selects(mode, m) ==
    CASE mode = "history" -> m \notin ToGroup
      [] mode = "group"   -> m \in ToGroup
      [] mode = "browse"  -> TRUE
      [] OTHER            -> m \in Matches

\* handleHistory and handleSearch cut a limit down to the largest one.
ClampLimit(asked) ==
    IF asked <= 0 THEN DefaultLimit ELSE Least(asked, MaxLimit)

\* The HTTP handlers ignore a limit that is out of range.
ParamLimit(asked) ==
    IF 0 < asked /\ asked <= MaxLimit THEN asked ELSE DefaultLimit

\* S can be the first rows of T by ORDER BY key DESC LIMIT n, ties in any order.
IsTop(S, T, n, key) ==
    /\ Cardinality(S) = Least(n, Cardinality(T))
    /\ \A s \in S, t \in T \ S : key[s] >= key[t]

Created(u) == users[u].created

Init ==
    /\ TimelineInit
    /\ AccountsInit
    /\ listing = NoListing
    /\ removed = {}
    /\ budget \in Budgets

Works(kind) == budget[kind] > 0 /\ budget' = [budget EXCEPT ![kind] = @ - 1]

\* The token that a request needs.
Authorised(p, mode) ==
    /\ token[p] # NoToken
    /\ mode \in ForAdmin => IsAdmin(p)

-----------------------------------------------------------------------------
(* A client reads                                                          *)

\* The first request: from now backwards, or from the beginning.
Open(p, mode, asked) ==
    /\ listing = NoListing
    /\ Authorised(p, mode)
    /\ listing' =
        [reader |-> p,
         mode   |-> mode,
         limit  |-> IF mode \in OverHttp THEN ParamLimit(asked) ELSE ClampLimit(asked),
         from   |-> IF mode \in ByTime THEN wall ELSE 0,
         start  |-> wall,
         owed   |-> IF mode = "users" THEN {u \in Account : Exists(u)}
                    ELSE {m \in rows : Selects(mode, m)},
         seen   |-> {},
         ends   |-> {},       \* history: the last row of each full page
         broken |-> FALSE,    \* history: an answer was cut short or failed
         done   |-> FALSE]
    /\ Works("open")
    /\ UNCHANGED <<snowVars, limiterVars, timelineVars, accountVars, removed>>

Reading(p, mode) ==
    /\ listing # NoListing
    /\ listing.reader = p
    /\ listing.mode = mode
    /\ ~listing.done

\* The client got the rows of page and goes on from position from.
Continue(page, last, from, done) ==
    listing' = [listing EXCEPT !.seen = @ \cup page, !.ends = @ \cup last,
                               !.from = from, !.done = done]

\* The rest of the page did not fit into the send buffer, or the query failed
\* and came back as an empty one.
CutShort(page, from, done) ==
    listing' = [listing EXCEPT !.seen = @ \cup page, !.from = from,
                               !.done = done, !.broken = TRUE]

Unwritten == UNCHANGED <<snowVars, timelineVars, accountVars, removed, budget>>

\* The rows that may come last, and where the next page starts.
Last(page) == {m \in page : \A n \in page : ts[m] <= ts[n]}
Before(page) == IF page = {} THEN listing.from ELSE ts[CHOOSE m \in Last(page) : TRUE]

\* Mutant: the rows are taken in ascending order.
TimePageAscending(mode, page) ==
    LET found == {m \in rows : Selects(mode, m) /\ ts[m] < listing.from}
        age == [m \in found |-> 0 - ts[m]]
    IN  page \subseteq found /\ IsTop(page, found, listing.limit, age)

\* QueryHistory, QueryGroupHistory
TimePage(mode, page) ==
    LET found == {m \in rows : Selects(mode, m) /\ ts[m] < listing.from}
    IN  page \subseteq found /\ IsTop(page, found, listing.limit, ts)

\* The client asks for what is older than the oldest row it got, until a page
\* is short.
Older(page) ==
    LET short == Cardinality(page) < listing.limit
    IN  Continue(page, IF short THEN {} ELSE Last(page), Before(page), short)

\* handleHistory sends the rows one by one, and last the number it sent.  It
\* stops when the send buffer is full; a failed query is answered like an empty
\* one.  The final signal takes an id from the generator, as does a message that
\* is never saved (TakeId).
HandleHistory(p, mode, page) ==
    /\ mode \in {"history", "group"}
    /\ Reading(p, mode)
    /\ TimePage(mode, page)
    /\ \/ Older(page)
       \/ \E sent \in SUBSET page :
            /\ sent # page
            /\ IsTop(sent, page, Cardinality(sent), ts)
            /\ CutShort(sent, Before(sent), Cardinality(sent) < listing.limit)
    /\ UNCHANGED limiterVars
    /\ Unwritten

BrowseMessages(page) == TimePage("browse", page)

\* HandleAdminMessages
HandleAdminMessages(p, page) ==
    /\ Reading(p, "browse")
    /\ Authorised(p, "browse")
    /\ BrowseMessages(page)
    /\ Older(page)
    /\ UNCHANGED limiterVars
    /\ Unwritten

Found == {m \in rows : Selects("search", m) /\ (listing.from > 0 => MsgId(m) < listing.from)}

\* Mutant: the cursor is the id of the row after the page.
NextCursorSkips(page, last) ==
    IF Cardinality(Found) > listing.limit
    THEN CHOOSE i \in {MsgId(m) : m \in Found \ page} : TRUE
    ELSE 0

\* The id of the last row of the page, if there are more rows; 0 is the end.
NextCursor(page, last) ==
    IF Cardinality(Found) > listing.limit THEN MsgId(last) ELSE 0

\* SearchMessages: one row more than the limit is fetched.
SearchPage(page, last) ==
    /\ page \subseteq Found
    /\ IsTop(page, Found, listing.limit, ts)
    /\ page # {} => last \in Last(page)

\* handleSearch: the cursor is that of the whole page also when only a part of
\* it was sent.  Logic answers a failed query with an empty result.
HandleSearchWs(p, page, last) ==
    LET cursor == NextCursor(page, last)
    IN  /\ Reading(p, "search")
        /\ SearchPage(page, last)
        /\ \/ Continue(page, {last} \cap page, cursor, cursor = 0)
           \/ \E sent \in SUBSET page :
                /\ sent # page
                /\ IsTop(sent, page, Cardinality(sent), ts)
                /\ CutShort(sent, cursor, cursor = 0)
           \/ CutShort({}, 0, TRUE)
        /\ UNCHANGED limiterVars
        /\ Unwritten

\* HandleSearch: limited in rate; the client tries again after a refusal.
HandleSearch(p, page, last) ==
    LET cursor == NextCursor(page, last)
        uid == token[p].uid
    IN  /\ Reading(p, "search-http")
        /\ Authorised(p, "search-http")
        /\ \/ Allow(uid) /\ SearchPage(page, last)
              /\ Continue(page, {last} \cap page, cursor, cursor = 0)
           \/ Reject(uid) /\ UNCHANGED listing
        /\ Unwritten

\* Mutant: the next page starts one row too late.
ListUsersOffByOne(skipped, page) ==
    LET found == {u \in Account : Exists(u)}
        created == [u \in found |-> Created(u)]
        n == IF listing.from = 0 THEN 0 ELSE Least(listing.from + 1, Cardinality(found))
    IN  /\ skipped \subseteq found
        /\ page \subseteq found \ skipped
        /\ IsTop(skipped, found, n, created)
        /\ IsTop(page, found \ skipped, listing.limit, created)

\* ListUsers: ORDER BY created_at DESC LIMIT OFFSET
ListUsers(skipped, page) ==
    LET found == {u \in Account : Exists(u)}
        created == [u \in found |-> Created(u)]
    IN  /\ skipped \subseteq found
        /\ page \subseteq found \ skipped
        /\ IsTop(skipped, found, listing.from, created)
        /\ IsTop(page, found \ skipped, listing.limit, created)

\* HandleAdminUsers
HandleAdminUsers(p, skipped, page) ==
    /\ Reading(p, "users")
    /\ Authorised(p, "users")
    /\ ListUsers(skipped, page)
    /\ Continue(page, {u \in page : \A v \in page : Created(u) <= Created(v)},
                listing.from + listing.limit, Cardinality(page) < listing.limit)
    /\ UNCHANGED limiterVars
    /\ Unwritten

Read(p) ==
    \/ \E page \in SUBSET rows :
        \/ \E mode \in ByTime : HandleHistory(p, mode, page)
        \/ HandleAdminMessages(p, page)
        \/ \E last \in Message : HandleSearchWs(p, page, last) \/ HandleSearch(p, page, last)
    \/ \E skipped, page \in SUBSET Account : HandleAdminUsers(p, skipped, page)

-----------------------------------------------------------------------------
(* Others write                                                            *)

\* handleChat and the insertion of its row.
Post ==
    /\ \E m \in Message : \/ Admit(m) /\ Works("post")
                          \/ (TakeId(m) \/ Stamp(m) \/ Save(m)) /\ UNCHANGED budget
    /\ UNCHANGED <<accountVars, listing, removed>>

\* Mutant: the row goes, and every later one.
DeleteAndLater(p, m) ==
    /\ IsAdmin(p)
    /\ m \in rows
    /\ rows' = {r \in rows : MsgId(r) < MsgId(m)}
    /\ removed' = removed \cup {m}
    /\ Works("delete")
    /\ UNCHANGED <<snowVars, limiterVars, step, ts, accountVars, listing>>

\* HandleAdminMessageDelete
HandleAdminMessageDelete(p, m) ==
    /\ IsAdmin(p)
    /\ m \in rows
    /\ rows' = rows \ {m}
    /\ removed' = removed \cup {m}
    /\ Works("delete")
    /\ UNCHANGED <<snowVars, limiterVars, step, ts, accountVars, listing>>

\* The requests that concern accounts; a registration reads the clock before it
\* inserts the row.
AccountRequest(p) ==
    /\ \/ /\ \/ \E u \in Account, late \in 0 .. MaxLate :
                  late <= wall /\ HandleRegister(p, u, wall - late)
             \/ \E new \in {1, 2} : ChangeCheck(p, new)
             \/ TokenExpires(p)
          /\ Works("account")
       \/ /\ \E u \in Account, dev \in BOOLEAN :
                  HandleLogin(p, u, dev) \/ HandleLoginDev(p, u, dev)
          /\ Works("login")
    /\ UNCHANGED <<snowVars, limiterVars, timelineVars, listing, removed>>

FinishChange(p) ==
    /\ ChangeUpdate(p)
    /\ UNCHANGED <<snowVars, limiterVars, timelineVars, archiveVars>>

DeleteUser(p, target) ==
    /\ HandleAdminUserDelete(p, target)
    /\ listing' = IF listing # NoListing /\ listing.mode = "users"
                  THEN [listing EXCEPT !.broken = TRUE]
                  ELSE listing
    /\ Works("delete")
    /\ UNCHANGED <<snowVars, limiterVars, timelineVars, removed>>

\* A gateway starts.
Start ==
    /\ \E u \in Account : Promote(u)
    /\ Works("account")
    /\ UNCHANGED <<snowVars, limiterVars, timelineVars, listing, removed>>

\* Clocks, the cleanup of the limiter, and once a new measurement.
Environment ==
    /\ \/ Elapse /\ Works("tick")
       \/ SetBack /\ Works("back")
       \/ Forget /\ UNCHANGED budget
       \/ since = 0 /\ mono > 0 /\ Measure /\ Works("measure") /\ UNCHANGED <<snowVars, timelineVars>>
    /\ UNCHANGED <<accountVars, listing, removed>>

Next ==
    \/ Post
    \/ \E p \in Person :
        \/ Read(p)
        \/ \E mode \in Mode, asked \in AskedLimits : Open(p, mode, asked)
        \/ \E m \in Message : HandleAdminMessageDelete(p, m)
        \/ AccountRequest(p)
        \/ FinishChange(p)
        \/ \E target \in Account : DeleteUser(p, target)
    \/ Start
    \/ Environment

Spec == Init /\ [][Next]_vars

-----------------------------------------------------------------------------
(* Properties                                                              *)

\* A message that was inserted has its row until an administrator deletes it:
\* INSERT IGNORE never swallows another message's row, unless the clock was set
\* back so far that Next returned 0, which handleChat takes for an id.
SavedIsKept ==
    \A m \in Message :
        step[m] = "saved" => m \in rows \cup removed \/ MsgId(m) = 0

Finished(modes) ==
    listing # NoListing /\ listing.mode \in modes /\ listing.done /\ ~listing.broken

\* A client that reads a history, or the administrator's list of messages, to
\* its end has seen every message that was there when it began and still is,
\* whatever was written and deleted meanwhile, except the messages with the
\* timestamp of the last row of a full page: the next page begins strictly
\* before it (timestamp < ?), wherever the page cut the millisecond.
HistoryComplete ==
    Finished(ByTime) =>
        \A m \in listing.owed \cap rows :
            \/ m \in listing.seen
            \/ ts[m] >= listing.start
            \/ \E e \in listing.ends : ts[e] = ts[m]

\* A client that follows next_cursor to its end has seen every match that was
\* there when it began and still is, except the matches on which the order of
\* the pages (timestamp) and the cursor (msg_id) disagree: a row that comes
\* after the last row of a page and has a larger id, or every row after one
\* with the id 0, which the cursor takes for the end.
SearchComplete ==
    Finished(Search) =>
        \A m \in listing.owed \cap rows :
            \/ m \in listing.seen
            \/ \E e \in listing.ends :
                ts[m] <= ts[e] /\ (MsgId(m) > MsgId(e) \/ MsgId(e) = 0)

\* An administrator who pages through the users by offset has seen every user
\* that was there at the beginning, whoever registers meanwhile, unless an
\* account was deleted in the meantime or has the same created_at as the last
\* one of a page.
UsersListed ==
    Finished({"users"}) =>
        \A u \in listing.owed :
            u \in listing.seen \/ \E e \in listing.ends : Created(e) = Created(u)
=============================================================================
