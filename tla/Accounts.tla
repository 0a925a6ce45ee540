------------------------------ MODULE Accounts ------------------------------
(***************************************************************************)
(* Accounts of a gateway: the users table and the HTTP handlers that       *)
(* register, log in, change a password and delete a user (server.go,       *)
(* mysql.go), with the tokens of jwt.go.  Handlers run concurrently, one   *)
(* statement at a time.  A password is identified by the person who chose  *)
(* it and a number; bcrypt is a comparison.  The login without a password  *)
(* that DevMode permits is included.                                       *)
(***************************************************************************)
EXTENDS Naturals

CONSTANTS
    Account,     \* UIDs
    AdminUIDs,   \* the UIDs that the configuration names as administrators
    Person,      \* people who use the accounts
    DevMode,     \* authCfg.DevMode
    NoRow, NoToken, NoChange

Password == Person \X {1, 2}
Role == {"user", "admin"}
Row == [password : Password, role : Role, created : Nat, owner : Person]
Claims == [uid : Account, role : Role]
Change == [uid : Account, new : Password]

ASSUME AccountsAssumption ==
    /\ AdminUIDs \subseteq Account
    /\ DevMode \in BOOLEAN
    /\ NoRow \notin Row
    /\ NoToken \notin Claims
    /\ NoChange \notin Change

VARIABLES
    users,       \* table users: UID -> row
    token,       \* token[p]: the claims in the token that p holds
    change,      \* change[p]: HandleChangePassword of p between its two statements
    overtaken    \* history: UIDs deleted while a change of theirs was under way

accountVars == <<users, token, change, overtaken>>

AccountsInit ==
    /\ users = [u \in Account |-> NoRow]
    /\ token = [p \in Person |-> NoToken]
    /\ change = [p \in Person |-> NoChange]
    /\ overtaken = {}

Exists(u) == users[u] # NoRow

EffectiveRole(u, role) == IF u \in AdminUIDs THEN "admin" ELSE role

IsAdmin(p) == token[p] # NoToken /\ token[p].role = "admin"

\* jwtMgr.Generate, and whether the answer arrives.
Grant(p, u, role) ==
    \/ token' = [token EXCEPT ![p] = [uid |-> u, role |-> role]]
    \/ UNCHANGED token

\* The row that Create inserts; owner is history: who registered it.
NewRow(p, now) ==
    [password |-> <<p, 1>>, role |-> "user", created |-> now, owner |-> p]

\* Mutant: Create replaces a row that exists.
HandleRegisterReplaces(p, u, now) ==
    /\ users' = [users EXCEPT ![u] = IF Exists(u) THEN [@ EXCEPT !.password = <<p, 1>>]
                                     ELSE NewRow(p, now)]
    /\ Grant(p, u, EffectiveRole(u, "user"))
    /\ UNCHANGED <<change, overtaken>>

\* HandleRegister: INSERT fails when the UID is taken.  created_at is the time
\* of the gateway.
HandleRegister(p, u, now) ==
    /\ ~Exists(u)
    /\ users' = [users EXCEPT ![u] = NewRow(p, now)]
    /\ Grant(p, u, EffectiveRole(u, "user"))
    /\ UNCHANGED <<change, overtaken>>

\* DevMode lets the request name the role of administrator.
Asked(dev, role) == IF DevMode /\ dev THEN "admin" ELSE role

\* HandleLogin with a password.
HandleLogin(p, u, dev) ==
    /\ Exists(u)
    /\ users[u].password[1] = p
    /\ token' = [token EXCEPT ![p] = [uid |-> u, role |-> EffectiveRole(u, Asked(dev, users[u].role))]]
    /\ UNCHANGED <<users, change, overtaken>>

\* HandleLogin without one: any UID, whether or not it has a row.
HandleLoginDev(p, u, dev) ==
    /\ DevMode
    /\ token' = [token EXCEPT ![p] = [uid |-> u, role |-> EffectiveRole(u, Asked(dev, "user"))]]
    /\ UNCHANGED <<users, change, overtaken>>

\* HandleChangePassword: authenticateRequest, GetByUID, and the comparison with
\* the current password.
ChangeCheck(p, new) ==
    /\ change[p] = NoChange
    /\ token[p] # NoToken
    /\ Exists(token[p].uid)
    /\ users[token[p].uid].password[1] = p
    /\ change' = [change EXCEPT ![p] = [uid |-> token[p].uid, new |-> <<p, new>>]]
    /\ UNCHANGED <<users, token, overtaken>>

\* UpdatePassword: by UID, whatever row that is by now; an error if there is
\* none or the statement fails.
ChangeUpdate(p) ==
    LET u == change[p].uid IN
    /\ change[p] # NoChange
    /\ change' = [change EXCEPT ![p] = NoChange]
    /\ \/ Exists(u) /\ users' = [users EXCEPT ![u].password = change[p].new]
       \/ UNCHANGED users
    /\ UNCHANGED <<token, overtaken>>

\* HandleAdminUserDelete: adminAuth goes by the role in the token; nobody
\* deletes their own account.
HandleAdminUserDelete(p, target) ==
    /\ IsAdmin(p)
    /\ target # token[p].uid
    /\ Exists(target)
    /\ users' = [users EXCEPT ![target] = NoRow]
    /\ overtaken' = overtaken \cup
         {u \in {target} : \E q \in Person : change[q] # NoChange /\ change[q].uid = u}
    /\ UNCHANGED <<token, change>>

\* NewApp of a gateway that starts: UpdateUserRole for the configured UIDs.
Promote(u) ==
    /\ u \in AdminUIDs
    /\ Exists(u)
    /\ users[u].role # "admin"
    /\ users' = [users EXCEPT ![u].role = "admin"]
    /\ UNCHANGED <<token, change, overtaken>>

\* The token expires: Validate refuses it from now on.
TokenExpires(p) ==
    /\ token[p] # NoToken
    /\ token' = [token EXCEPT ![p] = NoToken]
    /\ UNCHANGED <<users, change, overtaken>>

AccountsNext ==
    \/ \E p \in Person :
        \/ \E u \in Account :
            \/ \E now \in Nat : HandleRegister(p, u, now)
            \/ \E dev \in BOOLEAN : HandleLogin(p, u, dev) \/ HandleLoginDev(p, u, dev)
            \/ HandleAdminUserDelete(p, u)
        \/ \E new \in {1, 2} : ChangeCheck(p, new)
        \/ ChangeUpdate(p)
        \/ TokenExpires(p)
    \/ \E u \in Account : Promote(u)

AccountsSpec == AccountsInit /\ [][AccountsNext]_accountVars

-----------------------------------------------------------------------------
(* Properties                                                              *)

AccountsTypeOK ==
    /\ users \in [Account -> Row \cup {NoRow}]
    /\ token \in [Person -> Claims \cup {NoToken}]
    /\ change \in [Person -> Change \cup {NoChange}]
    /\ overtaken \subseteq Account

\* The password of an account was chosen by the person who registered it,
\* however registrations, changes and deletions interleave; the one exception
\* is an account deleted and registered anew between the two statements of a
\* change of password (server.go:309 and 332), which then meets the new row.
PasswordIsOwners ==
    \A u \in Account \ overtaken : Exists(u) => users[u].password[1] = users[u].owner
=============================================================================
