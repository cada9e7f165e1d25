---------------------------- MODULE MailboxAdmin ----------------------------
(***************************************************************************)
(* The administration API (src/internal/api/service.go) over the tables    *)
(* users, user_settings and app_settings: who owns which recipients, who   *)
(* has which name, and how long messages are kept.                         *)
(*                                                                         *)
(* A request validates in several reads, saves, and recalculates the       *)
(* expiry of the messages, each a call of the store of its own; other      *)
(* requests, SMTP deliveries that read the retention before they insert,   *)
(* and the retention worker run in between, and any call may fail.         *)
(*                                                                         *)
(* expires_at is received_at plus the days then in force, so a message     *)
(* carries these days ("keep", 0 for ever); the clock itself plays no part *)
(* in the properties.  "old" is history: the settings have changed since   *)
(* they were read for this message, and it was not recalculated.           *)
(***************************************************************************)
EXTENDS MailboxPolicy, Integers

CONSTANTS
    MaxUser,        \* bound: users created
    Name, Fold,     \* user names, and what LOWER makes of them
    Reserved,       \* the administrator's name, folded
    Settings,       \* accepted recipients and retention days one may ask for
    NoName, NoRow,
    Request,        \* concurrent API requests
    Delivery,       \* concurrent SMTP deliveries
    Receiving,      \* bound: the mailboxes that mail comes in for
    MaxMessages     \* bound: no delivery starts once so many are stored

ASSUME AdminAssumption ==
    /\ MaxUser \in Nat /\ MaxMessages \in Nat
    /\ NoName \notin Name /\ Fold \in [Name -> Name]
    /\ Settings \subseteq [rcpt : Matcher, days : Int]
    /\ Receiving \subseteq 0..MaxUser
    /\ NoRow \notin [rcpt : Matcher, days : Nat]

Admin == 0          \* the owner of the admin mailbox
NoId  == -1         \* the owner a create request validates for
User  == 1..MaxUser
Owner == {Admin} \cup User
Asked == {s.rcpt : s \in Settings}
Row   == [rcpt : Asked, days : Nat]

VARIABLES
    users,      \* table users: the name of each id
    rows,       \* user_settings, and app_settings "admin_mailbox"
    lastUser,   \* AUTOINCREMENT of users
    pc, req,    \* what each request is doing, and with what
    inbound,    \* deliveries that have read the retention
    store,      \* messages
    lastId      \* AUTOINCREMENT of messages

directory == <<users, rows, lastUser>>
requests  == <<pc, req>>
mail      == <<inbound, store, lastId>>
vars      == <<directory, requests, mail>>

NoRequest == [op |-> "none"]
None      == {}     \* no delivery under way

Exists(u)  == users[u] # NoName
Mailbox    == {Admin} \cup {u \in User : Exists(u)}

\* COALESCE(value_json, '{}') of a missing row.
Unclaimed   == [exact |-> {}, patterns |-> {}]
claims(o)   == IF rows[o] = NoRow THEN Unclaimed ELSE rows[o].rcpt
daysKept(o) == IF rows[o] = NoRow THEN 0 ELSE rows[o].days

Conflict(wanted, o) == recipientOwnershipOverlaps(wanted, claims(o))

Goto(r, step) == pc' = [pc EXCEPT ![r] = step]

\* The request is answered, well or not.
End(r) == Goto(r, "idle") /\ req' = [req EXCEPT ![r] = NoRequest]

Named(op) == op \in {"create", "update"}
----------------------------------------------------------------------------
Init ==
    /\ users = [u \in User |-> NoName]
    /\ rows = [o \in Owner |-> NoRow]
    /\ lastUser = 0
    /\ pc = [r \in Request |-> "idle"]
    /\ req = [r \in Request |-> NoRequest]
    /\ inbound = [d \in Delivery |-> None]
    /\ store = {} /\ lastId = 0

\* Mutant: negative days are taken as they come.
MutantNormalize(s) == s

\* NormalizeUserSettings
Normalize(s) == [s EXCEPT !.days = IF @ < 0 THEN 0 ELSE @]

\* CreateUser, UpdateUser, UpdateSettings of a user, or
\* UpdateAdminMailboxSettings.  A request without recipients has nothing to
\* validate, and the admin mailbox is not compared with itself.
Start(r, op, o, name, settings) ==
    /\ pc[r] = "idle"
    /\ op = "create" <=> o = NoId
    /\ op = "admin" <=> o = Admin
    /\ Named(op) <=> name # NoName
    /\ o \in User => o <= lastUser
    /\ req' = [req EXCEPT ![r] =
                 [op |-> op, owner |-> o, name |-> name,
                  row |-> Normalize(settings), list |-> {}]]
    /\ Goto(r, IF Empty(settings.rcpt) THEN IF Named(op) THEN "name" ELSE "save"
               ELSE IF o = Admin THEN "users" ELSE "admin")
    /\ UNCHANGED <<directory, mail>>

\* ValidateRecipientOwnership: the admin mailbox first ...
ValidateAdmin(r) ==
    /\ pc[r] = "admin"
    /\ IF Conflict(req[r].row.rcpt, Admin) THEN End(r) ELSE Goto(r, "users") /\ UNCHANGED req
    /\ UNCHANGED <<directory, mail>>

\* Mutant: break for continue, at the user concerned.
MutantOthers(r) == {u \in User : Exists(u) /\ (req[r].owner \in User => u < req[r].owner)}

\* ... then every user but the one concerned.
Others(r) == {u \in User : Exists(u) /\ u # req[r].owner}

ValidateUsers(r) ==
    /\ pc[r] = "users"
    /\ IF \E u \in Others(r) : Conflict(req[r].row.rcpt, u) THEN End(r)
       ELSE Goto(r, IF Named(req[r].op) THEN "name" ELSE "save") /\ UNCHANGED req
    /\ UNCHANGED <<directory, mail>>

\* Mutant: names are compared as they are.
MutantSameName(a, b) == a = b

\* LOWER(users.username) = LOWER(?)
SameName(a, b) == Fold[a] = Fold[b]

\* The reserved name, then GetUserByUsername.  If several users match it
\* returns one of them.
CheckName(r) ==
    /\ pc[r] = "name"
    /\ LET found == {u \in User : Exists(u) /\ SameName(users[u], req[r].name)}
       IN  \/ /\ Fold[req[r].name] = Reserved \/ \E u \in found : u # req[r].owner
              /\ End(r)
           \/ /\ Fold[req[r].name] # Reserved
              /\ found = {} \/ req[r].owner \in found
              /\ Goto(r, "save") /\ UNCHANGED req
    /\ UNCHANGED <<directory, mail>>

\* A settings row changes: what was derived from it before is old.
Outdate(S, o) == {[x EXCEPT !.old = (x.owner = o) \/ @] : x \in S}
Outdated(o)   == inbound' = [d \in Delivery |-> Outdate(inbound[d], o)]

\* The UNIQUE constraint on usernames.
NameFree(u, name) == \A v \in User \ {u} : users[v] # name

\* The INSERTs of one transaction; nothing is to be recalculated.
SaveNewUser(r) ==
    /\ pc[r] = "save" /\ req[r].op = "create" /\ lastUser < MaxUser
    /\ NameFree(lastUser + 1, req[r].name)
    /\ lastUser' = lastUser + 1
    /\ users' = [users EXCEPT ![lastUser'] = req[r].name]
    /\ rows' = [rows EXCEPT ![lastUser'] = req[r].row]
    /\ End(r)
    /\ UNCHANGED mail

\* Mutant: INSERT OR REPLACE, which brings a deleted user back.
MutantRowFound(u) == TRUE

\* UPDATE users ... WHERE id = ? finds its row.
RowFound(u) == Exists(u)

\* UPDATE users and the settings row in one transaction, for a user that is
\* still there; SaveUserSettings and SaveAdminMailboxSettings write the row.
SaveRow(r) ==
    LET q == req[r] IN
    /\ pc[r] = "save" /\ q.op # "create"
    /\ \/ /\ q.op = "update" /\ RowFound(q.owner) /\ NameFree(q.owner, q.name)
          /\ users' = [users EXCEPT ![q.owner] = q.name]
          /\ \E step \in {"password", "list"} : Goto(r, step)
       \/ q.op # "update" /\ Goto(r, "list") /\ UNCHANGED users
    /\ rows' = [rows EXCEPT ![q.owner] = q.row]
    /\ Outdated(q.owner)
    /\ store' = Outdate(store, q.owner)
    /\ UNCHANGED <<lastUser, req, lastId>>

\* UpdateUserPassword, of a user that is still there.
SavePassword(r) ==
    /\ pc[r] = "password" /\ RowFound(req[r].owner)
    /\ Goto(r, "list")
    /\ UNCHANGED <<directory, req, mail>>

\* Any call of the request fails, or finds what it forbids.
Fail(r) ==
    /\ pc[r] # "idle"
    /\ End(r)
    /\ UNCHANGED <<directory, mail>>

\* Mutant: turning the retention off needs no recalculation.
MutantKeep(m, ids, days) ==
    IF m.id \in ids THEN [m EXCEPT !.keep = IF days > 0 THEN days ELSE @, !.old = FALSE] ELSE m

\* UPDATE messages SET expires_at
Keep(m, ids, days) == IF m.id \in ids THEN [m EXCEPT !.keep = days, !.old = FALSE] ELSE m

IdsOf(o) == {m.id : m \in {x \in store : x.owner = o}}

\* RecalculateMessageExpirations lists the messages and updates these ...
ListMessages(r) ==
    /\ pc[r] = "list" /\ req[r].row.days > 0
    /\ Goto(r, "apply")
    /\ req' = [req EXCEPT ![r].list = IdsOf(req[r].owner)]
    /\ UNCHANGED <<directory, mail>>

Recalculate(r, ids) ==
    /\ store' = {Keep(m, ids, req[r].row.days) : m \in store}
    /\ End(r)
    /\ UNCHANGED <<directory, inbound, lastId>>

ApplyToListed(r) == pc[r] = "apply" /\ Recalculate(r, req[r].list)

\* ... or, without retention, clears the dates of all in one statement.
ApplyToAll(r) ==
    /\ pc[r] = "list" /\ req[r].row.days = 0
    /\ Recalculate(r, IdsOf(req[r].owner))

\* One transaction.
DeleteUser(r, u) ==
    /\ pc[r] = "idle"
    /\ Exists(u)
    /\ users' = [users EXCEPT ![u] = NoName]
    /\ rows' = [rows EXCEPT ![u] = NoRow]
    /\ store' = {m \in store : m.owner # u}
    /\ Outdated(u)
    /\ UNCHANGED <<lastUser, requests, lastId>>
----------------------------------------------------------------------------
\* persistMessage reads the retention of the owner ...
ReadRetention(d, o) ==
    /\ inbound[d] = None
    /\ o \in User => o <= lastUser
    /\ lastId < MaxMessages
    /\ inbound' = [inbound EXCEPT ![d] = {[owner |-> o, keep |-> daysKept(o), old |-> FALSE]}]
    /\ UNCHANGED <<directory, requests, store, lastId>>

\* ... and then inserts the message, or fails.
CreateMessage(d) ==
    /\ \E x \in inbound[d] :
          store' = store \cup {[id |-> lastId + 1, owner |-> x.owner, keep |-> x.keep,
                                old |-> x.old]}
    /\ lastId' = lastId + 1
    /\ inbound' = [inbound EXCEPT ![d] = None]
    /\ UNCHANGED <<directory, requests>>

DeliveryFails(d) ==
    /\ inbound[d] # None
    /\ inbound' = [inbound EXCEPT ![d] = None]
    /\ UNCHANGED <<directory, requests, store, lastId>>

\* The retention worker: messages whose time has come, never one kept for
\* ever.
DeleteExpiredMessages ==
    /\ \E expired \in SUBSET {m \in store : m.keep > 0} :
          expired # {} /\ store' = store \ expired
    /\ UNCHANGED <<directory, requests, inbound, lastId>>

\* The process dies and is started again.
Restart ==
    /\ pc' = [r \in Request |-> "idle"]
    /\ req' = [r \in Request |-> NoRequest]
    /\ inbound' = [d \in Delivery |-> None]
    /\ UNCHANGED <<directory, store, lastId>>

Serve(r) ==
    \/ \E op \in {"create", "update", "settings", "admin"}, o \in Owner \cup {NoId},
          name \in Name \cup {NoName}, s \in Settings : Start(r, op, o, name, s)
    \/ ValidateAdmin(r) \/ ValidateUsers(r) \/ CheckName(r)
    \/ SaveNewUser(r) \/ SaveRow(r) \/ SavePassword(r) \/ Fail(r)
    \/ ListMessages(r) \/ ApplyToListed(r) \/ ApplyToAll(r)
    \/ \E u \in User : DeleteUser(r, u)

persistMessage(d) ==
    (\E o \in Receiving : ReadRetention(d, o)) \/ CreateMessage(d) \/ DeliveryFails(d)

Next ==
    \/ \E r \in Request : Serve(r)
    \/ \E d \in Delivery : persistMessage(d)
    \/ DeleteExpiredMessages
    \/ Restart

Spec == Init /\ [][Next]_vars
----------------------------------------------------------------------------
RequestRecord ==
    [op : {"create", "update", "settings", "admin"}, owner : Owner \cup {NoId},
     name : Name \cup {NoName}, row : Row, list : SUBSET Nat]

TypeOK ==
    /\ users \in [User -> Name \cup {NoName}]
    /\ rows \in [Owner -> Row \cup {NoRow}]
    /\ lastUser \in 0..MaxUser
    /\ pc \in [Request -> {"idle", "admin", "users", "name", "save", "password", "list", "apply"}]
    /\ req \in [Request -> RequestRecord \cup {NoRequest}]
    /\ \A r \in Request : pc[r] = "idle" <=> req[r] = NoRequest
    /\ inbound \in [Delivery -> SUBSET [owner : Owner, keep : Nat, old : BOOLEAN]]
    /\ store \subseteq [id : Nat, owner : Owner, keep : Nat, old : BOOLEAN]
    /\ lastId \in Nat

(* policy.go:63, 110-159.  No two mailboxes claim the same recipients.      *)
ExclusiveOwnership ==
    \A o, p \in Mailbox : o # p => ~recipientOwnershipOverlaps(claims(o), claims(p))

(* service.go:198-205, 225-232.  No two users have names that a login would *)
(* take for the same, and none has the administrator's.                     *)
NamesDistinct ==
    \A u, v \in User : Exists(u) /\ Exists(v) =>
        /\ u # v => Fold[users[u]] # Fold[users[v]]
        /\ Fold[users[u]] # Reserved

(* service.go:142, 173, 250 with server.go:286-304.  A message is kept for  *)
(* the days its owner's settings say, unless its insertion overlapped a     *)
(* change of them, or the last change failed after it was saved.            *)
RetentionFollows ==
    \A m \in store : m.old \/ m.keep = daysKept(m.owner)

Directory == INSTANCE MailboxDirectory WITH
    Login   <- {Fold[name] : name \in Name},
    Claim   <- Asked,
    Nothing <- Unclaimed,
    Overlap <- recipientOwnershipOverlaps,
    box     <- [o \in Mailbox |->
                  [login |-> IF o = Admin THEN Reserved ELSE Fold[users[o]],
                   claim |-> claims(o)]],
    last    <- lastUser

(* service.go:101-264.  A request that validates in several reads and then  *)
(* saves does what one step of MailboxDirectory would: it registers or      *)
(* changes a mailbox whose name and recipients are free when it is saved.   *)
ImplementsDirectory == Directory!DirectorySpec
=============================================================================
