------------------------------ MODULE WebAccess ------------------------------
(***************************************************************************)
(* Logins, sessions and the requests made with them (src/internal/api),    *)
(* over the tables users, auth_sessions, auth_login_attempts, app_settings *)
(* and messages, and the settings the process runs with, which it keeps in *)
(* two places: the runtime manager (src/internal/runtimeconfig), and the   *)
(* bootstrap policy of the SMTP server, which is built from them at the    *)
(* start (src/cmd/mailtail).                                               *)
(*                                                                         *)
(* A login is several calls of the store, an authenticated request learns  *)
(* its principal before it does what was asked, and a delivery knows its   *)
(* owner before it inserts; users come and go in between.  Any call may    *)
(* fail: Fail covers it at every step, and also a request that only reads. *)
(*                                                                         *)
(* "who" is history: the account meant, counted in the order of creation,  *)
(* where the tables only have ids.  So are "stray", that the user was      *)
(* deleted while the login or delivery was under way, and "latest", the    *)
(* settings saved last and those that were saved but not applied then.     *)
(***************************************************************************)
EXTENDS Integers, FiniteSets

CONSTANTS
    MaxUser,        \* bound: users created
    Request,        \* concurrent HTTP requests
    Delivery,       \* concurrent SMTP deliveries
    Client,         \* addresses that logins come from
    Cookie,         \* bound: sessions
    AttemptId,      \* bound: attempts recorded at a time
    MessageId,      \* bound: messages stored at a time
    MaxTime,        \* bound: time
    LoginLimit,     \* attempts after which a login is refused
    LoginWindow,    \* how long an attempt counts
    SessionLife,    \* how long a session lasts
    Settings,       \* what the administrator may set
    Env,            \* what the environment sets in its place
    Limits,         \* restrictions on addresses, senders and recipients
    EnvLimits,      \* those of the environment
    Open,           \* none
    NoClient, NoSession, NoMail, NoRow

ASSUME AccessAssumption ==
    /\ MaxUser \in Nat /\ MaxTime \in Nat
    /\ LoginLimit \in Nat \ {0} /\ LoginWindow \in Nat \ {0} /\ SessionLife \in Nat
    /\ IsFiniteSet(Request) /\ IsFiniteSet(AttemptId)
    /\ NoClient \notin Client /\ {EnvLimits, Open} \subseteq Limits
    /\ NoRow \notin [web : Settings \cup {Env}, smtp : Limits]
    /\ NoSession \notin [user : Nat, who : Nat, stray : BOOLEAN, expires : Nat]
    /\ NoMail \notin [owner : Nat, who : Nat, stray : BOOLEAN]

Admin  == 0     \* the administrator, and the owner of the admin mailbox
User   == 1..MaxUser
NoUser == -1

\* Application settings.  Settings that normalizeSettings makes equal are one.
AppSettings == [web : Settings \cup {Env}, smtp : Limits]

envAppSettings == [web |-> Env, smtp |-> EnvLimits]

VARIABLES
    users,      \* table users: the account each id stands for, 0 for none
    created,    \* accounts created, and AUTOINCREMENT of users
    session,    \* auth_sessions, by the cookie that names them
    attempts,   \* auth_login_attempts
    store,      \* messages
    pc, req,    \* what each request is doing, and with what
    inbound,    \* deliveries that know their owner
    saved,      \* app_settings "runtime"
    applied,    \* runtimeconfig.Manager
    policy,     \* what the bootstrap DomainPolicy enforces
    latest,
    now

accounts == <<users, created>>
requests == <<pc, req>>
mail     == <<store, inbound>>
config   == <<saved, applied, policy, latest>>
vars     == <<accounts, session, attempts, requests, mail, config, now>>

NoRequest ==
    [client |-> NoClient, at |-> 0, user |-> NoUser, who |-> 0, stray |-> FALSE, row |-> NoRow]

Exists(u)  == users[u] # 0
Present(u) == u = Admin \/ (u \in User /\ Exists(u))
Account(u) == IF u = Admin THEN Admin ELSE users[u]

Goto(r, step) == pc' = [pc EXCEPT ![r] = step]

\* The request is answered, well or not.
End(r) == Goto(r, "idle") /\ req' = [req EXCEPT ![r] = NoRequest]

\* OwnerUserID and IncludeAll of a MessageFilter, and the owner_user_id
\* clauses of the store.
Visible(u) == {m \in store : u = Admin \/ m.owner = u}
----------------------------------------------------------------------------
Init ==
    /\ users = [u \in User |-> 0] /\ created = 0
    /\ session = [c \in Cookie |-> NoSession]
    /\ attempts = {}
    /\ pc = [r \in Request |-> "idle"] /\ req = [r \in Request |-> NoRequest]
    /\ store = {} /\ inbound = [d \in Delivery |-> NoMail]
    /\ saved = NoRow /\ applied = envAppSettings /\ policy = EnvLimits
    /\ latest = {envAppSettings}
    /\ now = 0

\* DeleteExpiredLoginAttempts leaves these.
Recent(t) == {a \in attempts : a.at > t - LoginWindow}

\* loginLimited reads the clock and clears out the table ...
LoginStart(r, c) ==
    /\ pc[r] = "idle"
    /\ attempts' = Recent(now)
    /\ req' = [req EXCEPT ![r] = [NoRequest EXCEPT !.client = c, !.at = now]]
    /\ Goto(r, "count")
    /\ UNCHANGED <<accounts, session, mail, config, now>>

From(c, A) == {a \in A : a.client = c}

\* Mutant: one attempt more.
MutantLimited(c, t) == Cardinality(From(c, Recent(t))) > LoginLimit

\* CountLoginAttemptsSince
Limited(c, t) == Cardinality(From(c, Recent(t))) >= LoginLimit

\* ... and then counts.
CountAttempts(r) ==
    /\ pc[r] = "count"
    /\ IF Limited(req[r].client, req[r].at) THEN End(r)
       ELSE Goto(r, "check") /\ req' = [req EXCEPT ![r].at = 0]
    /\ UNCHANGED <<accounts, session, attempts, mail, config, now>>

\* Unknown user, wrong password, or a form that cannot be parsed.
Refuse(r) ==
    /\ pc[r] = "check"
    /\ Goto(r, "expire")
    /\ UNCHANGED <<accounts, session, attempts, req, mail, config, now>>

\* The administrator's credentials, or those of the row read.
Accept(r, u) ==
    /\ pc[r] = "check" /\ Present(u)
    /\ req' = [req EXCEPT ![r].user = u, ![r].who = Account(u)]
    /\ Goto(r, "clear")
    /\ UNCHANGED <<accounts, session, attempts, mail, config, now>>

\* recordLoginAttempt
RecordExpire(r) ==
    /\ pc[r] = "expire"
    /\ attempts' = Recent(now)
    /\ req' = [req EXCEPT ![r].at = now]
    /\ Goto(r, "record")
    /\ UNCHANGED <<accounts, session, mail, config, now>>

RecordLoginAttempt(r) ==
    /\ pc[r] = "record"
    /\ \E id \in AttemptId \ {a.id : a \in attempts} :
          attempts' = attempts \cup {[id |-> id, client |-> req[r].client, at |-> req[r].at]}
    /\ End(r)
    /\ UNCHANGED <<accounts, session, mail, config, now>>

ClearLoginAttempts(r) ==
    /\ pc[r] = "clear"
    /\ attempts' = attempts \ From(req[r].client, attempts)
    /\ Goto(r, "create")
    /\ UNCHANGED <<accounts, session, req, mail, config, now>>

CreateAuthSession(r) ==
    /\ pc[r] = "create"
    /\ \E c \in Cookie :
          /\ session[c] = NoSession
          /\ session' = [session EXCEPT ![c] =
               [user |-> req[r].user, who |-> req[r].who, stray |-> req[r].stray,
                expires |-> now + SessionLife]]
    /\ End(r)
    /\ UNCHANGED <<accounts, attempts, mail, config, now>>

\* handleLogout.  A failure to delete the row is ignored.
DeleteAuthSession(c) ==
    /\ session[c] # NoSession
    /\ session' = [session EXCEPT ![c] = NoSession]
    /\ UNCHANGED <<accounts, attempts, requests, mail, config, now>>

\* Middleware: the principal is what the session's row says.  The row of a
\* session that is over is deleted, if that works.
Authenticate(r, c) ==
    /\ pc[r] = "idle" /\ session[c] # NoSession
    /\ \/ /\ session[c].expires > now
          /\ req' = [req EXCEPT ![r] = [NoRequest EXCEPT !.user = session[c].user,
                                                         !.who = session[c].who]]
          /\ Goto(r, "serve")
          /\ UNCHANGED session
       \/ /\ session[c].expires <= now
          /\ session' = [session EXCEPT ![c] = NoSession]
          /\ UNCHANGED requests
    /\ UNCHANGED <<accounts, attempts, mail, config, now>>

ServeAs(r, u) == pc[r] = "serve" /\ req[r].user = u
----------------------------------------------------------------------------
\* DeleteMessage, DeleteAllMessages
DeleteMessages(r) ==
    /\ pc[r] = "serve"
    /\ \E S \in SUBSET Visible(req[r].user) : S # {} /\ store' = store \ S
    /\ End(r)
    /\ UNCHANGED <<accounts, session, attempts, inbound, config, now>>

\* Mutant: without AUTOINCREMENT the next id follows the largest in use.
MutantNextId == 1 + Cardinality({u \in User : \E v \in u..MaxUser : Exists(v)})

NextId == created + 1

CreateUser(r) ==
    /\ ServeAs(r, Admin) /\ created < MaxUser
    /\ users' = [users EXCEPT ![NextId] = created + 1]
    /\ created' = created + 1
    /\ End(r)
    /\ UNCHANGED <<session, attempts, mail, config, now>>

\* Mutant: the sessions are forgotten.
MutantSessionsWithout(u) == session

\* DELETE FROM auth_sessions WHERE user_id = ?
SessionsWithout(u) ==
    [c \in Cookie |-> IF session[c] # NoSession /\ session[c].user = u
                      THEN NoSession ELSE session[c]]

\* One transaction.  Logins and deliveries for the user are not aware of it.
DeleteUser(r, u) ==
    /\ ServeAs(r, Admin) /\ Exists(u)
    /\ users' = [users EXCEPT ![u] = 0]
    /\ store' = {m \in store : m.owner # u}
    /\ session' = SessionsWithout(u)
    /\ Goto(r, "idle")
    /\ req' = [q \in Request |->
                 IF q = r THEN NoRequest
                 ELSE [req[q] EXCEPT !.stray = @ \/ (req[q].user = u /\ pc[q] # "serve")]]
    /\ inbound' = [d \in Delivery |->
                     IF inbound[d] # NoMail /\ inbound[d].owner = u
                     THEN [inbound[d] EXCEPT !.stray = TRUE] ELSE inbound[d]]
    /\ UNCHANGED <<created, attempts, config, now>>

\* What UpdateSettings makes of them: the restrictions are left out.
Global(s) == [web |-> s, smtp |-> Open]

\* Saved, and not applied yet.
Pending == {req[q].row : q \in {q \in Request : pc[q] = "apply"}}

\* Mutant: the process first.
MutantSaveAppSettings(r, s) ==
    /\ ServeAs(r, Admin)
    /\ applied' = Global(s)
    /\ \/ saved' = Global(s) /\ latest' = {Global(s)}
       \/ UNCHANGED <<saved, latest>>
    /\ End(r)
    /\ UNCHANGED <<accounts, session, attempts, mail, policy, now>>

\* UpdateSettings of the administrator: the row first ...
SaveAppSettings(r, s) ==
    /\ ServeAs(r, Admin)
    /\ saved' = Global(s)
    /\ latest' = {Global(s)} \cup Pending
    /\ req' = [req EXCEPT ![r].row = Global(s)]
    /\ Goto(r, "apply")
    /\ UNCHANGED <<accounts, session, attempts, mail, applied, policy, now>>

\* ... and then the manager.  The policy is left as it is.
Apply(r) ==
    /\ pc[r] = "apply"
    /\ applied' = req[r].row
    /\ End(r)
    /\ UNCHANGED <<accounts, session, attempts, mail, saved, policy, latest, now>>

\* A call of the store fails, or has nothing to change.
Fail(r) ==
    /\ pc[r] \notin {"idle", "apply"}
    /\ End(r)
    /\ UNCHANGED <<accounts, session, attempts, mail, config, now>>
----------------------------------------------------------------------------
\* OnData routes the message to a user that is there ...
OnData(d, u) ==
    /\ inbound[d] = NoMail /\ Present(u)
    /\ inbound' = [inbound EXCEPT ![d] = [owner |-> u, who |-> Account(u), stray |-> FALSE]]
    /\ UNCHANGED <<accounts, session, attempts, requests, store, config, now>>

\* ... and persistMessage inserts it, or fails.
CreateMessage(d) ==
    /\ inbound[d] # NoMail
    /\ \E id \in MessageId \ {m.id : m \in store} :
          store' = store \cup {[id |-> id, owner |-> inbound[d].owner, who |-> inbound[d].who,
                                stray |-> inbound[d].stray]}
    /\ inbound' = [inbound EXCEPT ![d] = NoMail]
    /\ UNCHANGED <<accounts, session, attempts, requests, config, now>>

DeliveryFails(d) ==
    /\ inbound[d] # NoMail
    /\ inbound' = [inbound EXCEPT ![d] = NoMail]
    /\ UNCHANGED <<accounts, session, attempts, requests, store, config, now>>

Tick ==
    /\ now < MaxTime
    /\ now' = now + 1
    /\ UNCHANGED <<accounts, session, attempts, requests, mail, config>>

\* Mutant: what the store returns when there is no row.
MutantLoaded == IF saved = NoRow THEN [web |-> NoRow, smtp |-> Open] ELSE saved

\* What main starts with: the row as a whole if there is one, or else the
\* environment.
Loaded == IF saved = NoRow THEN envAppSettings ELSE saved

\* The process dies and is started again: manager and policy are both built
\* from what is loaded.
Restart ==
    /\ pc' = [r \in Request |-> "idle"] /\ req' = [r \in Request |-> NoRequest]
    /\ inbound' = [d \in Delivery |-> NoMail]
    /\ applied' = Loaded /\ policy' = Loaded.smtp /\ latest' = {Loaded}
    /\ UNCHANGED <<accounts, session, attempts, store, saved, now>>

handleLogin(r) ==
    \/ \E c \in Client : LoginStart(r, c)
    \/ CountAttempts(r) \/ Refuse(r) \/ RecordExpire(r) \/ RecordLoginAttempt(r)
    \/ \E u \in {Admin} \cup User : Accept(r, u)
    \/ ClearLoginAttempts(r) \/ CreateAuthSession(r)

Serve(r) ==
    \/ \E c \in Cookie : Authenticate(r, c)
    \/ DeleteMessages(r) \/ CreateUser(r) \/ \E u \in User : DeleteUser(r, u)
    \/ \E s \in Settings : SaveAppSettings(r, s)
    \/ Apply(r)

Next ==
    \/ \E r \in Request : handleLogin(r) \/ Serve(r) \/ Fail(r)
    \/ \E c \in Cookie : DeleteAuthSession(c)
    \/ \E d \in Delivery :
          CreateMessage(d) \/ DeliveryFails(d) \/ \E u \in {Admin} \cup User : OnData(d, u)
    \/ Tick
    \/ Restart

Spec == Init /\ [][Next]_vars
----------------------------------------------------------------------------
Step == {"idle", "count", "check", "expire", "record", "clear", "create", "serve", "apply"}

RequestRecord ==
    [client : Client \cup {NoClient}, at : Nat, user : {NoUser, Admin} \cup User,
     who : Nat, stray : BOOLEAN, row : AppSettings \cup {NoRow}]

SessionRow == [user : {Admin} \cup User, who : Nat, stray : BOOLEAN, expires : Nat]
Envelope   == [owner : {Admin} \cup User, who : Nat, stray : BOOLEAN]

TypeOK ==
    /\ users \in [User -> Nat] /\ created \in 0..MaxUser
    /\ session \in [Cookie -> SessionRow \cup {NoSession}]
    /\ attempts \subseteq [id : AttemptId, client : Client, at : Nat]
    /\ store \subseteq [id : MessageId, owner : {Admin} \cup User, who : Nat, stray : BOOLEAN]
    /\ pc \in [Request -> Step] /\ req \in [Request -> RequestRecord]
    /\ inbound \in [Delivery -> Envelope \cup {NoMail}]
    /\ saved \in AppSettings \cup {NoRow} /\ applied \in AppSettings
    /\ policy \in Limits /\ latest \subseteq AppSettings
    /\ now \in 0..MaxTime

\* The mail a principal sees, if it is not the administrator's.
SeesOwn(u, who) == u \in User => \A m \in Visible(u) : m.who = who

(* auth.go:67-73 with sqlite.go:872-875 and 957-960.  A user's session, and *)
(* a request under way, see no mail but that of the account that logged in, *)
(* whatever accounts were deleted and created since.                        *)
OwnMailOnly ==
    /\ \A c \in Cookie : session[c] # NoSession => SeesOwn(session[c].user, session[c].who)
    /\ \A r \in Request : pc[r] = "serve" => SeesOwn(req[r].user, req[r].who)

(* sqlite.go:561-592.  No session and no mail of a user is left when it has *)
(* been deleted, but for a login or a delivery that overlapped the deletion.*)
NothingSurvivesItsUser ==
    /\ \A c \in Cookie :
          session[c] # NoSession => Present(session[c].user) \/ session[c].stray
    /\ \A m \in store : Present(m.owner) \/ m.stray

\* Logins of an address that may still find the password wrong.
Guessing(c) ==
    {r \in Request : pc[r] \in {"check", "expire", "record"} /\ req[r].client = c}

(* auth.go:223-242.  Wrong passwords of one address on record, and logins   *)
(* past the count, never exceed the limit by more than the requests that    *)
(* can run at once.                                                         *)
Throttled ==
    \A c \in Client :
        Cardinality(From(c, Recent(now))) + Cardinality(Guessing(c))
            < LoginLimit + Cardinality(Request)

(* service.go:113-126 with main.go:94-106.  Between updates, neither the    *)
(* manager nor a restart goes back behind the last update: an update that   *)
(* was over before that one was saved, or that failed, is not in force, and *)
(* only updates that overlapped may win over each other.  The restrictions  *)
(* of the SMTP server differ from those of a restart in one way only: it    *)
(* has the environment's, and a restart has none.                           *)
NoOldSettings ==
    Pending = {} =>
        /\ {applied, Loaded} \subseteq latest
        /\ policy = Loaded.smtp \/ (policy = EnvLimits /\ Loaded = Global(Loaded.web))

(* README.md:355: "These settings are saved and applied live without       *)
(* restarting MailTail."  Between updates the manager and the policy have   *)
(* what is saved, and a restart changes nothing.                            *)
AppliedLive == Pending = {} => applied = Loaded /\ policy = Loaded.smtp
=============================================================================
