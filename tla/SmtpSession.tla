----------------------------- MODULE SmtpSession -----------------------------
(***************************************************************************)
(* SMTP connections (src/internal/smtpserver/server.go) deciding with the  *)
(* routing policy (policy.go) while the API changes the mailboxes.         *)
(*                                                                         *)
(* The settings tables are one row per owner; "past" is the sequence of    *)
(* all their values, the last one being the table in the database, so that *)
(* what a connection read earlier is an index into it and a property can   *)
(* speak of what held at some moment of a command.  Every call of the      *)
(* store is a step of its own: policyUsers reads the users and then the    *)
(* admin row, and a change may fall between the two.                       *)
(*                                                                         *)
(* Owner Admin is user id 0: the admin mailbox, and the bootstrap policy   *)
(* of a server without mailboxes.  RcptTo is a set here.                   *)
(***************************************************************************)
EXTENDS MailboxPolicy, Sequences, FiniteSets

CONSTANTS
    Conn, User, Admin,
    NoRow,          \* no settings row (and, for a user, no such user)
    Settings,       \* the policies an administrator may save
    Initial,        \* the settings tables the server may be started on
    Bootstraps,     \* the bootstrap policies the server may start with
    RemoteOf,       \* the client address of each connection
    Sender, Recipient,  \* what clients give to MAIL and RCPT
    MaxChanges,     \* bound: changes of the settings tables
    MaxMessages     \* bound: messages stored

ASSUME SessionAssumption ==
    /\ Admin \notin User /\ NoRow \notin Policy
    /\ Settings \subseteq Policy /\ Bootstraps \subseteq Policy
    /\ Initial \subseteq [User \cup {Admin} -> Policy \cup {NoRow}]
    /\ \A b \in Bootstraps :     \* sanitizeBootstrapSettings
          b.reject \cup b.greylist \cup b.dataReject \cup b.report = {}
    /\ RemoteOf \in [Conn -> Remote]
    /\ Sender \subseteq Address \cup {NoSender} /\ Recipient \subseteq Address
    /\ MaxChanges \in Nat /\ MaxMessages \in Nat

VARIABLES
    past,       \* the values of the settings tables so far
    bootstrap,  \* DomainPolicy.state of the running process
    pc,         \* what each connection is doing
    session,    \* SessionMetadata of each connection
    command,    \* the command being served: see Idle
    todo,       \* the reports still to enqueue
    current,    \* the message being answered, 0 for none
    store,      \* the messages table
    purged,     \* history: messages that went with their user
    lastId,     \* AUTOINCREMENT of messages
    reports,    \* outbound messages enqueued
    acked,      \* history: messages answered with 250
    began       \* history: when the last MAIL was accepted

tables  == <<past, bootstrap>>
mail    == <<store, purged, lastId, reports, acked>>
control == <<todo, current, began>>
vars    == <<tables, mail, control, pc, session, command>>

Owner == User \cup {Admin}
Row   == Policy \cup {NoRow}
Steps == {"closed", "connect", "ready", "rcpt", "managed", "fallback", "data",
          "body", "persist", "stored", "report", "enqueue", "answer"}

NoSession == [mailFrom |-> NoSender, rcptTo |-> {}, owner |-> Admin, ownerSet |-> FALSE]

\* When the command arrived, when it last listed the users, and the argument
\* of RCPT.
Idle == [asked |-> 0, seen |-> 0, rcpt |-> NoSender]

Now      == Len(past)
settings == past[Now]
----------------------------------------------------------------------------
\* The rows policyUsers works on: users as listed, the admin row as it is now.
RowsRead(c) == [o \in Owner |-> IF o = Admin THEN settings[o] ELSE past[command[c].seen][o]]

HasMailbox(rows, o) == rows[o] # NoRow /\ Routed(rows[o])

policyUsers(c) == {o \in Owner : HasMailbox(RowsRead(c), o)}

Matches(c, p, a) == matchesUserPolicy(p, RemoteOf[c], session[c].mailFrom, a)

candidates(c) == {o \in policyUsers(c) : Matches(c, RowsRead(c)[o], command[c].rcpt)}

\* Mutant: a mailbox that is gone is answered like the bootstrap one.
MutantMailboxFallback(c) == TRUE

\* mailboxState: a user must still be routed, the admin falls back.
mailboxFound(c) == session[c].owner \in policyUsers(c) \cup {Admin}
mailboxState(c) == IF session[c].owner \in policyUsers(c)
                     THEN RowsRead(c)[session[c].owner] ELSE bootstrap

NoUsers(rows)   == \A u \in User : rows[u] = NoRow
AdminIdle(rows) == rows[Admin] = NoRow \/ ~mailboxPolicyEnabled(rows[Admin])

Goto(c, step) == pc' = [pc EXCEPT ![c] = step]

\* A command arrives and its handler lists the users.
Begin(c, from, step, a) ==
    /\ pc[c] = from
    /\ Goto(c, step)
    /\ command' = [command EXCEPT ![c] = [asked |-> Now, seen |-> Now, rcpt |-> a]]
    /\ UNCHANGED <<tables, mail, control, session>>

\* The handler goes on to its next step.
Continue(c, step) ==
    /\ Goto(c, step)
    /\ UNCHANGED <<tables, mail, control, session, command>>

\* The handler is through with its command, and the connection at "step".
Finish(c, step) ==
    /\ Goto(c, step)
    /\ command' = [command EXCEPT ![c] = Idle]
    /\ UNCHANGED <<tables, mail, control>>

\* It answers with a refusal and the session stays as it was.
Refuse(c) == Finish(c, "ready") /\ UNCHANGED session
----------------------------------------------------------------------------
Init ==
    /\ \E rows \in Initial : past = <<rows>>
    /\ bootstrap \in Bootstraps
    /\ pc = [c \in Conn |-> "closed"]
    /\ session = [c \in Conn |-> NoSession]
    /\ command = [c \in Conn |-> Idle]
    /\ todo = [c \in Conn |-> {}]
    /\ current = [c \in Conn |-> 0]
    /\ began = [c \in Conn |-> 0]
    /\ store = {} /\ purged = {} /\ lastId = 0 /\ reports = {} /\ acked = {}

Connect(c) == Begin(c, "closed", "connect", NoSender)

OnConnect(c) ==
    /\ pc[c] = "connect"
    /\ IF policyUsers(c) # {} \/ connectAllowed(bootstrap, RemoteOf[c])
         THEN Finish(c, "ready") ELSE Finish(c, "closed")
    /\ UNCHANGED session

\* Mutant: MAIL replaces the sender only.
MutantKeepRecipients(c, from) ==
    /\ pc[c] = "ready"
    /\ session' = [session EXCEPT ![c].mailFrom = from]
    /\ began' = [began EXCEPT ![c] = Now]
    /\ UNCHANGED <<tables, mail, pc, command, todo, current>>

\* A MAIL refused with 501 or 552 changes nothing.  OnMailFrom accepts every
\* sender.
MailFrom(c, from) ==
    /\ pc[c] = "ready"
    /\ session' = [session EXCEPT ![c] = [NoSession EXCEPT !.mailFrom = from]]
    /\ began' = [began EXCEPT ![c] = Now]
    /\ UNCHANGED <<tables, mail, pc, command, todo, current>>

\* Mutant: the parsed path is not handed on.
MutantEmptyRcpt(c, a) == Begin(c, "ready", "rcpt", NoSender)

RcptTo(c, a) == Begin(c, "ready", "rcpt", a)

AcceptRcpt(c, o) ==
    /\ Finish(c, "ready")
    /\ session' = [session EXCEPT ![c] =
                     [mailFrom |-> @.mailFrom, rcptTo |-> @.rcptTo \cup {command[c].rcpt},
                      owner |-> o, ownerSet |-> TRUE]]

OtherOwner(c, o) == session[c].ownerSet /\ session[c].owner # o

\* One candidate, the one the envelope already belongs to if it has any.
RcptRouted(c, o) ==
    /\ pc[c] = "rcpt"
    /\ candidates(c) = {o}
    /\ ~OtherOwner(c, o)
    /\ rcptMayPass(RowsRead(c)[o], command[c].rcpt)
    /\ AcceptRcpt(c, o)

RcptRefused(c) ==
    /\ pc[c] = "rcpt"
    /\ \/ candidates(c) = {} /\ policyUsers(c) # {}
       \/ \E o \in candidates(c) :
             \/ candidates(c) # {o}
             \/ OtherOwner(c, o)
             \/ rcptMayFail(RowsRead(c)[o], command[c].rcpt)
    /\ Refuse(c)

\* No mailbox is routed: hasManagedMailboxes lists the users again ...
RcptUnrouted(c) ==
    /\ pc[c] = "rcpt"
    /\ policyUsers(c) = {}
    /\ Continue(c, "managed")

\* Mutant: only routed mailboxes count as managed.
MutantSkipUnrouted(c) == pc[c] = "managed" /\ Continue(c, "fallback")

ManagedUsers(c) ==
    /\ pc[c] = "managed"
    /\ IF NoUsers(settings) THEN Continue(c, "fallback") ELSE Refuse(c)

\* ... and loads the admin row again.  The bootstrap policy then decides
\* (defaultRcptResponse; it has no MailFail rules), whoever the envelope
\* belonged to.
RcptByBootstrap(c) ==
    /\ pc[c] = "fallback"
    /\ IF AdminIdle(settings) /\ Matches(c, bootstrap, command[c].rcpt)
         THEN AcceptRcpt(c, Admin) ELSE Refuse(c)

Data(c) ==
    /\ session[c].mailFrom # NoSender /\ session[c].rcptTo # {}
    /\ Begin(c, "ready", "data", NoSender)

OnData(c) ==
    /\ pc[c] = "data"
    /\ IF mailboxFound(c) /\ ~MatchData(mailboxState(c), session[c].rcptTo)
         THEN Continue(c, "body") ELSE Refuse(c)

\* A read of the store failed: 451, or the connection is refused.
LookupFails(c) ==
    /\ \/ pc[c] \in {"rcpt", "managed", "fallback", "data"} /\ Refuse(c)
       \/ pc[c] = "connect" /\ Finish(c, "closed") /\ UNCHANGED session

ReadBody(c) == pc[c] = "body" /\ Continue(c, "persist")

\* readDataBlockLimit drained a body that is too large.
RefuseBody(c) == pc[c] = "body" /\ Refuse(c)

CreateMessage(c) ==
    /\ pc[c] = "persist" /\ lastId < MaxMessages
    /\ Goto(c, "stored")
    /\ lastId' = lastId + 1
    /\ current' = [current EXCEPT ![c] = lastId']
    /\ store' = store \cup {[id |-> lastId', client |-> c, owner |-> session[c].owner,
                             from |-> session[c].mailFrom, rcptTo |-> session[c].rcptTo]}
    /\ UNCHANGED <<tables, purged, reports, acked, session, command, todo, began>>

\* Mutant: the error of persistMessage is not looked at.
MutantIgnoreError(c) == pc[c] = "persist" /\ Continue(c, "stored")

StoreFails(c) == pc[c] = "persist" /\ Refuse(c)

\* The message says Auto-Submitted, or the policy could not be read.
NoReports(c) == pc[c] \in {"stored", "report"} /\ Continue(c, "answer")

\* Mutant: reports are queued before the message is saved.
MutantReportsFirst(c) ==
    /\ pc[c] = "persist"
    /\ Goto(c, "report")
    /\ command' = [command EXCEPT ![c].seen = Now]
    /\ UNCHANGED <<tables, mail, control, session>>

StartReports(c) ==
    /\ pc[c] = "stored"
    /\ Goto(c, "report")
    /\ command' = [command EXCEPT ![c].seen = Now]
    /\ UNCHANGED <<tables, mail, control, session>>

ReportsFor(c) ==
    /\ pc[c] = "report" /\ mailboxFound(c)
    /\ Goto(c, "enqueue")
    /\ todo' = [todo EXCEPT ![c] =
                  reportsFor(mailboxState(c), session[c].mailFrom, session[c].rcptTo)]
    /\ UNCHANGED <<tables, mail, session, command, current, began>>

\* BuildReportMessage and EnqueueOutboundMessage of one request, or a
\* failure of either.
EnqueueReport(c, a) ==
    /\ pc[c] = "enqueue" /\ a \in todo[c]
    /\ todo' = [todo EXCEPT ![c] = @ \ {a}]
    /\ \/ reports' = reports \cup {[id |-> current[c], rcpt |-> a]}
       \/ UNCHANGED reports
    /\ UNCHANGED <<tables, store, purged, lastId, acked, pc, session, command,
                   current, began>>

ReportsQueued(c) == pc[c] = "enqueue" /\ todo[c] = {} /\ Continue(c, "answer")

Accept(c) ==
    /\ pc[c] = "answer"
    /\ Goto(c, "ready")
    /\ command' = [command EXCEPT ![c] = Idle]
    /\ acked' = acked \cup {current[c]}
    /\ current' = [current EXCEPT ![c] = 0]
    /\ session' = [session EXCEPT ![c] = NoSession]
    /\ UNCHANGED <<tables, store, purged, lastId, reports, todo, began>>

Rset(c) ==
    /\ pc[c] = "ready"
    /\ session' = [session EXCEPT ![c] = NoSession]
    /\ UNCHANGED <<tables, mail, control, pc, command>>

\* QUIT, a failed read or a failed answer: the goroutine returns.
Disconnect(c) ==
    /\ pc[c] \in {"ready", "body", "answer"}
    /\ Goto(c, "closed")
    /\ command' = [command EXCEPT ![c] = Idle]
    /\ session' = [session EXCEPT ![c] = NoSession]
    /\ current' = [current EXCEPT ![c] = 0]
    /\ began' = [began EXCEPT ![c] = 0]
    /\ UNCHANGED <<tables, mail, todo>>
----------------------------------------------------------------------------
\* The writes of the settings tables, as the store commits them.
Save(o, row) ==
    /\ Now <= MaxChanges
    /\ past' = Append(past, [settings EXCEPT ![o] = row])
    /\ UNCHANGED <<bootstrap, lastId, reports, acked, control, pc, session, command>>

\* Ids are never given out twice.
CreateUser(u, s) ==
    /\ \A n \in 1..Now : past[n][u] = NoRow
    /\ Save(u, s)
    /\ UNCHANGED <<store, purged>>

UpdateUser(u, s) ==
    /\ settings[u] # NoRow
    /\ Save(u, s)
    /\ UNCHANGED <<store, purged>>

DeleteUser(u) ==
    /\ settings[u] # NoRow
    /\ Save(u, NoRow)
    /\ store' = {m \in store : m.owner # u}
    /\ purged' = purged \cup {m \in store : m.owner = u}

SaveAdminMailboxSettings(s) ==
    /\ Save(Admin, s)
    /\ UNCHANGED <<store, purged>>

\* The process dies and is started again, perhaps with another bootstrap
\* policy.
Restart ==
    /\ bootstrap' \in Bootstraps
    /\ pc' = [c \in Conn |-> "closed"]
    /\ session' = [c \in Conn |-> NoSession]
    /\ todo' = [c \in Conn |-> {}]
    /\ command' = [c \in Conn |-> Idle]
    /\ current' = [c \in Conn |-> 0]
    /\ began' = [c \in Conn |-> 0]
    /\ UNCHANGED <<past, mail>>

handleConnection(c) ==
    \/ Connect(c) \/ OnConnect(c)
    \/ \E from \in Sender : MailFrom(c, from)
    \/ \E a \in Recipient : RcptTo(c, a)
    \/ \E o \in Owner : RcptRouted(c, o)
    \/ RcptRefused(c) \/ RcptUnrouted(c) \/ ManagedUsers(c) \/ RcptByBootstrap(c)
    \/ Data(c) \/ OnData(c) \/ LookupFails(c) \/ ReadBody(c)
    \/ RefuseBody(c) \/ CreateMessage(c) \/ StoreFails(c)
    \/ NoReports(c) \/ StartReports(c) \/ ReportsFor(c)
    \/ \E a \in Recipient : EnqueueReport(c, a)
    \/ ReportsQueued(c) \/ Accept(c) \/ Rset(c) \/ Disconnect(c)

Administration ==
    \/ \E u \in User, s \in Settings : CreateUser(u, s) \/ UpdateUser(u, s)
    \/ \E u \in User : DeleteUser(u)
    \/ \E s \in Settings : SaveAdminMailboxSettings(s)

Next == (\E c \in Conn : handleConnection(c)) \/ Administration \/ Restart

Spec == Init /\ [][Next]_vars
----------------------------------------------------------------------------
SessionMetadata == [mailFrom : Sender \cup {NoSender}, rcptTo : SUBSET Recipient,
                    owner : Owner, ownerSet : BOOLEAN]
Command == [asked : Nat, seen : Nat, rcpt : Recipient \cup {NoSender}]
Message == [id : Nat, client : Conn, owner : Owner,
            from : Sender \cup {NoSender}, rcptTo : SUBSET Recipient]

TypeOK ==
    /\ past \in Seq([Owner -> Row]) /\ past # <<>>
    /\ bootstrap \in Bootstraps
    /\ pc \in [Conn -> Steps]
    /\ session \in [Conn -> SessionMetadata]
    /\ command \in [Conn -> Command]
    /\ began \in [Conn -> Nat]
    /\ todo \in [Conn -> SUBSET Recipient]
    /\ current \in [Conn -> Nat] /\ lastId \in Nat
    /\ store \subseteq Message /\ purged \subseteq Message
    /\ reports \subseteq [id : Nat, rcpt : Recipient]
    /\ acked \subseteq Nat

\* After change n, mailbox o took mail from this client and sender to a.
TookMail(c, from, o, a, n) ==
    /\ HasMailbox(past[n], o)
    /\ matchesUserPolicy(past[n][o], RemoteOf[c], from, a)
    /\ rcptMayPass(past[n][o], a)

\* After change n, there was no user and the bootstrap policy took it.
BootstrapTook(c, from, a, n) ==
    NoUsers(past[n]) /\ matchesUserPolicy(bootstrap, RemoteOf[c], from, a)

(* server.go:136-138, 190 and policy.go:314-350.  Every recipient of a      *)
(* message stored for a user was, since the MAIL command of that message,   *)
(* an address that user's mailbox took from that client and that sender;    *)
(* for the admin (id 0), one that some mailbox or the bootstrap policy took.*)
(* Left-over recipients, a stale sender or a stale owner would break it.    *)
NoStrayMail ==
    [][\A m \in store' \ store : \A a \in m.rcptTo : \E n \in began[m.client]..Now :
          IF m.owner \in User
            THEN TookMail(m.client, m.from, m.owner, a, n)
            ELSE \/ \E o \in Owner : TookMail(m.client, m.from, o, a, n)
                 \/ BootstrapTook(m.client, m.from, a, n)]_vars

(* policy.go:356-368.  A message is stored for a user only if, at some      *)
(* moment since its DATA command, the user's mailbox was routed and its     *)
(* data-stage rules refused none of the recipients.                         *)
DataRulesApplied ==
    [][\A m \in store' \ store : m.owner \in User =>
          \E n \in command[m.client].asked..Now :
             /\ HasMailbox(past[n], m.owner)
             /\ ~MatchData(past[n][m.owner], m.rcptTo)]_vars

(* README.md:388 on policy.go:324-338.  An address becomes a recipient      *)
(* because a mailbox took it since the command arrived, or by the bootstrap *)
(* policy after a moment with no user, followed by one with no active admin *)
(* mailbox: mail never falls through a managed mailbox that stays.          *)
NoFallThrough ==
    [][\A c \in Conn : \A a \in session'[c].rcptTo \ session[c].rcptTo :
          \E n \in command[c].asked..Now :
             \/ TookMail(c, session[c].mailFrom, session'[c].owner, a, n)
             \/ /\ BootstrapTook(c, session[c].mailFrom, a, n)
                /\ \E k \in n..Now : AdminIdle(past[k])]_vars

(* server.go:190-197.  What was answered with 250 is in the store, or left  *)
(* it with its user: no acknowledgement precedes or survives a failed save. *)
AckedIsStored ==
    \A i \in acked : \E m \in store \cup purged : m.id = i

(* server.go:195, policy.go:213-230.  A report is queued for a recipient of *)
(* a message that has been stored, and the owner's rules asked for it at    *)
(* some moment since the DATA command.                                      *)
ReportsAreDue ==
    [][\A r \in reports' \ reports : \E m \in store \cup purged :
          /\ m.id = r.id /\ r.rcpt \in m.rcptTo
          /\ \E n \in command[m.client].asked..Now :
                HasMailbox(past[n], m.owner) /\ r.rcpt \in past[n][m.owner].report]_vars

(* docs/multi-user-target.md:5: "SMTP envelopes may contain multiple        *)
(* recipients only when every accepted recipient resolves to the same       *)
(* owner."  An accepted recipient never moves the envelope from one owner   *)
(* to another.                                                              *)
SingleOwner ==
    [][\A c \in Conn :
          /\ session[c].rcptTo # {} /\ session[c].rcptTo \subseteq session'[c].rcptTo
          => session'[c].owner = session[c].owner]_vars
=============================================================================
