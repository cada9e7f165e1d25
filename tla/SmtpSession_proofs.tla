------------------------- MODULE SmtpSession_proofs -------------------------
(***************************************************************************)
(* Proofs about SmtpSession, for any sets of connections, users, addresses *)
(* and policies, and any bounds.                                           *)
(***************************************************************************)
EXTENDS SmtpSession, MailboxPolicy_proofs, TLAPS

(* The moments a command refers to are in the past, in the order in which  *)
(* they came.                                                              *)
MomentsOK(c) ==
    /\ began[c] <= Now
    /\ pc[c] \notin {"closed", "ready"} =>
          /\ 1 <= command[c].asked /\ command[c].asked <= command[c].seen
          /\ command[c].seen <= Now /\ began[c] <= command[c].asked
    /\ pc[c] \in {"rcpt", "managed", "fallback"} => command[c].rcpt \in Recipient

(* How an address may have come into an envelope of owner o.               *)
Admitted(c, from, o, a, n) ==
    IF o \in User
      THEN TookMail(c, from, o, a, n)
      ELSE (\E p \in Owner : TookMail(c, from, p, a, n)) \/ BootstrapTook(c, from, a, n)

EnvelopeOK(c) ==
    /\ \A a \in session[c].rcptTo : \E n \in 1..Now :
          /\ began[c] <= n
          /\ Admitted(c, session[c].mailFrom, session[c].owner, a, n)
    /\ session[c].rcptTo # {} => session[c].ownerSet

SinceAsked(c, n) == n \in 1..Now /\ command[c].asked <= n

FallbackOK(c) ==
    pc[c] = "fallback" => \E n \in 1..Now : SinceAsked(c, n) /\ NoUsers(past[n])

DataOK(c) ==
    pc[c] \in {"body", "persist"} /\ session[c].owner \in User =>
        \E n \in 1..Now : /\ SinceAsked(c, n)
                          /\ HasMailbox(past[n], session[c].owner)
                          /\ ~MatchData(past[n][session[c].owner], session[c].rcptTo)

InMail(m) == m \in store \/ m \in purged

(* The message being answered, as it was stored.                           *)
StoredOK(c) ==
    pc[c] \in {"stored", "report", "enqueue", "answer"} =>
        InMail([id |-> current[c], client |-> c, owner |-> session[c].owner,
                from |-> session[c].mailFrom, rcptTo |-> session[c].rcptTo])

ReportDue(c, a, n) == /\ HasMailbox(past[n], session[c].owner)
                      /\ a \in past[n][session[c].owner].report

TodoOK(c) ==
    pc[c] = "enqueue" => \A a \in todo[c] :
        /\ a \in session[c].rcptTo
        /\ \E n \in 1..Now : SinceAsked(c, n) /\ ReportDue(c, a, n)

ConnOK(c) == /\ MomentsOK(c) /\ EnvelopeOK(c) /\ FallbackOK(c)
             /\ DataOK(c) /\ StoredOK(c) /\ TodoOK(c)

IInv == TypeOK /\ AckedIsStored /\ \A c \in Conn : ConnOK(c)

-----------------------------------------------------------------------------
(* The present is a moment of the past, and its table has a row for every  *)
(* owner.                                                                  *)
LEMMA TableFacts ==
    ASSUME TypeOK
    PROVE  /\ Now \in Nat /\ 1 <= Now /\ Now \in 1..Now
           /\ \A n \in 1..Now : past[n] \in [Owner -> Row]
  BY DEF TypeOK, Now

(* A table is appended to the past, which stays.                           *)
LEMMA AppendFacts ==
    ASSUME NEW S, NEW s \in Seq(S), NEW e \in S
    PROVE  /\ Append(s, e) \in Seq(S) /\ Append(s, e) # <<>>
           /\ Len(Append(s, e)) = Len(s) + 1
           /\ \A n \in 1..Len(s) : Append(s, e)[n] = s[n]
           /\ Append(s, e)[Len(s) + 1] = e
  <1>1. /\ Append(s, e) \in Seq(S) /\ Len(Append(s, e)) = Len(s) + 1 /\ Len(s) \in Nat
        /\ \A n \in 1..Len(s) : Append(s, e)[n] = s[n]
        /\ Append(s, e)[Len(s) + 1] = e
    OBVIOUS
  <1>2. Len(<<>>) = 0
    OBVIOUS
  <1>3. Append(s, e) # <<>>
    BY <1>1, <1>2
  <1>4. QED
    BY <1>1, <1>3

LEMMA IdleType == NoSession \in SessionMetadata /\ Idle \in Command
  BY DEF NoSession, Idle, Owner, SessionMetadata, Command

\* The steps that only leave or end a command are typed alike.
LEMMA ContinueType ==
    ASSUME TypeOK, NEW c \in Conn, NEW step \in Steps, Continue(c, step)
    PROVE  TypeOK'
  BY DEF Continue, Goto, TypeOK, tables, mail, control

LEMMA FinishType ==
    ASSUME TypeOK, NEW c \in Conn, NEW step \in Steps, Finish(c, step),
           session' \in [Conn -> SessionMetadata]
    PROVE  TypeOK'
  <1>1. command' \in [Conn -> Command]
    BY IdleType DEF Finish, TypeOK
  <1>2. QED
    BY <1>1 DEF Finish, Goto, TypeOK, tables, mail, control

LEMMA RefuseType ==
    ASSUME TypeOK, NEW c \in Conn, Refuse(c)
    PROVE  TypeOK'
  BY FinishType DEF Refuse, TypeOK, Steps

LEMMA BeginType ==
    ASSUME TypeOK, NEW c \in Conn, NEW from, NEW step \in Steps,
           NEW a \in Recipient \cup {NoSender}, Begin(c, from, step, a)
    PROVE  TypeOK'
  <1>1. command' \in [Conn -> Command]
    BY TableFacts DEF Begin, TypeOK, Command
  <1>2. QED
    BY <1>1 DEF Begin, Goto, TypeOK, tables, mail, control

LEMMA AcceptRcptType ==
    ASSUME TypeOK, NEW c \in Conn, NEW o \in Owner, AcceptRcpt(c, o),
           command[c].rcpt \in Recipient
    PROVE  TypeOK'
  <1>1. session' \in [Conn -> SessionMetadata]
    BY DEF AcceptRcpt, TypeOK, SessionMetadata
  <1>2. QED
    BY <1>1, FinishType DEF AcceptRcpt, Steps

LEMMA SaveType ==
    ASSUME TypeOK, NEW o \in Owner, NEW row \in Row, Save(o, row),
           store' \subseteq Message, purged' \subseteq Message
    PROVE  TypeOK'
  <1>1. settings \in [Owner -> Row]
    BY TableFacts DEF settings
  <1>2. [settings EXCEPT ![o] = row] \in [Owner -> Row]
    BY <1>1
  <1>3. past' \in Seq([Owner -> Row]) /\ past' # <<>>
    <2> DEFINE S == [Owner -> Row]
               e == [settings EXCEPT ![o] = row]
    <2>1. past \in Seq(S) /\ e \in S /\ past' = Append(past, e)
      BY <1>2 DEF Save, TypeOK
    <2> HIDE DEF S, e
    <2>2. Append(past, e) \in Seq(S) /\ Append(past, e) # <<>>
      BY <2>1, AppendFacts
    <2>3. QED
      BY <2>1, <2>2 DEF S
  <1>4. QED
    BY <1>3 DEF Save, TypeOK, control

LEMMA OwnersFacts ==
    ASSUME NEW c \in Conn
    PROVE  /\ policyUsers(c) \subseteq Owner /\ candidates(c) \subseteq policyUsers(c)
           /\ Admin \in Owner /\ User \subseteq Owner
  BY DEF policyUsers, candidates, Owner

(* The steps of a connection keep the types.                               *)
LEMMA ConnType ==
    ASSUME TypeOK, NEW c \in Conn, MomentsOK(c), handleConnection(c)
    PROVE  TypeOK'
  <1> USE DEF Steps
  <1>1. CASE Connect(c)
    BY <1>1, BeginType DEF Connect
  <1>2. CASE OnConnect(c)
    BY <1>2, FinishType DEF OnConnect, TypeOK
  <1>3. ASSUME NEW from \in Sender, MailFrom(c, from)
        PROVE  TypeOK'
    <2>1. session' \in [Conn -> SessionMetadata]
      BY <1>3, IdleType DEF MailFrom, TypeOK, SessionMetadata
    <2>2. QED
      BY <1>3, <2>1, TableFacts DEF MailFrom, TypeOK, tables, mail
  <1>4. ASSUME NEW a \in Recipient, RcptTo(c, a)
        PROVE  TypeOK'
    BY <1>4, BeginType DEF RcptTo
  <1>5. ASSUME NEW o \in Owner, RcptRouted(c, o)
        PROVE  TypeOK'
    BY <1>5, AcceptRcptType DEF RcptRouted, MomentsOK
  <1>6. CASE RcptRefused(c)
    BY <1>6, RefuseType DEF RcptRefused
  <1>7. CASE RcptUnrouted(c)
    BY <1>7, ContinueType DEF RcptUnrouted
  <1>8. CASE ManagedUsers(c)
    BY <1>8, ContinueType, RefuseType DEF ManagedUsers
  <1>9. CASE RcptByBootstrap(c)
    BY <1>9, AcceptRcptType, RefuseType, OwnersFacts DEF RcptByBootstrap, MomentsOK
  <1>10. CASE Data(c)
    BY <1>10, BeginType DEF Data
  <1>11. CASE OnData(c)
    BY <1>11, ContinueType, RefuseType DEF OnData
  <1>12. CASE LookupFails(c)
    BY <1>12, FinishType, RefuseType DEF LookupFails, TypeOK
  <1>13. CASE ReadBody(c) \/ RefuseBody(c)
    BY <1>13, ContinueType, RefuseType DEF ReadBody, RefuseBody
  <1>14. CASE CreateMessage(c)
    <2>1. store' \subseteq Message
      BY <1>14 DEF CreateMessage, TypeOK, Message, SessionMetadata
    <2>2. lastId' \in Nat /\ current' \in [Conn -> Nat]
      BY <1>14 DEF CreateMessage, TypeOK
    <2>3. QED
      BY <1>14, <2>1, <2>2 DEF CreateMessage, Goto, TypeOK, tables
  <1>15. CASE StoreFails(c)
    BY <1>15, RefuseType DEF StoreFails
  <1>16. CASE NoReports(c) \/ ReportsQueued(c)
    BY <1>16, ContinueType DEF NoReports, ReportsQueued
  <1>17. CASE StartReports(c)
    <2>1. command' \in [Conn -> Command]
      BY <1>17, TableFacts DEF StartReports, TypeOK, Command
    <2>2. QED
      BY <1>17, <2>1 DEF StartReports, Goto, TypeOK, tables, mail, control
  <1>18. CASE ReportsFor(c)
    <2>1. reportsFor(mailboxState(c), session[c].mailFrom, session[c].rcptTo) \subseteq Recipient
      BY ReportsForFacts DEF TypeOK, SessionMetadata
    <2>2. todo' \in [Conn -> SUBSET Recipient]
      BY <1>18, <2>1 DEF ReportsFor, TypeOK
    <2>3. QED
      BY <1>18, <2>2 DEF ReportsFor, Goto, TypeOK, tables, mail
  <1>19. ASSUME NEW a \in Recipient, EnqueueReport(c, a)
         PROVE  TypeOK'
    <2>1. todo' \in [Conn -> SUBSET Recipient]
      BY <1>19 DEF EnqueueReport, TypeOK
    <2>2. reports' \subseteq [id : Nat, rcpt : Recipient]
      BY <1>19 DEF EnqueueReport, TypeOK
    <2>3. QED
      BY <1>19, <2>1, <2>2 DEF EnqueueReport, TypeOK, tables
  <1>20. CASE Accept(c)
    BY <1>20, IdleType DEF Accept, Goto, TypeOK, tables
  <1>21. CASE Rset(c)
    BY <1>21, IdleType DEF Rset, TypeOK, tables, mail, control
  <1>22. CASE Disconnect(c)
    BY <1>22, IdleType DEF Disconnect, Goto, TypeOK, tables, mail
  <1>23. QED
    BY <1>1, <1>2, <1>3, <1>4, <1>5, <1>6, <1>7, <1>8, <1>9, <1>10, <1>11, <1>12, <1>13,
       <1>14, <1>15, <1>16, <1>17, <1>18, <1>19, <1>20, <1>21, <1>22 DEF handleConnection

(* The writes of the settings tables keep the types.                       *)
LEMMA AdminType ==
    ASSUME TypeOK, Administration
    PROVE  TypeOK'
  <1>1. ASSUME NEW u \in User, NEW s \in Settings, CreateUser(u, s) \/ UpdateUser(u, s)
        PROVE  TypeOK'
    BY <1>1, SaveType, SessionAssumption DEF CreateUser, UpdateUser, Row, Owner, TypeOK
  <1>2. ASSUME NEW u \in User, DeleteUser(u)
        PROVE  TypeOK'
    <2>1. store' \subseteq Message /\ purged' \subseteq Message
      BY <1>2 DEF DeleteUser, TypeOK
    <2>2. QED
      BY <1>2, <2>1, SaveType DEF DeleteUser, Row, Owner
  <1>3. ASSUME NEW s \in Settings, SaveAdminMailboxSettings(s)
        PROVE  TypeOK'
    BY <1>3, SaveType, SessionAssumption
       DEF SaveAdminMailboxSettings, Row, Owner, TypeOK
  <1>4. QED
    BY <1>1, <1>2, <1>3 DEF Administration

LEMMA RestartType == TypeOK /\ Restart => TypeOK'
  BY IdleType DEF Restart, TypeOK, mail, Steps

LEMMA InitType == Init => TypeOK
  <1> SUFFICES ASSUME Init PROVE TypeOK
    OBVIOUS
  <1>1. past \in Seq([Owner -> Row]) /\ past # <<>>
    <2>1. PICK rows \in Initial : past = <<rows>>
      BY DEF Init
    <2>2. rows \in [Owner -> Row]
      BY SessionAssumption DEF Owner, Row
    <2>3. QED
      BY <2>1, <2>2
  <1>2. QED
    BY <1>1, IdleType DEF Init, TypeOK, Steps

-----------------------------------------------------------------------------
PastKept == Now <= Now' /\ \A n \in 1..Now : past'[n] = past[n]

SameConn(c) ==
    /\ pc'[c] = pc[c] /\ session'[c] = session[c] /\ command'[c] = command[c]
    /\ todo'[c] = todo[c] /\ current'[c] = current[c] /\ began'[c] = began[c]

(* What held at a moment still held at that moment later on.               *)
LEMMA HistoryKept ==
    ASSUME TypeOK, TypeOK', PastKept, bootstrap' = bootstrap, NEW n \in 1..Now
    PROVE  /\ n \in 1..Now'
           /\ NoUsers(past[n]) => NoUsers(past[n])'
           /\ \A c, from, o, a : Admitted(c, from, o, a, n) => Admitted(c, from, o, a, n)'
           /\ \A o : HasMailbox(past[n], o) => HasMailbox(past[n], o)'
  <1>1. n \in 1..Now' /\ past'[n] = past[n]
    BY TableFacts, TypeOK' DEF PastKept, TypeOK, Now
  <1>2. \A c, from, o, a : TookMail(c, from, o, a, n) => TookMail(c, from, o, a, n)'
    BY <1>1 DEF TookMail, HasMailbox
  <1>3. \A c, from, a : BootstrapTook(c, from, a, n) => BootstrapTook(c, from, a, n)'
    BY <1>1 DEF BootstrapTook, NoUsers
  <1>4. \A c, from, o, a : Admitted(c, from, o, a, n) => Admitted(c, from, o, a, n)'
    BY <1>2, <1>3 DEF Admitted
  <1>5. QED
    BY <1>1, <1>4 DEF NoUsers, HasMailbox

(* An envelope that a step leaves alone stays as well founded as it was.   *)
LEMMA EnvelopeKept ==
    ASSUME TypeOK, TypeOK', PastKept, bootstrap' = bootstrap, NEW c \in Conn,
           session'[c] = session[c], began'[c] = began[c], EnvelopeOK(c)
    PROVE  EnvelopeOK(c)'
  <1>1. ASSUME NEW a \in session[c].rcptTo
        PROVE  \E n \in 1..Now' : /\ began'[c] <= n
                                  /\ Admitted(c, session[c].mailFrom, session[c].owner, a, n)'
    <2>1. PICK n \in 1..Now : began[c] <= n
                              /\ Admitted(c, session[c].mailFrom, session[c].owner, a, n)
      BY DEF EnvelopeOK
    <2> DEFINE f == session[c].mailFrom
               o == session[c].owner
    <2>2. Admitted(c, f, o, a, n)
      BY <2>1
    <2>3. f' = f /\ o' = o
      OBVIOUS
    <2>4. n \in 1..Now' /\ Admitted(c, f, o, a, n)'
      <3>1. n \in 1..Now' /\ past'[n] = past[n]
        BY HistoryKept DEF PastKept
      <3>2. QED
        BY <2>2, <3>1 DEF Admitted, TookMail, BootstrapTook, HasMailbox, NoUsers
    <2>5. QED
      BY <2>1, <2>4
  <1>2. QED
    BY <1>1 DEF EnvelopeOK

(* A connection is not disturbed by the steps of others: the past only     *)
(* grows, and stored messages stay on record.                              *)
LEMMA Frame ==
    ASSUME TypeOK, TypeOK', PastKept, bootstrap' = bootstrap, NEW c \in Conn,
           SameConn(c), \A m : InMail(m) => InMail(m)', ConnOK(c)
    PROVE  ConnOK(c)'
  <1> USE DEF SameConn
  <1>1. Now \in Nat /\ Now' \in Nat /\ Now <= Now' /\ \A n \in 1..Now : n \in 1..Now' /\ past'[n] = past[n]
    BY TableFacts, TypeOK', HistoryKept DEF PastKept, TypeOK, Now
  <1>2. MomentsOK(c)'
    BY <1>1 DEF ConnOK, MomentsOK, TypeOK, Command
  <1>3. EnvelopeOK(c)'
    BY EnvelopeKept DEF ConnOK
  <1>4. FallbackOK(c)'
    BY <1>1 DEF ConnOK, FallbackOK, SinceAsked, NoUsers
  <1>5. DataOK(c)'
    BY <1>1 DEF ConnOK, DataOK, SinceAsked, HasMailbox
  <1>6. StoredOK(c)'
    BY DEF ConnOK, StoredOK
  <1>7. TodoOK(c)'
    BY <1>1 DEF ConnOK, TodoOK, SinceAsked, ReportDue, HasMailbox
  <1>8. QED
    BY <1>2, <1>3, <1>4, <1>5, <1>6, <1>7 DEF ConnOK

\* Between commands only the envelope matters.
LEMMA AtRest ==
    ASSUME NEW c \in Conn, pc'[c] \in {"ready", "closed"}, began'[c] <= Now', EnvelopeOK(c)'
    PROVE  ConnOK(c)'
  BY DEF ConnOK, MomentsOK, FallbackOK, DataOK, StoredOK, TodoOK

LEMMA EmptyEnvelope ==
    ASSUME NEW c \in Conn, session'[c] = NoSession
    PROVE  EnvelopeOK(c)'
  BY DEF EnvelopeOK, NoSession

\* The tables as a step of a connection sees them.
LEMMA SameTables ==
    ASSUME UNCHANGED tables, TypeOK
    PROVE  PastKept /\ bootstrap' = bootstrap /\ Now' = Now /\ past' = past
  BY TableFacts DEF tables, PastKept, Now

LEMMA FinishOK ==
    ASSUME TypeOK, TypeOK', NEW c \in Conn, NEW step \in {"ready", "closed"},
           Finish(c, step), session'[c] = session[c], ConnOK(c)
    PROVE  ConnOK(c)'
  <1>1. PastKept /\ bootstrap' = bootstrap /\ Now' = Now
    BY SameTables DEF Finish
  <1>2. pc'[c] = step /\ began'[c] = began[c]
    BY DEF Finish, Goto, TypeOK, control
  <1>3. EnvelopeOK(c)'
    BY <1>1, <1>2, EnvelopeKept DEF ConnOK
  <1>4. QED
    BY <1>1, <1>2, <1>3, AtRest DEF ConnOK, MomentsOK

LEMMA RefuseOK ==
    ASSUME TypeOK, TypeOK', NEW c \in Conn, Refuse(c), ConnOK(c)
    PROVE  ConnOK(c)'
  BY FinishOK DEF Refuse

\* A recipient joins the envelope of owner o: the envelope had no owner yet,
\* or this one, or the bootstrap policy takes it over.
LEMMA AcceptRcptOK ==
    ASSUME TypeOK, TypeOK', NEW c \in Conn, NEW o \in Owner, AcceptRcpt(c, o), ConnOK(c),
           OtherOwner(c, o) => o = Admin,
           \E n \in 1..Now : began[c] <= n
                             /\ Admitted(c, session[c].mailFrom, o, command[c].rcpt, n)
    PROVE  ConnOK(c)'
  <1>1. PastKept /\ bootstrap' = bootstrap /\ Now' = Now /\ past' = past
    BY SameTables DEF AcceptRcpt, Finish
  <1>2. pc'[c] = "ready" /\ began'[c] = began[c]
    BY DEF AcceptRcpt, Finish, Goto, TypeOK, control
  <1>3. /\ session'[c].mailFrom = session[c].mailFrom
        /\ session'[c].rcptTo = session[c].rcptTo \cup {command[c].rcpt}
        /\ session'[c].owner = o /\ session'[c].ownerSet = TRUE
    BY DEF AcceptRcpt, TypeOK, SessionMetadata
  <1>4. ASSUME NEW a \in session'[c].rcptTo
        PROVE  \E n \in 1..Now : began[c] <= n /\ Admitted(c, session[c].mailFrom, o, a, n)
    <2>1. CASE a = command[c].rcpt
      BY <2>1
    <2>2. CASE a \in session[c].rcptTo
      <3>1. PICK n \in 1..Now : began[c] <= n
                /\ Admitted(c, session[c].mailFrom, session[c].owner, a, n)
        BY <2>2 DEF ConnOK, EnvelopeOK
      <3>2. session[c].owner = o \/ o = Admin
        BY <2>2 DEF ConnOK, EnvelopeOK, OtherOwner
      <3>3. CASE o = Admin
        <4>1. session[c].owner \in Owner /\ Admin \notin User
          BY SessionAssumption DEF TypeOK, SessionMetadata
        <4>2. Admitted(c, session[c].mailFrom, Admin, a, n)
          BY <3>1, <4>1 DEF Admitted, Owner
        <4>3. QED
          BY <3>1, <3>3, <4>2
      <3>4. QED
        BY <3>1, <3>2, <3>3
    <2>3. QED
      BY <1>3, <2>1, <2>2
  <1>5. ASSUME NEW a \in session'[c].rcptTo
        PROVE  \E n \in 1..Now' : /\ began'[c] <= n
                 /\ Admitted(c, session[c].mailFrom, session[c].owner, a, n)'
    <2>1. PICK n \in 1..Now : began[c] <= n /\ Admitted(c, session[c].mailFrom, o, a, n)
      BY <1>4
    <2>2. Admitted(c, session[c].mailFrom, session[c].owner, a, n)'
      BY <1>1, <1>3, <2>1 DEF Admitted, TookMail, BootstrapTook, HasMailbox, NoUsers
    <2>3. QED
      BY <1>1, <1>2, <2>1, <2>2
  <1>6. EnvelopeOK(c)'
    BY <1>3, <1>5 DEF EnvelopeOK
  <1>7. QED
    BY <1>1, <1>2, <1>6, AtRest DEF ConnOK, MomentsOK

-----------------------------------------------------------------------------
(* The steps of a connection keep its own invariant.                       *)
LEMMA ConnStep ==
    ASSUME TypeOK, TypeOK', NEW c \in Conn, ConnOK(c), handleConnection(c)
    PROVE  ConnOK(c)'
  <1>1. Now \in Nat /\ 1 <= Now /\ Now \in 1..Now
    BY TableFacts
  <1>2. session[c].owner \in Owner /\ (\A o \in Owner : o \in User \/ o = Admin) /\ Admin \notin User
    BY SessionAssumption DEF TypeOK, SessionMetadata, Owner
  <1>3. ASSUME NEW o \in User, command[c].seen \in 1..Now, HasMailbox(RowsRead(c), o)
        PROVE  RowsRead(c)[o] = past[command[c].seen][o]
               /\ HasMailbox(past[command[c].seen], o)
    BY <1>2, <1>3 DEF RowsRead, HasMailbox, Owner
  <1>4. HasMailbox(RowsRead(c), Admin) => /\ RowsRead(c)[Admin] = past[Now][Admin]
                                          /\ HasMailbox(past[Now], Admin)
    BY DEF RowsRead, HasMailbox, Owner, settings
  <1>5. pc[c] \notin {"closed", "ready"} =>
            /\ command[c].asked \in Nat /\ command[c].seen \in 1..Now
            /\ SinceAsked(c, command[c].seen) /\ SinceAsked(c, Now)
    BY <1>1 DEF ConnOK, MomentsOK, SinceAsked, TypeOK, Command
  <1>6. CASE Connect(c) \/ (\E a \in Recipient : RcptTo(c, a)) \/ Data(c)
    <2>1. PICK from \in {"closed", "ready"}, step \in {"connect", "rcpt", "data"},
               a \in Recipient \cup {NoSender} :
               Begin(c, from, step, a) /\ (step = "rcpt" => a \in Recipient)
      BY <1>6 DEF Connect, RcptTo, Data
    <2>2. PastKept /\ bootstrap' = bootstrap /\ Now' = Now
      BY <2>1, SameTables DEF Begin
    <2>3. /\ pc'[c] = step /\ began'[c] = began[c] /\ session'[c] = session[c]
          /\ command'[c] = [asked |-> Now, seen |-> Now, rcpt |-> a]
      BY <2>1 DEF Begin, Goto, TypeOK, control
    <2>4. EnvelopeOK(c)'
      BY <2>2, <2>3, EnvelopeKept DEF ConnOK
    <2>5. MomentsOK(c)'
      BY <1>1, <2>1, <2>2, <2>3 DEF ConnOK, MomentsOK
    <2>6. QED
      BY <2>3, <2>4, <2>5 DEF ConnOK, FallbackOK, DataOK, StoredOK, TodoOK
  <1>7. CASE OnConnect(c)
    BY <1>7, FinishOK DEF OnConnect
  <1>8. ASSUME NEW from \in Sender, MailFrom(c, from)
        PROVE  ConnOK(c)'
    <2>1. session'[c] = [NoSession EXCEPT !.mailFrom = from] /\ began'[c] = Now /\ pc'[c] = "ready"
      BY <1>8 DEF MailFrom, TypeOK
    <2>2. session'[c].rcptTo = {}
      BY <2>1 DEF NoSession
    <2>3. Now' = Now
      BY <1>8, SameTables DEF MailFrom
    <2>4. EnvelopeOK(c)'
      BY <2>2 DEF EnvelopeOK
    <2>5. QED
      BY <1>1, <2>1, <2>3, <2>4, AtRest
  <1>9. ASSUME NEW o \in Owner, RcptRouted(c, o)
        PROVE  ConnOK(c)'
    <2>1. o \in policyUsers(c) /\ Matches(c, RowsRead(c)[o], command[c].rcpt)
      BY <1>9 DEF RcptRouted, candidates
    <2>2. HasMailbox(RowsRead(c), o)
      BY <2>1 DEF policyUsers
    <2>3. \E n \in 1..Now : SinceAsked(c, n) /\ HasMailbox(past[n], o) /\ RowsRead(c)[o] = past[n][o]
      BY <1>1, <1>2, <1>3, <1>4, <1>5, <1>9, <2>2 DEF RcptRouted
    <2>4. PICK n \in 1..Now : SinceAsked(c, n) /\ TookMail(c, session[c].mailFrom, o, command[c].rcpt, n)
      BY <1>9, <2>1, <2>3 DEF RcptRouted, TookMail, Matches
    <2>5. began[c] <= n
      BY <1>9, <2>4 DEF RcptRouted, ConnOK, MomentsOK, SinceAsked, TypeOK, Command
    <2>6. Admitted(c, session[c].mailFrom, o, command[c].rcpt, n)
      BY <2>4 DEF Admitted
    <2>7. QED
      BY <1>9, <2>5, <2>6, AcceptRcptOK DEF RcptRouted
  <1>10. CASE RcptRefused(c) \/ StoreFails(c) \/ RefuseBody(c)
    BY <1>10, RefuseOK DEF RcptRefused, StoreFails, RefuseBody
  <1>11. CASE LookupFails(c)
    BY <1>11, RefuseOK, FinishOK DEF LookupFails
  <1>12. CASE RcptByBootstrap(c)
    <2>1. CASE Refuse(c)
      BY <2>1, RefuseOK
    <2>2. CASE AcceptRcpt(c, Admin) /\ Matches(c, bootstrap, command[c].rcpt)
      <3>1. PICK n \in 1..Now : SinceAsked(c, n) /\ NoUsers(past[n])
        BY <1>12 DEF RcptByBootstrap, ConnOK, FallbackOK
      <3>2. began[c] <= n
        BY <1>12, <3>1 DEF RcptByBootstrap, ConnOK, MomentsOK, SinceAsked, TypeOK, Command
      <3>3. Admitted(c, session[c].mailFrom, Admin, command[c].rcpt, n)
        BY <1>2, <2>2, <3>1 DEF Admitted, BootstrapTook, Matches
      <3>4. QED
        BY <2>2, <3>2, <3>3, AcceptRcptOK, OwnersFacts
    <2>3. QED
      BY <1>12, <2>1, <2>2 DEF RcptByBootstrap
  <1>13. ASSUME NEW step \in {"managed", "fallback", "body", "persist", "answer"},
                Continue(c, step), pc[c] \notin {"closed", "ready"},
                step = "managed" => pc[c] = "rcpt",
                step = "fallback" => pc[c] = "managed" /\ NoUsers(settings),
                step = "body" => \/ session[c].owner \notin User
                                 \/ /\ HasMailbox(RowsRead(c), session[c].owner)
                                    /\ ~MatchData(RowsRead(c)[session[c].owner], session[c].rcptTo),
                step = "persist" => pc[c] = "body",
                step = "answer" => pc[c] \in {"stored", "report", "enqueue"}
         PROVE  ConnOK(c)'
    <2>1. PastKept /\ bootstrap' = bootstrap /\ Now' = Now /\ past' = past
      BY <1>13, SameTables DEF Continue
    <2>2. /\ pc'[c] = step /\ session'[c] = session[c] /\ command'[c] = command[c]
          /\ current'[c] = current[c] /\ began'[c] = began[c]
          /\ store' = store /\ purged' = purged
      BY <1>13 DEF Continue, Goto, TypeOK, control, mail
    <2>3. EnvelopeOK(c)'
      BY <2>1, <2>2, EnvelopeKept DEF ConnOK
    <2>4. MomentsOK(c)'
      BY <1>13, <2>1, <2>2 DEF ConnOK, MomentsOK
    <2>5. FallbackOK(c)'
      <3>1. step = "fallback" => SinceAsked(c, Now) /\ NoUsers(past[Now])
        BY <1>5, <1>13 DEF settings
      <3>2. QED
        BY <1>1, <2>1, <2>2, <3>1 DEF FallbackOK, SinceAsked, NoUsers
    <2>6. DataOK(c)'
      <3>1. step = "body" /\ session[c].owner \in User => DataOK(c)'
        BY <1>3, <1>5, <1>13, <2>1, <2>2 DEF DataOK, SinceAsked, HasMailbox
      <3>2. step = "persist" => DataOK(c)'
        BY <1>13, <2>1, <2>2 DEF ConnOK, DataOK, SinceAsked, HasMailbox
      <3>3. QED
        BY <2>2, <3>1, <3>2 DEF DataOK
    <2>7. StoredOK(c)'
      BY <1>13, <2>2 DEF ConnOK, StoredOK, InMail
    <2>8. TodoOK(c)'
      BY <2>2 DEF TodoOK
    <2>9. QED
      BY <2>3, <2>4, <2>5, <2>6, <2>7, <2>8 DEF ConnOK
  <1>14. CASE RcptUnrouted(c) \/ ReadBody(c) \/ NoReports(c) \/ ReportsQueued(c)
    BY <1>13, <1>14 DEF RcptUnrouted, ReadBody, NoReports, ReportsQueued
  <1>15. CASE ManagedUsers(c)
    BY <1>13, <1>15, RefuseOK DEF ManagedUsers
  <1>16. CASE OnData(c)
    <2>1. session[c].owner \in User /\ mailboxFound(c)
            => HasMailbox(RowsRead(c), session[c].owner)
               /\ mailboxState(c) = RowsRead(c)[session[c].owner]
      BY <1>2 DEF mailboxFound, mailboxState, policyUsers
    <2>2. QED
      BY <1>13, <1>16, <2>1, RefuseOK DEF OnData
  <1>17. CASE CreateMessage(c)
    <2>1. PastKept /\ bootstrap' = bootstrap /\ Now' = Now /\ past' = past
      BY <1>17, SameTables DEF CreateMessage
    <2>2. /\ pc'[c] = "stored" /\ session'[c] = session[c] /\ command'[c] = command[c]
          /\ current'[c] = lastId' /\ began'[c] = began[c]
      BY <1>17 DEF CreateMessage, Goto, TypeOK
    <2>3. EnvelopeOK(c)'
      BY <2>1, <2>2, EnvelopeKept DEF ConnOK
    <2>4. MomentsOK(c)'
      BY <1>17, <2>1, <2>2 DEF CreateMessage, ConnOK, MomentsOK
    <2>5. StoredOK(c)'
      BY <1>17, <2>2 DEF CreateMessage, StoredOK, InMail
    <2>6. QED
      BY <2>2, <2>3, <2>4, <2>5 DEF ConnOK, FallbackOK, DataOK, TodoOK
  <1>18. CASE StartReports(c)
    <2>1. PastKept /\ bootstrap' = bootstrap /\ Now' = Now /\ past' = past
      BY <1>18, SameTables DEF StartReports
    <2>2. /\ pc'[c] = "report" /\ session'[c] = session[c] /\ current'[c] = current[c]
          /\ command'[c] = [command[c] EXCEPT !.seen = Now] /\ began'[c] = began[c]
          /\ store' = store /\ purged' = purged
      BY <1>18 DEF StartReports, Goto, TypeOK, control, mail
    <2>3. EnvelopeOK(c)'
      BY <2>1, <2>2, EnvelopeKept DEF ConnOK
    <2>4. command'[c].asked = command[c].asked /\ command'[c].seen = Now
      BY <2>2 DEF TypeOK, Command
    <2>5. MomentsOK(c)'
      BY <1>1, <1>5, <1>18, <2>1, <2>2, <2>4 DEF StartReports, ConnOK, MomentsOK, SinceAsked
    <2>6. StoredOK(c)'
      BY <1>18, <2>2 DEF StartReports, ConnOK, StoredOK, InMail
    <2>7. QED
      BY <2>2, <2>3, <2>5, <2>6 DEF ConnOK, FallbackOK, DataOK, TodoOK
  <1>19. CASE ReportsFor(c)
    <2>1. PastKept /\ bootstrap' = bootstrap /\ Now' = Now /\ past' = past
      BY <1>19, SameTables DEF ReportsFor
    <2>2. /\ pc'[c] = "enqueue" /\ session'[c] = session[c] /\ command'[c] = command[c]
          /\ current'[c] = current[c] /\ began'[c] = began[c]
          /\ store' = store /\ purged' = purged
          /\ todo'[c] = reportsFor(mailboxState(c), session[c].mailFrom, session[c].rcptTo)
      BY <1>19 DEF ReportsFor, Goto, TypeOK, mail
    <2>3. EnvelopeOK(c)' /\ MomentsOK(c)' /\ StoredOK(c)'
      BY <1>19, <2>1, <2>2, EnvelopeKept DEF ReportsFor, ConnOK, MomentsOK, StoredOK, InMail
    <2>4. \A a \in todo'[c] : a \in session[c].rcptTo /\ a \in mailboxState(c).report
      BY <2>2, ReportsForFacts
    <2>5. CASE session[c].owner \in policyUsers(c)
      <3>1. mailboxState(c) = RowsRead(c)[session[c].owner] /\ HasMailbox(RowsRead(c), session[c].owner)
        BY <2>5 DEF mailboxState, policyUsers
      <3>2. PICK n \in 1..Now : SinceAsked(c, n) /\ HasMailbox(past[n], session[c].owner)
                                /\ mailboxState(c) = past[n][session[c].owner]
        BY <1>1, <1>2, <1>3, <1>4, <1>5, <1>19, <3>1 DEF ReportsFor
      <3>3. \A a \in todo'[c] : ReportDue(c, a, n)
        BY <2>4, <3>2 DEF ReportDue
      <3>4. TodoOK(c)'
        BY <2>1, <2>2, <2>4, <3>2, <3>3 DEF TodoOK, ReportDue, SinceAsked, HasMailbox
      <3>5. QED
        BY <2>2, <2>3, <3>4 DEF ConnOK, FallbackOK, DataOK
    <2>6. CASE session[c].owner \notin policyUsers(c)
      <3>1. bootstrap.report = {}
        BY SessionAssumption DEF TypeOK
      <3>2. todo'[c] = {}
        BY <2>4, <2>6, <3>1 DEF mailboxState
      <3>3. QED
        BY <2>2, <2>3, <3>2 DEF ConnOK, FallbackOK, DataOK, TodoOK
    <2>7. QED
      BY <2>5, <2>6
  <1>20. ASSUME NEW a \in Recipient, EnqueueReport(c, a)
         PROVE  ConnOK(c)'
    <2>1. PastKept /\ bootstrap' = bootstrap /\ Now' = Now /\ past' = past
      BY <1>20, SameTables DEF EnqueueReport
    <2>2. /\ pc'[c] = pc[c] /\ session'[c] = session[c] /\ command'[c] = command[c]
          /\ current'[c] = current[c] /\ began'[c] = began[c]
          /\ store' = store /\ purged' = purged /\ todo'[c] \subseteq todo[c]
      BY <1>20 DEF EnqueueReport, TypeOK
    <2>3. EnvelopeOK(c)' /\ MomentsOK(c)' /\ StoredOK(c)'
      BY <1>20, <2>1, <2>2, EnvelopeKept DEF EnqueueReport, ConnOK, MomentsOK, StoredOK, InMail
    <2>4. TodoOK(c)'
      BY <2>1, <2>2 DEF ConnOK, TodoOK, SinceAsked, ReportDue, HasMailbox
    <2>5. QED
      BY <1>20, <2>2, <2>3, <2>4 DEF EnqueueReport, ConnOK, FallbackOK, DataOK
  <1>21. CASE Accept(c) \/ Rset(c) \/ Disconnect(c)
    <2>1. /\ pc'[c] \in {"ready", "closed"} /\ session'[c] = NoSession
          /\ began'[c] \in {0, began[c]}
      BY <1>21 DEF Accept, Rset, Disconnect, Goto, TypeOK, control
    <2>2. Now' = Now
      BY <1>21, SameTables DEF Accept, Rset, Disconnect
    <2>3. began'[c] <= Now'
      BY <1>1, <2>1, <2>2 DEF ConnOK, MomentsOK
    <2>4. QED
      BY <2>1, <2>3, EmptyEnvelope, AtRest
  <1>22. QED
    BY <1>6, <1>7, <1>8, <1>9, <1>10, <1>11, <1>12, <1>14, <1>15, <1>16, <1>17, <1>18,
       <1>19, <1>20, <1>21 DEF handleConnection

(* What a step of one connection leaves alone: the tables, the other       *)
(* connections and the messages on record.                                 *)
LEMMA Locality ==
    ASSUME TypeOK, NEW c \in Conn, handleConnection(c)
    PROVE  /\ UNCHANGED tables
           /\ \A m : InMail(m) => InMail(m)'
           /\ \A d \in Conn : d # c => SameConn(d)
  <1> USE DEF TypeOK, SameConn, InMail, Goto, mail, control
  <1>1. ASSUME NEW step \in Steps, NEW from, NEW a, Begin(c, from, step, a) \/ Continue(c, step)
        PROVE  UNCHANGED tables /\ (\A m : InMail(m) => InMail(m)')
               /\ \A d \in Conn : d # c => SameConn(d)
    BY <1>1 DEF Begin, Continue
  <1>2. ASSUME NEW step \in Steps, Finish(c, step),
               \/ UNCHANGED session
               \/ \E s : session' = [session EXCEPT ![c] = s]
        PROVE  UNCHANGED tables /\ (\A m : InMail(m) => InMail(m)')
               /\ \A d \in Conn : d # c => SameConn(d)
    BY <1>2 DEF Finish
  <1>3. ASSUME NEW o, AcceptRcpt(c, o)
        PROVE  UNCHANGED tables /\ (\A m : InMail(m) => InMail(m)')
               /\ \A d \in Conn : d # c => SameConn(d)
    BY <1>2, <1>3 DEF AcceptRcpt, Steps
  <1>4. CASE Refuse(c)
    BY <1>2, <1>4 DEF Refuse, Steps
  <1>5. CASE Connect(c) \/ (\E a \in Recipient : RcptTo(c, a)) \/ Data(c)
    BY <1>1, <1>5 DEF Connect, RcptTo, Data, Steps
  <1>6. CASE OnConnect(c) \/ LookupFails(c) \/ RcptRefused(c) \/ StoreFails(c) \/ RefuseBody(c)
    BY <1>2, <1>4, <1>6 DEF OnConnect, LookupFails, RcptRefused, StoreFails, RefuseBody, Steps
  <1>7. CASE RcptUnrouted(c) \/ ManagedUsers(c) \/ OnData(c) \/ ReadBody(c)
             \/ NoReports(c) \/ ReportsQueued(c)
    BY <1>1, <1>4, <1>7
       DEF RcptUnrouted, ManagedUsers, OnData, ReadBody, NoReports, ReportsQueued, Steps
  <1>8. CASE (\E o \in Owner : RcptRouted(c, o)) \/ RcptByBootstrap(c)
    BY <1>3, <1>4, <1>8 DEF RcptRouted, RcptByBootstrap
  <1>9. CASE \E from \in Sender : MailFrom(c, from)
    BY <1>9 DEF MailFrom
  <1>10. CASE CreateMessage(c)
    BY <1>10 DEF CreateMessage
  <1>11. CASE StartReports(c) \/ ReportsFor(c) \/ (\E a \in Recipient : EnqueueReport(c, a))
    BY <1>11 DEF StartReports, ReportsFor, EnqueueReport
  <1>12. CASE Accept(c) \/ Rset(c) \/ Disconnect(c)
    BY <1>12 DEF Accept, Rset, Disconnect
  <1>13. QED
    BY <1>5, <1>6, <1>7, <1>8, <1>9, <1>10, <1>11, <1>12 DEF handleConnection

\* An acknowledged message is on record.
LEMMA AckedStep ==
    ASSUME TypeOK, NEW c \in Conn, ConnOK(c), handleConnection(c), AckedIsStored
    PROVE  AckedIsStored'
  <1>1. \A m : InMail(m) => InMail(m)'
    BY Locality
  <1>2. CASE acked' = acked
    BY <1>1, <1>2 DEF AckedIsStored, InMail
  <1>3. CASE Accept(c)
    <2>1. acked' = acked \cup {current[c]} /\ store' = store /\ purged' = purged
      BY <1>3 DEF Accept
    <2>2. \E m \in store \cup purged : m.id = current[c]
      BY <1>3 DEF Accept, ConnOK, StoredOK, InMail
    <2>3. QED
      BY <2>1, <2>2 DEF AckedIsStored
  <1>4. acked' = acked \/ Accept(c)
    BY DEF handleConnection, Connect, OnConnect, MailFrom, RcptTo, RcptRouted, RcptRefused,
       RcptUnrouted, ManagedUsers, RcptByBootstrap, Data, OnData, LookupFails, ReadBody,
       RefuseBody, CreateMessage, StoreFails, NoReports, StartReports, ReportsFor,
       EnqueueReport, ReportsQueued, Rset, Disconnect, AcceptRcpt, Begin, Continue, Finish,
       Refuse, mail
  <1>5. QED
    BY <1>2, <1>3, <1>4

\* An administrator's step appends a table and moves messages at most from
\* the store to what is purged.
LEMMA AdminStep ==
    ASSUME TypeOK, TypeOK', Administration
    PROVE  /\ PastKept /\ bootstrap' = bootstrap /\ acked' = acked
           /\ store' \subseteq store
           /\ \A m : InMail(m) => InMail(m)'
           /\ \A c \in Conn : SameConn(c)
  <1>1. ASSUME NEW o, NEW row, Save(o, row)
        PROVE  /\ PastKept /\ bootstrap' = bootstrap /\ acked' = acked
               /\ \A c \in Conn : SameConn(c)
    <2> DEFINE S == [Owner -> Row]
               e == [settings EXCEPT ![o] = row]
    <2>1. past \in Seq(S) /\ past' = Append(past, e) /\ past' \in Seq(S)
      BY <1>1, TypeOK' DEF Save, TypeOK
    <2> HIDE DEF S, e
    <2>2. /\ Len(past) \in Nat /\ Len(past') = Len(past) + 1
          /\ \A n \in 1..Len(past) : past'[n] = past[n]
      BY <2>1
    <2>3. PastKept
      BY <2>2 DEF PastKept, Now
    <2>4. QED
      BY <1>1, <2>3 DEF Save, control, SameConn
  <1>2. \E o, row : Save(o, row)
    BY DEF Administration, CreateUser, UpdateUser, DeleteUser, SaveAdminMailboxSettings
  <1>3. store' \subseteq store /\ store' \cup purged' = store \cup purged
    BY DEF Administration, CreateUser, UpdateUser, DeleteUser, SaveAdminMailboxSettings
  <1>4. QED
    BY <1>1, <1>2, <1>3 DEF InMail

LEMMA RestartOK == TypeOK /\ Restart => \A c \in Conn : ConnOK(c)'
  <1> SUFFICES ASSUME TypeOK, Restart, NEW c \in Conn PROVE ConnOK(c)'
    OBVIOUS
  <1>1. pc'[c] = "closed" /\ session'[c] = NoSession /\ began'[c] = 0 /\ Now' = Now
    BY DEF Restart, Now
  <1>2. QED
    BY <1>1, TableFacts, EmptyEnvelope, AtRest

-----------------------------------------------------------------------------
LEMMA InitInvariant == Init => IInv
  <1> SUFFICES ASSUME Init PROVE IInv
    OBVIOUS
  <1>1. TypeOK
    BY InitType
  <1>2. ASSUME NEW c \in Conn PROVE ConnOK(c)
    <2>1. pc[c] = "closed" /\ session[c].rcptTo = {} /\ began[c] = 0
      BY DEF Init, NoSession
    <2>2. QED
      BY <1>1, <2>1, TableFacts
         DEF ConnOK, MomentsOK, EnvelopeOK, FallbackOK, DataOK, StoredOK, TodoOK
  <1>3. QED
    BY <1>1, <1>2 DEF IInv, Init, AckedIsStored

LEMMA StepInvariant == IInv /\ [Next]_vars => IInv'
  <1> SUFFICES ASSUME IInv, [Next]_vars PROVE IInv'
    OBVIOUS
  <1>1. TypeOK /\ AckedIsStored /\ \A c \in Conn : ConnOK(c)
    BY DEF IInv
  <1>2. ASSUME NEW c \in Conn, handleConnection(c)
        PROVE  IInv'
    <2>1. TypeOK'
      BY <1>1, <1>2, ConnType DEF ConnOK
    <2>2. ConnOK(c)'
      BY <1>1, <1>2, <2>1, ConnStep
    <2>3. ASSUME NEW d \in Conn, d # c PROVE ConnOK(d)'
      BY <1>1, <1>2, <2>1, <2>3, Locality, SameTables, Frame
    <2>4. AckedIsStored'
      BY <1>1, <1>2, AckedStep
    <2>5. QED
      BY <2>1, <2>2, <2>3, <2>4 DEF IInv
  <1>3. CASE Administration
    <2>1. TypeOK'
      BY <1>1, <1>3, AdminType
    <2>2. \A c \in Conn : ConnOK(c)'
      BY <1>1, <1>3, <2>1, AdminStep, Frame
    <2>3. AckedIsStored'
      BY <1>1, <1>3, <2>1, AdminStep DEF AckedIsStored, InMail
    <2>4. QED
      BY <2>1, <2>2, <2>3 DEF IInv
  <1>4. CASE Restart
    <2>1. AckedIsStored'
      BY <1>1, <1>4 DEF Restart, mail, AckedIsStored
    <2>2. QED
      BY <1>1, <1>4, <2>1, RestartType, RestartOK DEF IInv
  <1>5. CASE UNCHANGED vars
    <2>1. TypeOK' /\ AckedIsStored'
      BY <1>1, <1>5 DEF vars, tables, mail, control, TypeOK, AckedIsStored
    <2>2. UNCHANGED tables /\ (\A c \in Conn : SameConn(c)) /\ \A m : InMail(m) => InMail(m)'
      BY <1>5 DEF vars, tables, mail, control, SameConn, InMail
    <2>3. QED
      BY <1>1, <2>1, <2>2, SameTables, Frame DEF IInv
  <1>6. QED
    BY <1>2, <1>3, <1>4, <1>5 DEF Next

(* The invariant of the connections (server.go:75-228): what each command  *)
(* read lies between its arrival and now, and every recipient, DATA check, *)
(* stored message and pending report has the mailbox row it came from.     *)
THEOREM Invariance == Spec => []IInv
  <1>1. QED
    BY InitInvariant, StepInvariant, PTL DEF Spec

(* SMTP sessions are well typed and an acknowledged message is on record   *)
(* (server.go:190-197).                                                    *)
THEOREM Acknowledged == Spec => [](TypeOK /\ AckedIsStored)
  <1>1. IInv => TypeOK /\ AckedIsStored
    BY DEF IInv
  <1>2. QED
    BY <1>1, Invariance, PTL

-----------------------------------------------------------------------------
(* Only CreateMessage adds to the store, and only EnqueueReport to the     *)
(* reports.                                                                *)
LEMMA MailGrowth ==
    ASSUME TypeOK, [Next]_vars
    PROVE  /\ store' \subseteq store \/ \E c \in Conn : CreateMessage(c)
           /\ reports' = reports \/ \E c \in Conn, a \in Recipient : EnqueueReport(c, a)
  <1> DEFINE Quiet == store' \subseteq store /\ reports' = reports
  <1>1. ASSUME NEW c \in Conn, handleConnection(c), ~CreateMessage(c),
               \A a \in Recipient : ~EnqueueReport(c, a)
        PROVE  Quiet
    BY <1>1 DEF handleConnection, Connect, OnConnect, MailFrom, RcptTo, RcptRouted, RcptRefused,
       RcptUnrouted, ManagedUsers, RcptByBootstrap, Data, OnData, LookupFails, ReadBody,
       RefuseBody, StoreFails, NoReports, StartReports, ReportsFor,
       ReportsQueued, Accept, Rset, Disconnect, AcceptRcpt, Begin, Continue, Finish,
       Refuse, mail
  <1>2. CASE Administration
    BY <1>2 DEF Administration, CreateUser, UpdateUser, DeleteUser, SaveAdminMailboxSettings, Save
  <1>3. CASE Restart \/ UNCHANGED vars
    BY <1>3 DEF Restart, vars, mail
  <1>4. \A c \in Conn : CreateMessage(c) => reports' = reports
    BY DEF CreateMessage
  <1>5. \A c \in Conn, a \in Recipient : EnqueueReport(c, a) => store' = store
    BY DEF EnqueueReport
  <1>6. QED
    BY <1>1, <1>2, <1>3, <1>4, <1>5 DEF Next

\* The message CreateMessage adds is the session's.
LEMMA NewMessage ==
    ASSUME NEW c \in Conn, CreateMessage(c), NEW m \in store' \ store
    PROVE  /\ m.client = c /\ m.owner = session[c].owner /\ m.from = session[c].mailFrom
           /\ m.rcptTo = session[c].rcptTo /\ pc[c] = "persist"
  BY DEF CreateMessage

(* No mail goes astray, whatever changes while a connection is served: a   *)
(* message stored for a user has only recipients that user's mailbox took  *)
(* since the MAIL command (server.go:136-138, policy.go:314-350).          *)
THEOREM NoMailAstray == Spec => NoStrayMail
  <1> DEFINE Due(m) == \A a \in m.rcptTo : \E n \in began[m.client]..Now :
          IF m.owner \in User
            THEN TookMail(m.client, m.from, m.owner, a, n)
            ELSE \/ \E o \in Owner : TookMail(m.client, m.from, o, a, n)
                 \/ BootstrapTook(m.client, m.from, a, n)
  <1>1. ASSUME IInv, [Next]_vars, NEW m \in store' \ store
        PROVE  Due(m)
    <2>1. PICK c \in Conn : CreateMessage(c)
      BY <1>1, MailGrowth DEF IInv
    <2>2. /\ m.client = c /\ m.owner = session[c].owner /\ m.from = session[c].mailFrom
          /\ m.rcptTo = session[c].rcptTo
      BY <1>1, <2>1, NewMessage
    <2>3. TypeOK /\ EnvelopeOK(c)
      BY <1>1 DEF IInv, ConnOK
    <2>4. ASSUME NEW a \in session[c].rcptTo
          PROVE  \E n \in began[c]..Now : Admitted(c, session[c].mailFrom, session[c].owner, a, n)
      BY <2>3, TableFacts DEF EnvelopeOK, TypeOK
    <2>5. QED
      BY <2>2, <2>4 DEF Admitted
  <1>2. IInv /\ [Next]_vars => [\A m \in store' \ store : Due(m)]_vars
    BY <1>1
  <1>3. QED
    BY <1>2, Invariance, PTL DEF Spec, NoStrayMail

(* A user's mailbox was still routed, and its data-stage rules passed all  *)
(* recipients, at some moment since DATA (policy.go:356-368).              *)
THEOREM DataDecided == Spec => DataRulesApplied
  <1> DEFINE Due(m) == m.owner \in User =>
          \E n \in command[m.client].asked..Now :
             /\ HasMailbox(past[n], m.owner)
             /\ ~MatchData(past[n][m.owner], m.rcptTo)
  <1>1. ASSUME IInv, [Next]_vars, NEW m \in store' \ store
        PROVE  Due(m)
    <2>1. PICK c \in Conn : CreateMessage(c)
      BY <1>1, MailGrowth DEF IInv
    <2>2. /\ m.client = c /\ m.owner = session[c].owner /\ m.rcptTo = session[c].rcptTo
          /\ pc[c] = "persist"
      BY <1>1, <2>1, NewMessage
    <2>3. TypeOK /\ DataOK(c)
      BY <1>1 DEF IInv, ConnOK
    <2>4. command[c].asked \in Nat /\ Now \in Nat
      BY <2>3, TableFacts DEF TypeOK, Command
    <2>5. QED
      BY <2>2, <2>3, <2>4 DEF DataOK, SinceAsked
  <1>2. IInv /\ [Next]_vars => [\A m \in store' \ store : Due(m)]_vars
    BY <1>1
  <1>3. QED
    BY <1>2, Invariance, PTL DEF Spec, DataRulesApplied

(* A report is queued only for a stored message whose owner's rules asked  *)
(* for it since DATA (server.go:195, policy.go:213-230).                   *)
THEOREM ReportsJustified == Spec => ReportsAreDue
  <1> DEFINE Due(r) == \E m \in store \cup purged :
          /\ m.id = r.id /\ r.rcpt \in m.rcptTo
          /\ \E n \in command[m.client].asked..Now :
                HasMailbox(past[n], m.owner) /\ r.rcpt \in past[n][m.owner].report
  <1>1. ASSUME IInv, [Next]_vars, NEW r \in reports' \ reports
        PROVE  Due(r)
    <2>1. PICK c \in Conn, a \in Recipient : EnqueueReport(c, a)
      BY <1>1, MailGrowth DEF IInv
    <2>2. r.id = current[c] /\ r.rcpt = a /\ a \in todo[c] /\ pc[c] = "enqueue"
      BY <1>1, <2>1 DEF EnqueueReport
    <2>3. TypeOK /\ StoredOK(c) /\ TodoOK(c)
      BY <1>1 DEF IInv, ConnOK
    <2>4. PICK m \in store \cup purged :
             /\ m.id = current[c] /\ m.client = c /\ m.owner = session[c].owner
             /\ m.rcptTo = session[c].rcptTo
      BY <2>2, <2>3 DEF StoredOK, InMail
    <2>5. command[c].asked \in Nat /\ Now \in Nat
      BY <2>3, TableFacts DEF TypeOK, Command
    <2>6. \E n \in command[c].asked..Now : ReportDue(c, a, n)
      BY <2>2, <2>3, <2>5 DEF TodoOK, SinceAsked
    <2>7. a \in session[c].rcptTo
      BY <2>2, <2>3 DEF TodoOK
    <2>8. QED
      BY <2>2, <2>4, <2>6, <2>7 DEF ReportDue
  <1>2. IInv /\ [Next]_vars => [\A r \in reports' \ reports : Due(r)]_vars
    BY <1>1
  <1>3. QED
    BY <1>2, Invariance, PTL DEF Spec, ReportsAreDue

\* Only an accepted RCPT adds a recipient.
LEMMA RcptGrowth ==
    ASSUME TypeOK, [Next]_vars, NEW c \in Conn, NEW a \in session'[c].rcptTo \ session[c].rcptTo
    PROVE  /\ a = command[c].rcpt
           /\ \E o \in Owner : AcceptRcpt(c, o) /\ session'[c].owner = o
                 /\ \/ RcptRouted(c, o)
                    \/ o = Admin /\ RcptByBootstrap(c) /\ ~Refuse(c)
  <1> DEFINE Quiet(d) == session' = session \/ \E s : session' = [session EXCEPT ![d] = s] /\ s.rcptTo = {}
  <1>1. ASSUME NEW d \in Conn, handleConnection(d), \A o \in Owner : ~AcceptRcpt(d, o)
        PROVE  Quiet(d)
    <2>1. CASE (\E from \in Sender : MailFrom(d, from)) \/ Accept(d) \/ Rset(d) \/ Disconnect(d)
      BY <2>1 DEF MailFrom, Accept, Rset, Disconnect, NoSession
    <2>2. session' = session \/ (\E from \in Sender : MailFrom(d, from)) \/ Accept(d) \/ Rset(d) \/ Disconnect(d)
      BY <1>1, OwnersFacts DEF handleConnection, Connect, OnConnect, RcptTo, RcptRouted, RcptRefused,
         RcptUnrouted, ManagedUsers, RcptByBootstrap, Data, OnData, LookupFails, ReadBody,
         RefuseBody, CreateMessage, StoreFails, NoReports, StartReports, ReportsFor,
         EnqueueReport, ReportsQueued, Begin, Continue, Refuse
    <2>3. QED
      BY <2>1, <2>2
  <1>2. ASSUME NEW d \in Conn, Quiet(d)
        PROVE  session'[c].rcptTo \subseteq session[c].rcptTo
    BY <1>2 DEF TypeOK
  <1>3. ~Administration /\ ~UNCHANGED vars
    BY DEF Administration, CreateUser, UpdateUser, DeleteUser, SaveAdminMailboxSettings,
       Save, vars
  <1>4. ~Restart
    BY DEF Restart, NoSession
  <1>5. PICK d \in Conn, o \in Owner : handleConnection(d) /\ AcceptRcpt(d, o)
    <2>1. PICK d \in Conn : handleConnection(d)
      BY <1>3, <1>4 DEF Next
    <2> HIDE DEF Quiet
    <2>2. ~Quiet(d)
      BY <1>2
    <2>3. QED
      BY <1>1, <2>1, <2>2
  <1>6. d = c /\ a = command[c].rcpt /\ session'[c].owner = o
    BY <1>5 DEF AcceptRcpt, TypeOK, SessionMetadata
  <1>7. session' # session
    OBVIOUS
  <1>8. ~Refuse(c)
    BY <1>7 DEF Refuse
  <1>9. \/ \E p \in Owner : RcptRouted(c, p)
        \/ RcptByBootstrap(c)
    <2>1. ASSUME NEW from \in Sender, MailFrom(c, from) PROVE FALSE
      <3>1. session'[c].rcptTo = {}
        BY <2>1 DEF MailFrom, NoSession, TypeOK
      <3>2. QED
        BY <3>1
    <2>2. ~Accept(c) /\ ~Rset(c) /\ ~Disconnect(c)
      BY <1>6 DEF Accept, Rset, Disconnect, NoSession, TypeOK
    <2>3. QED
      BY <1>5, <1>6, <1>7, <2>1, <2>2
         DEF handleConnection, Connect, OnConnect, RcptTo, RcptRefused,
         RcptUnrouted, ManagedUsers, Data, OnData, LookupFails, ReadBody,
         RefuseBody, CreateMessage, StoreFails, NoReports, StartReports, ReportsFor,
         EnqueueReport, ReportsQueued, Begin, Continue, Refuse
  <1>10. ASSUME NEW p \in Owner, AcceptRcpt(c, p) PROVE p = o
    BY <1>6, <1>10 DEF AcceptRcpt, TypeOK, SessionMetadata
  <1>11. QED
    BY <1>5, <1>6, <1>8, <1>9, <1>10, OwnersFacts DEF RcptRouted, RcptByBootstrap

(* Mail never falls through a managed mailbox that stays: an address is    *)
(* taken by a mailbox or, after a moment without users and one without an  *)
(* active admin mailbox, by the bootstrap policy (policy.go:324-338).      *)
THEOREM NoMailFallsThrough == Spec => NoFallThrough
  <1> DEFINE Due(c, a) == \E n \in command[c].asked..Now :
             \/ TookMail(c, session[c].mailFrom, session'[c].owner, a, n)
             \/ /\ BootstrapTook(c, session[c].mailFrom, a, n)
                /\ \E k \in n..Now : AdminIdle(past[k])
  <1>1. ASSUME IInv, [Next]_vars, NEW c \in Conn,
               NEW a \in session'[c].rcptTo \ session[c].rcptTo
        PROVE  Due(c, a)
    <2>1. TypeOK /\ ConnOK(c)
      BY <1>1 DEF IInv
    <2>2. PICK o \in Owner : /\ session'[c].owner = o
                             /\ RcptRouted(c, o) \/ (RcptByBootstrap(c) /\ ~Refuse(c))
      BY <1>1, <2>1, RcptGrowth
    <2>3. a = command[c].rcpt
      BY <1>1, <2>1, RcptGrowth
    <2>4. Now \in Nat /\ command[c].asked \in Nat /\ Now \in 1..Now
      BY <2>1, TableFacts DEF TypeOK, Command
    <2>5. CASE RcptRouted(c, o)
      <3>1. PICK n \in 1..Now : SinceAsked(c, n) /\ RowsRead(c)[o] = past[n][o]
        BY <2>1, <2>4, <2>5
           DEF RcptRouted, RowsRead, settings, ConnOK, MomentsOK, SinceAsked, TypeOK, Command
      <3>2. HasMailbox(RowsRead(c), o) /\ Matches(c, RowsRead(c)[o], a)
        BY <2>3, <2>5 DEF RcptRouted, candidates, policyUsers
      <3>3. TookMail(c, session[c].mailFrom, o, a, n)
        BY <2>3, <2>5, <3>1, <3>2 DEF RcptRouted, TookMail, HasMailbox, Matches
      <3>4. n \in command[c].asked..Now
        BY <2>4, <3>1 DEF SinceAsked
      <3>5. QED
        BY <2>2, <3>3, <3>4
    <2>6. CASE RcptByBootstrap(c) /\ ~Refuse(c)
      <3>1. PICK n \in 1..Now : SinceAsked(c, n) /\ NoUsers(past[n])
        BY <2>1, <2>6 DEF RcptByBootstrap, ConnOK, FallbackOK
      <3>2. AdminIdle(past[Now]) /\ Matches(c, bootstrap, a)
        BY <2>3, <2>6 DEF RcptByBootstrap, settings
      <3>3. BootstrapTook(c, session[c].mailFrom, a, n)
        BY <3>1, <3>2 DEF BootstrapTook, Matches
      <3>4. n \in command[c].asked..Now /\ Now \in n..Now
        BY <2>4, <3>1 DEF SinceAsked
      <3>5. QED
        BY <3>2, <3>3, <3>4
    <2>7. QED
      BY <2>2, <2>5, <2>6
  <1>2. IInv /\ [Next]_vars =>
           [\A c \in Conn : \A a \in session'[c].rcptTo \ session[c].rcptTo : Due(c, a)]_vars
    BY <1>1
  <1>3. QED
    BY <1>2, Invariance, PTL DEF Spec, NoFallThrough
-----------------------------------------------------------------------------
(* Ids.  A message being answered has an id of its own that has not been   *)
(* acknowledged.                                                           *)
Record    == store \cup purged
Answering == {"stored", "report", "enqueue", "answer"}

IdsOK ==
    /\ \A m \in Record : m.id <= lastId
    /\ \A m, n \in Record : m.id = n.id => m = n
    /\ \A c \in Conn : pc[c] \in Answering => current[c] \notin acked

(* What a step other than CreateMessage and Accept does to the ids.        *)
LEMMA IdsFrame ==
    ASSUME TypeOK, [Next]_vars, \A c \in Conn : ~CreateMessage(c) /\ ~Accept(c)
    PROVE  /\ Record' = Record /\ lastId' = lastId /\ acked' = acked
           /\ \A c \in Conn : pc'[c] \in Answering => pc[c] \in Answering /\ current'[c] = current[c]
  <1> DEFINE Same == /\ Record' = Record /\ lastId' = lastId /\ acked' = acked
                     /\ \A d \in Conn : pc'[d] \in Answering =>
                           pc[d] \in Answering /\ current'[d] = current[d]
  <1>1. ASSUME NEW c \in Conn, handleConnection(c) PROVE Same
    <2>1. \A d \in Conn \ {c} : SameConn(d)
      BY <1>1, Locality
    <2>2. Record' = Record /\ lastId' = lastId /\ acked' = acked
      BY <1>1 DEF Record, handleConnection, Connect, OnConnect, MailFrom, RcptTo, RcptRouted,
         RcptRefused, RcptUnrouted, ManagedUsers, RcptByBootstrap, Data, OnData, LookupFails,
         ReadBody, RefuseBody, StoreFails, NoReports, StartReports, ReportsFor, EnqueueReport,
         ReportsQueued, Rset, Disconnect, AcceptRcpt, Begin, Continue, Finish, Refuse, mail
    <2>3. pc'[c] \in Answering => pc[c] \in Answering /\ current'[c] = current[c]
      BY <1>1 DEF Answering, TypeOK, handleConnection, Connect, OnConnect, MailFrom, RcptTo,
         RcptRouted, RcptRefused, RcptUnrouted, ManagedUsers, RcptByBootstrap, Data, OnData,
         LookupFails, ReadBody, RefuseBody, StoreFails, NoReports, StartReports, ReportsFor,
         EnqueueReport, ReportsQueued, Rset, Disconnect, AcceptRcpt, Begin, Continue, Finish,
         Refuse, Goto, control
    <2>4. QED
      BY <2>1, <2>2, <2>3 DEF SameConn
  <1>2. CASE Administration
    <2>1. \A d \in Conn : pc'[d] = pc[d] /\ current'[d] = current[d]
      BY <1>2 DEF Administration, CreateUser, UpdateUser, DeleteUser,
         SaveAdminMailboxSettings, Save, control
    <2>2. Record' = Record /\ lastId' = lastId /\ acked' = acked
      BY <1>2 DEF Record, Administration, CreateUser, UpdateUser, DeleteUser,
         SaveAdminMailboxSettings, Save
    <2>3. QED
      BY <2>1, <2>2
  <1>3. CASE Restart
    BY <1>3 DEF Restart, mail, Record, Answering
  <1>4. CASE UNCHANGED vars
    BY <1>4 DEF vars, mail, control, Record
  <1>5. QED
    BY <1>1, <1>2, <1>3, <1>4 DEF Next

(* The message under answer is on record, with the envelope of its session *)
LEMMA UnderAnswer ==
    ASSUME IInv, NEW c \in Conn, pc[c] \in Answering
    PROVE  \E m \in Record : /\ m.id = current[c] /\ m.client = c
                             /\ m.owner = session[c].owner /\ m.from = session[c].mailFrom
                             /\ m.rcptTo = session[c].rcptTo
  <1>1. PICK m : m = [id |-> current[c], client |-> c, owner |-> session[c].owner,
                      from |-> session[c].mailFrom, rcptTo |-> session[c].rcptTo]
    OBVIOUS
  <1>2. m \in Record
    BY <1>1 DEF IInv, ConnOK, StoredOK, InMail, Record, Answering
  <1>3. QED
    BY <1>1, <1>2

LEMMA IdsStep ==
    ASSUME IInv, IdsOK, [Next]_vars
    PROVE  IdsOK'
  <1>1. TypeOK
    BY DEF IInv
  <1>2. lastId \in Nat /\ acked \subseteq Nat /\ \A i \in acked : i <= lastId
    BY <1>1 DEF TypeOK, IInv, AckedIsStored, IdsOK, Record
  <1>3. \A m \in Record : m.id \in Nat
    BY <1>1 DEF TypeOK, Record, Message
  <1>4. ASSUME NEW c \in Conn, CreateMessage(c) PROVE IdsOK'
    <2>1. PICK m : /\ Record' = Record \cup {m} /\ m.id = lastId + 1
      <3>1. PICK m : m = [id |-> lastId + 1, client |-> c, owner |-> session[c].owner,
                          from |-> session[c].mailFrom, rcptTo |-> session[c].rcptTo]
        OBVIOUS
      <3>2. store' = store \cup {m} /\ purged' = purged
        BY <1>4, <3>1 DEF CreateMessage
      <3>3. QED
        BY <3>1, <3>2 DEF Record
    <2>2. lastId' = lastId + 1 /\ acked' = acked /\ current' = [current EXCEPT ![c] = lastId + 1]
          /\ pc' = [pc EXCEPT ![c] = "stored"]
      BY <1>4 DEF CreateMessage, Goto
    <2>3. \A n \in Record' : n.id <= lastId'
      BY <1>2, <1>3, <2>1, <2>2 DEF IdsOK
    <2>4. \A n, k \in Record' : n.id = k.id => n = k
      BY <1>2, <1>3, <2>1 DEF IdsOK
    <2>5. \A d \in Conn : pc'[d] \in Answering => current'[d] \notin acked'
      <3>1. lastId + 1 \notin acked
        BY <1>2
      <3>2. QED
        BY <1>1, <2>2, <3>1 DEF TypeOK, IdsOK
    <2>6. QED
      BY <2>3, <2>4, <2>5 DEF IdsOK
  <1>5. ASSUME NEW c \in Conn, Accept(c) PROVE IdsOK'
    <2>1. /\ Record' = Record /\ lastId' = lastId /\ acked' = acked \cup {current[c]}
          /\ pc[c] = "answer" /\ pc' = [pc EXCEPT ![c] = "ready"]
          /\ current' = [current EXCEPT ![c] = 0]
      BY <1>5 DEF Accept, Goto, Record
    <2>2. ASSUME NEW d \in Conn, pc'[d] \in Answering
          PROVE  current'[d] \notin acked'
      <3>1. d # c /\ pc[d] \in Answering /\ current'[d] = current[d] /\ pc[c] \in Answering
        BY <1>1, <2>1, <2>2 DEF TypeOK, Answering
      <3>2. PICK m \in Record : m.id = current[c] /\ m.client = c
        BY <3>1, UnderAnswer
      <3>3. PICK n \in Record : n.id = current[d] /\ n.client = d
        BY <3>1, UnderAnswer
      <3>4. current[d] # current[c]
        BY <3>1, <3>2, <3>3 DEF IdsOK
      <3>5. QED
        BY <2>1, <3>1, <3>4 DEF IdsOK
    <2>3. QED
      BY <2>1, <2>2 DEF IdsOK
  <1>6. CASE \A c \in Conn : ~CreateMessage(c) /\ ~Accept(c)
    BY <1>1, <1>6, IdsFrame DEF IdsOK
  <1>7. QED
    BY <1>4, <1>5, <1>6

THEOREM IdsInvariance == Spec => [](IInv /\ IdsOK)
  <1>1. Init => IdsOK
    BY DEF Init, IdsOK, Record, Answering
  <1>2. IInv /\ IdsOK /\ [Next]_vars => IdsOK'
    BY IdsStep
  <1>3. QED
    BY <1>1, <1>2, Invariance, PTL DEF Spec

(* A 250 after the final dot (server.go:190-197) is for one message, the   *)
(* one on record with this connection's own sender, recipients and owner,  *)
(* and for one that has not been acknowledged before, whatever the other   *)
(* connections store and answer meanwhile.                                 *)
OwnMessage(c) ==
    /\ current[c] \notin acked
    /\ \E m \in Record :
          /\ m.id = current[c] /\ m.client = c /\ m.owner = session[c].owner
          /\ m.from = session[c].mailFrom /\ m.rcptTo = session[c].rcptTo
          /\ \A n \in Record : n.id = current[c] => n = m

THEOREM AnswersItsOwnMessage == Spec => [][\A c \in Conn : Accept(c) => OwnMessage(c)]_vars
  <1>1. ASSUME IInv, IdsOK, NEW c \in Conn, Accept(c)
        PROVE  OwnMessage(c)
    <2>1. pc[c] \in Answering
      BY <1>1 DEF Accept, Answering
    <2>2. QED
      BY <1>1, <2>1, UnderAnswer DEF IdsOK, OwnMessage
  <1>2. IInv /\ IdsOK /\ [Next]_vars => [\A c \in Conn : Accept(c) => OwnMessage(c)]_vars
    BY <1>1
  <1>3. QED
    BY <1>2, IdsInvariance, PTL DEF Spec

(* Reports come before the answer (server.go:195-197): once a message is   *)
(* acknowledged, no report about it is queued any more.                    *)
THEOREM ReportsPrecedeTheAnswer ==
    Spec => [][\A r \in reports' \ reports : r.id \notin acked]_vars
  <1>1. ASSUME IInv, IdsOK, [Next]_vars, NEW r \in reports' \ reports
        PROVE  r.id \notin acked
    <2>1. PICK c \in Conn, a \in Recipient : EnqueueReport(c, a)
      BY <1>1, MailGrowth DEF IInv
    <2>2. r.id = current[c] /\ pc[c] \in Answering
      BY <1>1, <2>1 DEF EnqueueReport, Answering
    <2>3. QED
      BY <1>1, <2>2 DEF IdsOK
  <1>2. IInv /\ IdsOK /\ [Next]_vars => [\A r \in reports' \ reports : r.id \notin acked]_vars
    BY <1>1
  <1>3. QED
    BY <1>2, IdsInvariance, PTL DEF Spec

-----------------------------------------------------------------------------
(* Two mailboxes answer for one RCPT.                                      *)
Compete(c, o, p) == pc[c] = "rcpt" /\ o # p /\ {o, p} \subseteq candidates(c)

(* Since the command arrived, a claim of o met a claim of p, or both       *)
(* matched the address in a way that the comparison of claims cannot see.  *)
Contested(c, o, p) ==
    \E n, k \in command[c].asked..Now :
        \/ recipientOwnershipOverlaps(past[n][o].rcpt, past[k][p].rcpt)
        \/ Unseen(past[n][o].rcpt, past[k][p].rcpt, command[c].rcpt)

LEMMA CandidateClaims ==
    ASSUME IInv, NEW c \in Conn, pc[c] = "rcpt", NEW o \in candidates(c)
    PROVE  \E n \in command[c].asked..Now :
              /\ past[n][o].rcpt \in Matcher
              /\ Match(past[n][o].rcpt, command[c].rcpt)
  <1>1. TypeOK /\ MomentsOK(c)
    BY DEF IInv, ConnOK
  <1>2. /\ command[c].asked \in Nat /\ command[c].seen \in Nat /\ Now \in Nat
        /\ 1 <= command[c].asked /\ command[c].asked <= command[c].seen
        /\ command[c].seen <= Now
    BY <1>1, TableFacts DEF TypeOK, Command, MomentsOK
  <1>3. o \in Owner /\ HasMailbox(RowsRead(c), o) /\ recipientAllowed(RowsRead(c)[o], command[c].rcpt)
    BY DEF candidates, policyUsers, Matches, matchesUserPolicy
  <1>4. PICK n \in command[c].asked..Now : n \in 1..Now /\ RowsRead(c)[o] = past[n][o]
    <2>1. CASE o = Admin
      BY <1>2, <1>3, <2>1 DEF RowsRead, settings
    <2>2. CASE o # Admin
      BY <1>2, <1>3, <2>2 DEF RowsRead
    <2>3. QED
      BY <2>1, <2>2
  <1>5. past[n][o] \in Policy
    BY <1>1, <1>3, <1>4, TableFacts DEF HasMailbox, Row
  <1>6. past[n][o].rcpt \in Matcher
    BY <1>5 DEF Policy
  <1>7. Match(past[n][o].rcpt, command[c].rcpt)
    BY <1>3, <1>4 DEF HasMailbox, Routed, recipientAllowed
  <1>8. QED
    BY <1>6, <1>7

(* policy.go:302-352.  An RCPT is refused because two mailboxes answer for *)
(* it only if their claims met while it was decided, or in the ways that   *)
(* the comparison of claims cannot see: with tables that are kept          *)
(* exclusive, exact domains are never ambiguous.                           *)
THEOREM AmbiguityExplained ==
    Spec => [](\A c \in Conn : \A o, p \in Owner : Compete(c, o, p) => Contested(c, o, p))
  <1>1. ASSUME IInv, NEW c \in Conn, NEW o \in Owner, NEW p \in Owner, Compete(c, o, p)
        PROVE  Contested(c, o, p)
    <2>1. PICK n \in command[c].asked..Now : /\ past[n][o].rcpt \in Matcher
                                             /\ Match(past[n][o].rcpt, command[c].rcpt)
      BY <1>1, CandidateClaims DEF Compete
    <2>2. PICK k \in command[c].asked..Now : /\ past[k][p].rcpt \in Matcher
                                             /\ Match(past[k][p].rcpt, command[c].rcpt)
      BY <1>1, CandidateClaims DEF Compete
    <2>3. command[c].rcpt \in Address
      BY <1>1, SessionAssumption DEF IInv, ConnOK, MomentsOK, Compete
    <2>4. QED
      BY <2>1, <2>2, <2>3, AmbiguityUnseen DEF Contested
  <1>2. IInv => \A c \in Conn : \A o, p \in Owner : Compete(c, o, p) => Contested(c, o, p)
    BY <1>1
  <1>3. QED
    BY <1>2, Invariance, PTL
=============================================================================
