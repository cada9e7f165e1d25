-------------------------- MODULE WebAccess_proofs --------------------------
(***************************************************************************)
(* Proofs about WebAccess, for every number of requests, deliveries,       *)
(* users, sessions and settings.                                           *)
(***************************************************************************)
EXTENDS WebAccess, FiniteSetTheorems, TLAPS

Login == {"count", "check", "expire", "record", "clear", "create"}
Known == {"clear", "create", "serve"}

(* What the local variables of a handler hold at each of its steps.        *)
Coherent ==
    /\ \A r \in Request : pc[r] \in Login => req[r].client \in Client
    /\ \A r \in Request : pc[r] \in Known => req[r].user \in {Admin} \cup User
    /\ \A r \in Request : pc[r] = "apply" => req[r].row \in AppSettings

Typed == TypeOK /\ Coherent

LEMMA Numbers == /\ MaxUser \in Nat /\ Admin = 0 /\ NoUser = -1 /\ User = 1..MaxUser
                 /\ Admin \notin User /\ NoUser \notin {Admin} \cup User
  BY AccessAssumption DEF Admin, NoUser, User

LEMMA NoRequestType ==
    /\ NoRequest \in RequestRecord
    /\ NoRequest.user = NoUser /\ NoRequest.client = NoClient
  BY DEF NoRequest, RequestRecord

LEMMA EndTyped ==
    ASSUME Typed, NEW r \in Request, End(r)
    PROVE  pc' \in [Request -> Step] /\ req' \in [Request -> RequestRecord] /\ Coherent'
  BY NoRequestType DEF Typed, TypeOK, Coherent, End, Goto, Step, Login, Known

LEMMA InitTyped == Init => Typed
  <1> SUFFICES ASSUME Init PROVE Typed
    OBVIOUS
  <1>1. users \in [User -> Nat] /\ created \in 0..MaxUser /\ now \in 0..MaxTime
    BY AccessAssumption DEF Init
  <1>2. pc \in [Request -> Step] /\ req \in [Request -> RequestRecord]
    BY NoRequestType DEF Init, Step
  <1>3. session \in [Cookie -> SessionRow \cup {NoSession}]
        /\ inbound \in [Delivery -> Envelope \cup {NoMail}]
    BY DEF Init
  <1>4. TypeOK
    BY <1>1, <1>2, <1>3, AccessAssumption DEF Init, TypeOK, AppSettings, envAppSettings
  <1>5. Coherent
    BY DEF Init, Coherent, Login, Known
  <1>6. QED
    BY <1>4, <1>5 DEF Typed

(* The steps of a login (auth.go:82-160).                                  *)
LEMMA LoginTyped ==
    ASSUME Typed, NEW r \in Request, handleLogin(r)
    PROVE  Typed'
  <1> USE DEF Typed
  <1>1. ASSUME NEW c \in Client, LoginStart(r, c) PROVE Typed'
    <2>0. now \in Nat
      BY AccessAssumption DEF TypeOK
    <2>a. [NoRequest EXCEPT !.client = c, !.at = now] \in RequestRecord
      BY <2>0 DEF RequestRecord, NoRequest
    <2>1. /\ req' = [req EXCEPT ![r] = [NoRequest EXCEPT !.client = c, !.at = now]]
          /\ pc' = [pc EXCEPT ![r] = "count"]
      BY <1>1 DEF LoginStart, Goto
    <2>2. req'[r].client = c
      BY <2>1 DEF NoRequest, TypeOK
    <2>3. Coherent'
      BY <2>1, <2>2 DEF Coherent, TypeOK, Login, Known
    <2>4. TypeOK'
      BY <1>1, <2>a, <2>1 DEF LoginStart, TypeOK, Step, Recent, accounts, mail, config
    <2>5. QED
      BY <2>3, <2>4
  <1>2. CASE CountAttempts(r)
    <2>1. CASE End(r)
      BY <1>2, <2>1, EndTyped DEF CountAttempts, TypeOK, accounts, mail, config
    <2>2. CASE Goto(r, "check") /\ req' = [req EXCEPT ![r].at = 0]
      <3>1. /\ pc' \in [Request -> Step] /\ req' \in [Request -> RequestRecord]
            /\ Coherent'
        BY <1>2, <2>2 DEF CountAttempts, Goto, TypeOK, Coherent, Step, RequestRecord, Login, Known
      <3>2. QED
        BY <1>2, <3>1 DEF CountAttempts, TypeOK, accounts, mail, config
    <2>3. QED
      BY <1>2, <2>1, <2>2 DEF CountAttempts
  <1>3. CASE Refuse(r)
    <2>1. pc' \in [Request -> Step] /\ Coherent'
      BY <1>3 DEF Refuse, Goto, TypeOK, Coherent, Step, Login, Known
    <2>2. QED
      BY <1>3, <2>1 DEF Refuse, TypeOK, accounts, mail, config
  <1>4. ASSUME NEW u \in {Admin} \cup User, Accept(r, u) PROVE Typed'
    <2>1. Account(u) \in Nat
      BY Numbers DEF Account, TypeOK
    <2>2. pc' \in [Request -> Step] /\ pc' = [pc EXCEPT ![r] = "clear"]
      BY <1>4 DEF Accept, Goto, TypeOK, Step
    <2>3. req' \in [Request -> RequestRecord]
      <3>1. req[r] \in RequestRecord /\ u \in {NoUser, Admin} \cup User
        BY DEF TypeOK
      <3>2. [req[r] EXCEPT !.user = u, !.who = Account(u)] \in RequestRecord
        BY <2>1, <3>1 DEF RequestRecord
      <3>3. req' = [req EXCEPT ![r] = [req[r] EXCEPT !.user = u, !.who = Account(u)]]
        BY <1>4, <3>1 DEF Accept, TypeOK
      <3>4. QED
        BY <3>2, <3>3 DEF TypeOK
    <2>4. /\ req'[r].user = u /\ req'[r].client = req[r].client
          /\ \A q \in Request : q # r => req'[q] = req[q]
      BY <1>4 DEF Accept, TypeOK, RequestRecord
    <2>5. Coherent'
      BY <1>4, <2>2, <2>4 DEF Accept, Coherent, TypeOK, Login, Known
    <2>6. QED
      BY <1>4, <2>2, <2>3, <2>5 DEF Accept, TypeOK, accounts, mail, config
  <1>5. CASE RecordExpire(r)
    <2>1. /\ pc' \in [Request -> Step] /\ req' \in [Request -> RequestRecord]
          /\ Coherent'
      BY <1>5, AccessAssumption
         DEF RecordExpire, Goto, TypeOK, Coherent, Step, RequestRecord, Login, Known
    <2>2. QED
      BY <1>5, <2>1 DEF RecordExpire, Recent, TypeOK, accounts, mail, config
  <1>6. CASE RecordLoginAttempt(r)
    <2>1. req[r].client \in Client /\ req[r].at \in Nat
      BY <1>6 DEF RecordLoginAttempt, Coherent, Login, TypeOK, RequestRecord
    <2>2. attempts' \subseteq [id : AttemptId, client : Client, at : Nat]
      BY <1>6, <2>1 DEF RecordLoginAttempt, TypeOK
    <2>3. QED
      BY <1>6, <2>2, EndTyped DEF RecordLoginAttempt, TypeOK, accounts, mail, config
  <1>7. CASE ClearLoginAttempts(r)
    <2>1. pc' \in [Request -> Step] /\ Coherent'
      BY <1>7 DEF ClearLoginAttempts, Goto, TypeOK, Coherent, Step, Login, Known
    <2>2. QED
      BY <1>7, <2>1 DEF ClearLoginAttempts, TypeOK, accounts, mail, config
  <1>8. CASE CreateAuthSession(r)
    <2>1. PICK c \in Cookie :
             session' = [session EXCEPT ![c] =
               [user |-> req[r].user, who |-> req[r].who, stray |-> req[r].stray,
                expires |-> now + SessionLife]]
      BY <1>8 DEF CreateAuthSession
    <2>2. [user |-> req[r].user, who |-> req[r].who, stray |-> req[r].stray,
           expires |-> now + SessionLife] \in SessionRow
      BY <1>8, AccessAssumption
         DEF CreateAuthSession, Coherent, Known, TypeOK, RequestRecord, SessionRow
    <2>3. session' \in [Cookie -> SessionRow \cup {NoSession}]
      BY <2>1, <2>2 DEF TypeOK
    <2>4. QED
      BY <1>8, <2>3, EndTyped DEF CreateAuthSession, TypeOK, accounts, mail, config
  <1>9. QED
    BY <1>1, <1>2, <1>3, <1>4, <1>5, <1>6, <1>7, <1>8 DEF handleLogin

(* The requests with a session and what they do (auth.go:42-80,            *)
(* server.go, service.go).                                                 *)
LEMMA ServeTyped ==
    ASSUME Typed, NEW r \in Request, Serve(r)
    PROVE  Typed'
  <1> USE DEF Typed
  <1>1. ASSUME NEW c \in Cookie, Authenticate(r, c) PROVE Typed'
    <2>0. session[c] \in SessionRow
      BY <1>1 DEF Authenticate, TypeOK
    <2>1. session' \in [Cookie -> SessionRow \cup {NoSession}]
      BY <1>1 DEF Authenticate, TypeOK
    <2>2. CASE UNCHANGED requests
      BY <1>1, <2>1, <2>2
         DEF Authenticate, TypeOK, Coherent, requests, accounts, mail, config
    <2>3. CASE /\ req' = [req EXCEPT ![r] = [NoRequest EXCEPT !.user = session[c].user,
                                                            !.who = session[c].who]]
               /\ Goto(r, "serve")
      <3>1. /\ [NoRequest EXCEPT !.user = session[c].user, !.who = session[c].who]
                  \in RequestRecord
            /\ session[c].user \in {Admin} \cup User
        BY <2>0 DEF NoRequest, RequestRecord, SessionRow
      <3>2. pc' = [pc EXCEPT ![r] = "serve"] /\ pc' \in [Request -> Step]
            /\ req'[r].user = session[c].user
        BY <2>3 DEF Goto, TypeOK, Step, NoRequest
      <3>3. Coherent'
        BY <2>3, <3>1, <3>2 DEF Coherent, TypeOK, Login, Known
      <3>4. QED
        BY <1>1, <2>1, <2>3, <3>1, <3>2, <3>3
           DEF Authenticate, TypeOK, accounts, mail, config
    <2>4. QED
      BY <1>1, <2>2, <2>3 DEF Authenticate
  <1>2. CASE DeleteMessages(r)
    BY <1>2, EndTyped DEF DeleteMessages, TypeOK, accounts, config
  <1>3. CASE CreateUser(r)
    <2>0. created + 1 \in 1..MaxUser /\ created + 1 \in Nat
      BY <1>3, Numbers DEF CreateUser, TypeOK
    <2>1. users' \in [User -> Nat] /\ created' \in 0..MaxUser
      <3>1. created' = created + 1 /\ created \in 0..MaxUser
        BY <1>3 DEF CreateUser, TypeOK
      <3>2. users' = [users EXCEPT ![NextId] = created + 1]
        BY <1>3 DEF CreateUser
      <3>3. users' \in [User -> Nat]
        BY <2>0, <3>2 DEF TypeOK
      <3>4. created' \in 0..MaxUser
        BY <2>0, <3>1
      <3>5. QED
        BY <3>3, <3>4
    <2>2. QED
      BY <1>3, <2>1, EndTyped DEF CreateUser, TypeOK, mail, config
  <1>4. ASSUME NEW u \in User, DeleteUser(r, u) PROVE Typed'
    <2>1. /\ users' \in [User -> Nat]
          /\ store' \subseteq [id : MessageId, owner : {Admin} \cup User, who : Nat, stray : BOOLEAN]
      BY <1>4 DEF DeleteUser, TypeOK
    <2>2. session' \in [Cookie -> SessionRow \cup {NoSession}]
      BY <1>4 DEF DeleteUser, SessionsWithout, TypeOK
    <2>3. inbound' \in [Delivery -> Envelope \cup {NoMail}]
      BY <1>4 DEF DeleteUser, TypeOK, Envelope
    <2>4. ASSUME NEW q \in Request
          PROVE  /\ req'[q] \in RequestRecord
                 /\ q # r => /\ req'[q].client = req[q].client
                             /\ req'[q].user = req[q].user /\ req'[q].row = req[q].row
      <3>1. req[q] \in RequestRecord
        BY DEF TypeOK
      <3>2. CASE q = r
        BY <1>4, <3>2, NoRequestType DEF DeleteUser
      <3>3. CASE q # r
        <4> DEFINE s == req[q].stray \/ (req[q].user = u /\ pc[q] # "serve")
        <4>1. req'[q] = [req[q] EXCEPT !.stray = s] /\ s \in BOOLEAN
          BY <1>4, <3>3 DEF DeleteUser
        <4> HIDE DEF s
        <4>2. QED
          BY <3>1, <3>3, <4>1 DEF RequestRecord
      <3>4. QED
        BY <3>2, <3>3
    <2>5. req' \in [Request -> RequestRecord]
      BY <1>4, <2>4 DEF DeleteUser
    <2>6. pc' \in [Request -> Step] /\ pc' = [pc EXCEPT ![r] = "idle"]
      BY <1>4 DEF DeleteUser, Goto, TypeOK, Step
    <2>7. Coherent'
      BY <2>4, <2>6 DEF Coherent, TypeOK, Login, Known
    <2>8. QED
      BY <1>4, <2>1, <2>2, <2>3, <2>5, <2>6, <2>7 DEF DeleteUser, TypeOK, config
  <1>5. ASSUME NEW s \in Settings, SaveAppSettings(r, s) PROVE Typed'
    <2>0. Global(s) \in AppSettings
      BY <1>5, AccessAssumption DEF Global, AppSettings
    <2>1. /\ pc' \in [Request -> Step] /\ req' \in [Request -> RequestRecord]
          /\ Coherent'
      BY <1>5, <2>0 DEF SaveAppSettings, Goto, TypeOK, Coherent, Step, RequestRecord, Login, Known
    <2>2. latest' \subseteq AppSettings
      BY <1>5, <2>0 DEF SaveAppSettings, Pending, Coherent
    <2>3. QED
      BY <1>5, <2>0, <2>1, <2>2 DEF SaveAppSettings, TypeOK, accounts, mail
  <1>6. CASE Apply(r)
    <2>1. applied' \in AppSettings
      BY <1>6 DEF Apply, Coherent
    <2>2. QED
      BY <1>6, <2>1, EndTyped DEF Apply, TypeOK, accounts, mail
  <1>7. QED
    BY <1>1, <1>2, <1>3, <1>4, <1>5, <1>6 DEF Serve

LEMMA TypedStep == Typed /\ [Next]_vars => Typed'
  <1> SUFFICES ASSUME Typed, [Next]_vars PROVE Typed'
    OBVIOUS
  <1> USE DEF Typed
  <1>1. ASSUME NEW r \in Request, Fail(r) PROVE Typed'
    BY <1>1, EndTyped DEF Fail, TypeOK, accounts, mail, config
  <1>2. ASSUME NEW c \in Cookie, DeleteAuthSession(c) PROVE Typed'
    BY <1>2 DEF DeleteAuthSession, TypeOK, Coherent, accounts, requests, mail, config
  <1>3. ASSUME NEW d \in Delivery, NEW u \in {Admin} \cup User, OnData(d, u) PROVE Typed'
    <2>1. [owner |-> u, who |-> Account(u), stray |-> FALSE] \in Envelope
      BY Numbers DEF Account, TypeOK, Envelope
    <2>2. QED
      BY <1>3, <2>1 DEF OnData, TypeOK, Coherent, accounts, requests, config
  <1>4. ASSUME NEW d \in Delivery, CreateMessage(d) PROVE Typed'
    <2>1. inbound[d] \in Envelope
      BY <1>4 DEF CreateMessage, TypeOK
    <2>2. store' \subseteq [id : MessageId, owner : {Admin} \cup User, who : Nat, stray : BOOLEAN]
      BY <1>4, <2>1 DEF CreateMessage, TypeOK, Envelope
    <2>3. QED
      BY <1>4, <2>2 DEF CreateMessage, TypeOK, Coherent, accounts, requests, config
  <1>5. ASSUME NEW d \in Delivery, DeliveryFails(d) PROVE Typed'
    BY <1>5 DEF DeliveryFails, TypeOK, Coherent, accounts, requests, config
  <1>6. CASE Tick
    BY <1>6, AccessAssumption DEF Tick, TypeOK, Coherent, accounts, requests, mail, config
  <1>7. CASE Restart
    <2>1. pc' \in [Request -> Step] /\ req' \in [Request -> RequestRecord]
      BY <1>7, NoRequestType DEF Restart, Step
    <2>2. Coherent'
      BY <1>7 DEF Restart, Coherent, Login, Known
    <2>3. Loaded \in AppSettings /\ Loaded.smtp \in Limits
      BY AccessAssumption DEF Loaded, TypeOK, AppSettings, envAppSettings
    <2>4. QED
      BY <1>7, <2>1, <2>2, <2>3 DEF Restart, TypeOK, accounts
  <1>8. CASE UNCHANGED vars
    BY <1>8 DEF vars, TypeOK, Coherent, accounts, requests, mail, config
  <1>9. QED
    BY <1>1, <1>2, <1>3, <1>4, <1>5, <1>6, <1>7, <1>8, LoginTyped, ServeTyped DEF Next

(* Every reachable state is well typed, and the principal, address and row *)
(* of a request are those its step goes by (auth.go, service.go:110-126).  *)
THEOREM TypeCorrect == Spec => [](TypeOK /\ Coherent)
  <1>1. Spec => []Typed
    BY InitTyped, TypedStep, PTL DEF Spec
  <1>2. QED
    BY <1>1, PTL DEF Typed

-----------------------------------------------------------------------------
(* AUTOINCREMENT: an id is never used for a second account, so an id that  *)
(* was learned long ago still means the account it meant then.             *)
Meant(u, who) == who = u /\ u <= created

Identity ==
    /\ \A u \in User : users[u] \in {0, u} /\ (u > created => users[u] = 0)
    /\ \A c \in Cookie : session[c] # NoSession => Meant(session[c].user, session[c].who)
    /\ \A r \in Request : pc[r] \in Known => Meant(req[r].user, req[r].who)
    /\ \A d \in Delivery : inbound[d] # NoMail => Meant(inbound[d].owner, inbound[d].who)
    /\ \A m \in store : Meant(m.owner, m.who)

\* Rows without a user are those of logins and deliveries that overlapped its
\* deletion, and these still carry the mark.
Marked(u, stray) == Present(u) \/ stray

Overlapping ==
    /\ \A c \in Cookie : session[c] # NoSession => Marked(session[c].user, session[c].stray)
    /\ \A r \in Request : pc[r] \in {"clear", "create"} => Marked(req[r].user, req[r].stray)
    /\ \A d \in Delivery : inbound[d] # NoMail => Marked(inbound[d].owner, inbound[d].stray)
    /\ \A m \in store : Marked(m.owner, m.stray)

\* What is saved, what is applied when nothing is pending, and what is pending
\* are among the latest settings; the policy is the environment's, or that of
\* a row.
Ordered ==
    /\ \A r \in Request : pc[r] = "apply" => req[r].row \in latest
    /\ Loaded \in latest
    /\ (\A r \in Request : pc[r] # "apply") => applied \in latest
    /\ policy \in {EnvLimits, Open}
    /\ saved = NoRow => policy = EnvLimits
    /\ saved # NoRow => \E s \in Settings : saved = Global(s)

Accounted == Identity /\ Overlapping /\ Ordered

LEMMA InitAccounted == Init => Accounted
  BY Numbers DEF Init, Accounted, Identity, Overlapping, Ordered, Loaded, Known

\* What an action that touches neither accounts nor rows has to keep.
LEMMA QuietStep ==
    ASSUME Typed, Accounted, NEW r \in Request, NEW step \in Step,
           step \notin Known \cup {"apply"}, pc[r] # "apply",
           pc' = [pc EXCEPT ![r] = step],
           \A q \in Request : q # r => req'[q] = req[q],
           \A c \in Cookie : session'[c] \in {session[c], NoSession},
           store' \subseteq store,
           UNCHANGED <<accounts, inbound, config>>
    PROVE  Accounted'
  <1>1. \A q \in Request : /\ q # r => pc'[q] = pc[q] /\ req'[q] = req[q]
                           /\ pc'[r] = step
    BY DEF Typed, TypeOK
  <1>2. Identity'
    BY <1>1 DEF Accounted, Identity, Meant, accounts
  <1>3. Overlapping'
    BY <1>1 DEF Accounted, Overlapping, Marked, Present, Exists, accounts, Known
  <1>4. Ordered'
    BY <1>1 DEF Accounted, Ordered, Loaded, config
  <1>5. QED
    BY <1>2, <1>3, <1>4 DEF Accounted

LEMMA AccountedLogin ==
    ASSUME Typed, Accounted, NEW r \in Request, handleLogin(r)
    PROVE  Accounted'
  <1> USE DEF End, Goto
  <1>0. Step = {"idle", "count", "check", "expire", "record", "clear", "create", "serve", "apply"}
        /\ req \in [Request -> RequestRecord] /\ pc \in [Request -> Step]
    BY DEF Step, Typed, TypeOK
  <1>1. ASSUME NEW c \in Client, LoginStart(r, c) PROVE Accounted'
    BY <1>0, <1>1, QuietStep DEF LoginStart, Known, mail
  <1>2. CASE CountAttempts(r) \/ Refuse(r)
    BY <1>0, <1>2, QuietStep DEF CountAttempts, Refuse, Known, mail
  <1>3. CASE RecordExpire(r) \/ RecordLoginAttempt(r)
    BY <1>0, <1>3, QuietStep DEF RecordExpire, RecordLoginAttempt, Known, mail
  <1>4. ASSUME NEW u \in {Admin} \cup User, Accept(r, u) PROVE Accounted'
    <2>1. /\ pc'[r] = "clear" /\ req'[r].user = u /\ req'[r].who = Account(u)
          /\ \A q \in Request : q # r => pc'[q] = pc[q] /\ req'[q] = req[q]
      BY <1>0, <1>4 DEF Accept, RequestRecord
    <2>2. Present(u) /\ Meant(u, Account(u))
      BY <1>4, Numbers
         DEF Accept, Present, Exists, Meant, Account, Accounted, Identity, Typed, TypeOK
    <2>3. Identity'
      BY <1>4, <2>1, <2>2 DEF Accept, Accounted, Identity, Meant, accounts, mail
    <2>4. Overlapping'
      BY <1>4, <2>1, <2>2
         DEF Accept, Accounted, Overlapping, Marked, Present, Exists, accounts, mail
    <2>5. Ordered'
      <3>1. pc[r] = "check" /\ UNCHANGED config
        BY <1>4 DEF Accept
      <3>2. QED
        BY <2>1, <3>1 DEF Accounted, Ordered, Loaded, config
    <2>6. QED
      BY <2>3, <2>4, <2>5 DEF Accounted
  <1>5. CASE ClearLoginAttempts(r)
    <2>1. /\ pc[r] = "clear" /\ pc'[r] = "create"
          /\ \A q \in Request : q # r => pc'[q] = pc[q]
      BY <1>0, <1>5 DEF ClearLoginAttempts
    <2>2. Identity'
      BY <1>5, <2>1
         DEF ClearLoginAttempts, Accounted, Identity, Meant, Known, accounts, mail
    <2>3. Overlapping'
      BY <1>5, <2>1
         DEF ClearLoginAttempts, Accounted, Overlapping, Marked, Present, Exists, accounts, mail
    <2>4. Ordered'
      BY <1>5, <2>1 DEF ClearLoginAttempts, Accounted, Ordered, Loaded, config
    <2>5. QED
      BY <2>2, <2>3, <2>4 DEF Accounted
  <1>6. CASE CreateAuthSession(r)
    <2>1. PICK c \in Cookie :
             session' = [session EXCEPT ![c] =
               [user |-> req[r].user, who |-> req[r].who, stray |-> req[r].stray,
                expires |-> now + SessionLife]]
      BY <1>6 DEF CreateAuthSession
    <2>2. /\ session'[c].user = req[r].user /\ session'[c].who = req[r].who
          /\ session'[c].stray = req[r].stray
          /\ \A b \in Cookie : b # c => session'[b] = session[b]
      BY <2>1 DEF Typed, TypeOK
    <2>3. /\ pc[r] = "create" /\ pc'[r] = "idle"
          /\ \A q \in Request : q # r => pc'[q] = pc[q] /\ req'[q] = req[q]
      BY <1>0, <1>6 DEF CreateAuthSession
    <2>4. Identity'
      BY <1>6, <2>2, <2>3
         DEF CreateAuthSession, Accounted, Identity, Meant, Known, accounts, mail
    <2>5. Overlapping'
      BY <1>6, <2>2, <2>3
         DEF CreateAuthSession, Accounted, Overlapping, Marked, Present, Exists, accounts, mail
    <2>6. Ordered'
      BY <1>6, <2>3 DEF CreateAuthSession, Accounted, Ordered, Loaded, config
    <2>7. QED
      BY <2>4, <2>5, <2>6 DEF Accounted
  <1>7. QED
    BY <1>1, <1>2, <1>3, <1>4, <1>5, <1>6 DEF handleLogin

LEMMA AccountedServe ==
    ASSUME Typed, Accounted, NEW r \in Request, Serve(r)
    PROVE  Accounted'
  <1> USE DEF End, Goto
  <1>0. /\ Step = {"idle", "count", "check", "expire", "record", "clear", "create", "serve", "apply"}
        /\ req \in [Request -> RequestRecord] /\ pc \in [Request -> Step]
        /\ session \in [Cookie -> SessionRow \cup {NoSession}]
    BY DEF Step, Typed, TypeOK
  <1>1. ASSUME NEW c \in Cookie, Authenticate(r, c) PROVE Accounted'
    <2>1. CASE UNCHANGED requests /\ session' = [session EXCEPT ![c] = NoSession]
      <3>1. \A b \in Cookie : session'[b] \in {session[b], NoSession}
        BY <1>0, <2>1
      <3>2. Identity'
        BY <1>1, <2>1, <3>1
           DEF Authenticate, Accounted, Identity, Meant, requests, accounts, mail
      <3>3. Overlapping'
        BY <1>1, <2>1, <3>1
           DEF Authenticate, Accounted, Overlapping, Marked, Present, Exists, requests, accounts, mail
      <3>4. Ordered'
        BY <1>1, <2>1 DEF Authenticate, Accounted, Ordered, Loaded, requests, config
      <3>5. QED
        BY <3>2, <3>3, <3>4 DEF Accounted
    <2>2. CASE /\ req' = [req EXCEPT ![r] = [NoRequest EXCEPT !.user = session[c].user,
                                                            !.who = session[c].who]]
               /\ Goto(r, "serve")
               /\ UNCHANGED session
      <3>1. /\ pc[r] = "idle" /\ pc'[r] = "serve"
            /\ req'[r].user = session[c].user /\ req'[r].who = session[c].who
            /\ \A q \in Request : q # r => pc'[q] = pc[q] /\ req'[q] = req[q]
        BY <1>0, <1>1, <2>2 DEF Authenticate, NoRequest
      <3>2. Meant(session[c].user, session[c].who)
        BY <1>1 DEF Authenticate, Accounted, Identity
      <3>3. Identity'
        BY <1>1, <2>2, <3>1, <3>2
           DEF Authenticate, Accounted, Identity, Meant, accounts, mail
      <3>4. Overlapping'
        BY <1>1, <2>2, <3>1
           DEF Authenticate, Accounted, Overlapping, Marked, Present, Exists, accounts, mail
      <3>5. Ordered'
        BY <1>1, <3>1 DEF Authenticate, Accounted, Ordered, Loaded, config
      <3>6. QED
        BY <3>3, <3>4, <3>5 DEF Accounted
    <2>3. QED
      BY <1>1, <2>1, <2>2 DEF Authenticate
  <1>2. CASE DeleteMessages(r)
    BY <1>0, <1>2, QuietStep DEF DeleteMessages, Known
  <1>3. CASE CreateUser(r)
    <2>1. /\ created \in Nat /\ created + 1 \in User /\ created' = created + 1
          /\ users' = [users EXCEPT ![created + 1] = created + 1]
      BY <1>3, Numbers DEF CreateUser, NextId, Typed, TypeOK
    <2>2. /\ users'[created + 1] = created + 1
          /\ \A u \in User : u # created + 1 => users'[u] = users[u]
      BY <2>1 DEF Typed, TypeOK
    <2>3. \A u : Present(u) => Present(u)'
      BY <2>1, <2>2 DEF Present, Exists
    <2>4. \A u \in {Admin} \cup User : \A w : Meant(u, w) => Meant(u, w)'
      BY <2>1, Numbers DEF Meant
    <2>5. /\ pc[r] = "serve" /\ pc'[r] = "idle"
          /\ \A q \in Request : q # r => pc'[q] = pc[q] /\ req'[q] = req[q]
      BY <1>0, <1>3 DEF CreateUser, ServeAs
    <2>6. Identity'
      <3>1. \A u \in User : users'[u] \in {0, u} /\ (u > created' => users'[u] = 0)
        BY <2>1, <2>2, Numbers DEF Accounted, Identity
      <3>2. /\ \A c \in Cookie : session[c] # NoSession => session[c].user \in {Admin} \cup User
            /\ \A d \in Delivery : inbound[d] # NoMail => inbound[d].owner \in {Admin} \cup User
            /\ \A m \in store : m.owner \in {Admin} \cup User
            /\ \A q \in Request : pc[q] \in Known => req[q].user \in {Admin} \cup User
        BY DEF Typed, TypeOK, Coherent, SessionRow, Envelope
      <3>3. QED
        BY <1>3, <2>4, <2>5, <3>1, <3>2 DEF CreateUser, Accounted, Identity, mail, Known
    <2>7. Overlapping'
      BY <1>3, <2>3, <2>5 DEF CreateUser, Accounted, Overlapping, Marked, mail
    <2>8. Ordered'
      BY <1>3, <2>5 DEF CreateUser, Accounted, Ordered, Loaded, config
    <2>9. QED
      BY <2>6, <2>7, <2>8 DEF Accounted
  <1>4. ASSUME NEW u \in User, DeleteUser(r, u) PROVE Accounted'
    <2>1. /\ created' = created /\ users'[u] = 0
          /\ \A v \in User : v # u => users'[v] = users[v]
      BY <1>4 DEF DeleteUser, Typed, TypeOK
    <2>2. \A v : Present(v) /\ v # u => Present(v)'
      BY <2>1 DEF Present, Exists
    <2>3. \A c \in Cookie : session'[c] # NoSession =>
             session'[c] = session[c] /\ session[c].user # u
      BY <1>4 DEF DeleteUser, SessionsWithout
    <2>4. \A q \in Request : q # r =>
             /\ pc'[q] = pc[q] /\ req'[q].user = req[q].user /\ req'[q].who = req[q].who
             /\ req'[q].row = req[q].row
             /\ (req[q].stray \/ (req[q].user = u /\ pc[q] # "serve")) => req'[q].stray
      <3> SUFFICES ASSUME NEW q \in Request, q # r
                   PROVE  /\ pc'[q] = pc[q] /\ req'[q].user = req[q].user
                          /\ req'[q].who = req[q].who /\ req'[q].row = req[q].row
                          /\ (req[q].stray \/ (req[q].user = u /\ pc[q] # "serve"))
                             => req'[q].stray
        OBVIOUS
      <3> DEFINE s == req[q].stray \/ (req[q].user = u /\ pc[q] # "serve")
      <3>1. pc'[q] = pc[q]
        BY <1>0, <1>4 DEF DeleteUser
      <3>2. req'[q] = [req[q] EXCEPT !.stray = s] /\ req[q] \in RequestRecord
        BY <1>0, <1>4 DEF DeleteUser
      <3> HIDE DEF s
      <3>3. /\ req'[q].user = req[q].user /\ req'[q].who = req[q].who
            /\ req'[q].row = req[q].row /\ req'[q].stray = s
        BY <3>2 DEF RequestRecord
      <3>4. QED
        BY <3>1, <3>3 DEF s
    <2>5. pc[r] = "serve" /\ pc'[r] = "idle"
      BY <1>0, <1>4 DEF DeleteUser, ServeAs
    <2>6. ASSUME NEW d \in Delivery, inbound'[d] # NoMail
          PROVE  /\ inbound[d] # NoMail
                 /\ inbound'[d].owner = inbound[d].owner /\ inbound'[d].who = inbound[d].who
                 /\ (inbound[d].owner = u \/ inbound[d].stray) => inbound'[d].stray
      <3>1. inbound[d] # NoMail => inbound[d] \in Envelope
        BY DEF Typed, TypeOK
      <3>2. QED
        BY <1>4, <2>6, <3>1 DEF DeleteUser, Envelope
    <2>7. \A m \in store' : m \in store /\ m.owner # u
      BY <1>4 DEF DeleteUser
    <2>8. Identity'
      <3>1. \A v \in User : users'[v] \in {0, v} /\ (v > created' => users'[v] = 0)
        BY <2>1 DEF Accounted, Identity
      <3>2. QED
        BY <2>1, <2>3, <2>4, <2>5, <2>6, <2>7, <3>1 DEF Accounted, Identity, Meant, Known
    <2>9. Overlapping'
      BY <2>2, <2>3, <2>4, <2>5, <2>6, <2>7 DEF Accounted, Overlapping, Marked
    <2>10. Ordered'
      BY <1>4, <2>4, <2>5 DEF DeleteUser, Accounted, Ordered, Loaded, config
    <2>11. QED
      BY <2>8, <2>9, <2>10 DEF Accounted
  <1>5. ASSUME NEW s \in Settings, SaveAppSettings(r, s) PROVE Accounted'
    <2>1. /\ pc[r] = "serve" /\ pc'[r] = "apply" /\ req'[r].row = Global(s)
          /\ \A q \in Request : q # r => pc'[q] = pc[q] /\ req'[q] = req[q]
      BY <1>0, <1>5 DEF SaveAppSettings, ServeAs, RequestRecord
    <2>2. Identity'
      BY <1>5, <2>1 DEF SaveAppSettings, Accounted, Identity, Meant, Known, accounts, mail
    <2>3. Overlapping'
      BY <1>5, <2>1
         DEF SaveAppSettings, Accounted, Overlapping, Marked, Present, Exists, accounts, mail
    <2>4. Ordered'
      <3>1. /\ saved' = Global(s) /\ latest' = {Global(s)} \cup Pending
            /\ policy' = policy /\ Global(s) # NoRow
        BY <1>5, AccessAssumption DEF SaveAppSettings, Global
      <3>2. \A q \in Request : q # r /\ pc[q] = "apply" => req[q].row \in Pending
        BY DEF Pending
      <3>3. QED
        BY <2>1, <3>1, <3>2 DEF Accounted, Ordered, Loaded
    <2>5. QED
      BY <2>2, <2>3, <2>4 DEF Accounted
  <1>6. CASE Apply(r)
    <2>1. /\ pc[r] = "apply" /\ pc'[r] = "idle" /\ applied' = req[r].row
          /\ \A q \in Request : q # r => pc'[q] = pc[q] /\ req'[q] = req[q]
      BY <1>0, <1>6 DEF Apply
    <2>3. Identity'
      BY <1>6, <2>1 DEF Apply, Accounted, Identity, Meant, Known, accounts, mail
    <2>4. Overlapping'
      BY <1>6, <2>1 DEF Apply, Accounted, Overlapping, Marked, Present, Exists, accounts, mail
    <2>5. Ordered'
      BY <1>6, <2>1 DEF Apply, Accounted, Ordered, Loaded
    <2>6. QED
      BY <2>3, <2>4, <2>5 DEF Accounted
  <1>7. QED
    BY <1>1, <1>2, <1>3, <1>4, <1>5, <1>6 DEF Serve

LEMMA AccountedStep == Typed /\ Accounted /\ [Next]_vars => Accounted'
  <1> SUFFICES ASSUME Typed, Accounted, [Next]_vars PROVE Accounted'
    OBVIOUS
  <1>0. /\ session \in [Cookie -> SessionRow \cup {NoSession}]
        /\ inbound \in [Delivery -> Envelope \cup {NoMail}]
    BY DEF Typed, TypeOK
  <1> DEFINE Same == UNCHANGED <<accounts, requests, config>>
  <1>a. ASSUME Same
        PROVE  /\ Ordered'
               /\ \A u, w : (Meant(u, w) => Meant(u, w)') /\ (Marked(u, w) => Marked(u, w)')
    BY <1>a DEF Accounted, Ordered, Loaded, Meant, Marked, Present, Exists, accounts, requests, config
  <1>b. ASSUME Same,
               \A c \in Cookie : session'[c] \in {session[c], NoSession},
               \A d \in Delivery : inbound'[d] # NoMail =>
                   Meant(inbound'[d].owner, inbound'[d].who)
                   /\ Marked(inbound'[d].owner, inbound'[d].stray),
               \A m \in store' : Meant(m.owner, m.who) /\ Marked(m.owner, m.stray)
        PROVE  Accounted'
    <2>1. Identity'
      BY <1>a, <1>b DEF Accounted, Identity, accounts, requests
    <2>2. Overlapping'
      BY <1>a, <1>b DEF Accounted, Overlapping, requests
    <2>3. QED
      BY <1>a, <1>b, <2>1, <2>2 DEF Accounted
  <1>c. /\ \A d \in Delivery : inbound[d] # NoMail =>
                 Meant(inbound[d].owner, inbound[d].who)
                 /\ Marked(inbound[d].owner, inbound[d].stray)
        /\ \A m \in store : Meant(m.owner, m.who) /\ Marked(m.owner, m.stray)
    BY DEF Accounted, Identity, Overlapping
  <1>1. ASSUME NEW r \in Request, Fail(r) PROVE Accounted'
    <2>1. "idle" \in Step /\ "idle" \notin Known \cup {"apply"}
      BY DEF Step, Known
    <2>2. QED
      BY <1>1, <2>1, QuietStep DEF Fail, End, Goto, Typed, TypeOK, mail
  <1>2. ASSUME NEW c \in Cookie, DeleteAuthSession(c) PROVE Accounted'
    BY <1>0, <1>2, <1>b, <1>c DEF DeleteAuthSession, mail
  <1>3. ASSUME NEW d \in Delivery, NEW u \in {Admin} \cup User, OnData(d, u) PROVE Accounted'
    <2>1. /\ inbound'[d].owner = u /\ inbound'[d].who = Account(u)
          /\ \A e \in Delivery : e # d => inbound'[e] = inbound[e]
      BY <1>0, <1>3 DEF OnData
    <2>2. Meant(u, Account(u)) /\ Present(u)
      BY <1>3, Numbers
         DEF OnData, Present, Exists, Meant, Account, Accounted, Identity, Typed, TypeOK
    <2>3. \A s : Marked(u, s)
      BY <2>2 DEF Marked
    <2>4. QED
      BY <1>3, <1>b, <1>c, <2>1, <2>2, <2>3 DEF OnData
  <1>4. ASSUME NEW d \in Delivery, CreateMessage(d) PROVE Accounted'
    <2>1. \A m \in store' \ store :
             m.owner = inbound[d].owner /\ m.who = inbound[d].who /\ m.stray = inbound[d].stray
      BY <1>4 DEF CreateMessage
    <2>2. \A e \in Delivery : inbound'[e] # NoMail => inbound'[e] = inbound[e]
      BY <1>0, <1>4 DEF CreateMessage
    <2>3. QED
      BY <1>4, <1>b, <1>c, <2>1, <2>2 DEF CreateMessage
  <1>5. ASSUME NEW d \in Delivery, DeliveryFails(d) PROVE Accounted'
    <2>1. \A e \in Delivery : inbound'[e] # NoMail => inbound'[e] = inbound[e]
      BY <1>0, <1>5 DEF DeliveryFails
    <2>2. QED
      BY <1>5, <1>b, <1>c, <2>1 DEF DeliveryFails
  <1>6. CASE Tick
    BY <1>6, <1>b, <1>c DEF Tick, mail
  <1>7. CASE Restart
    <2>1. Identity'
      BY <1>7 DEF Restart, Accounted, Identity, Meant, Known, accounts
    <2>2. Overlapping'
      BY <1>7 DEF Restart, Accounted, Overlapping, Marked, Present, Exists, accounts
    <2>3. Ordered'
      <3>1. /\ \A r \in Request : pc'[r] # "apply"
            /\ saved' = saved /\ applied' = Loaded /\ latest' = {Loaded} /\ policy' = Loaded.smtp
        BY <1>7 DEF Restart
      <3>2. Loaded' = Loaded
        BY <3>1 DEF Loaded
      <3>3. Loaded.smtp \in {EnvLimits, Open} /\ (saved = NoRow => Loaded.smtp = EnvLimits)
        BY DEF Accounted, Ordered, Loaded, Global, envAppSettings
      <3>4. QED
        BY <3>1, <3>2, <3>3 DEF Accounted, Ordered, Global
    <2>4. QED
      BY <2>1, <2>2, <2>3 DEF Accounted
  <1>8. CASE UNCHANGED vars
    BY <1>8, <1>b, <1>c DEF vars, mail
  <1>9. QED
    BY <1>1, <1>2, <1>3, <1>4, <1>5, <1>6, <1>7, <1>8, AccountedLogin, AccountedServe DEF Next

THEOREM Invariance == Spec => [](Typed /\ Accounted)
  BY InitTyped, InitAccounted, TypedStep, AccountedStep, PTL DEF Spec

(* A user sees no mail of another account, whatever accounts were deleted  *)
(* and created since the login (auth.go:67-73, sqlite.go:469-504).         *)
THEOREM Separation == Spec => []OwnMailOnly
  <1>1. ASSUME Typed, Accounted, NEW u, NEW who, Meant(u, who) PROVE SeesOwn(u, who)
    BY <1>1, Numbers DEF SeesOwn, Visible, Meant, Accounted, Identity
  <1>2. Typed /\ Accounted => OwnMailOnly
    BY <1>1 DEF OwnMailOnly, Accounted, Identity, Known
  <1>3. QED
    BY <1>2, Invariance, PTL

(* Nothing of a deleted user stays, but for what overlapped its deletion   *)
(* (sqlite.go:561-592).                                                    *)
THEOREM CleanDeletion == Spec => []NothingSurvivesItsUser
  <1>1. Accounted => NothingSurvivesItsUser
    BY DEF Accounted, Overlapping, Marked, NothingSurvivesItsUser
  <1>2. QED
    BY <1>1, Invariance, PTL

(* Between updates, manager and restart have nothing older than the last    *)
(* update and those it overlapped, and the SMTP server has the restrictions *)
(* of a restart or those of the environment (service.go:113-126,            *)
(* main.go:94-106).                                                         *)
THEOREM SettingsNeverOld == Spec => []NoOldSettings
  <1>1. Typed /\ Accounted => NoOldSettings
    <2> SUFFICES ASSUME Typed, Accounted, Pending = {} PROVE NoOldSettings
      BY DEF NoOldSettings
    <2>1. \A r \in Request : pc[r] # "apply"
      BY DEF Pending
    <2>2. {applied, Loaded} \subseteq latest
      BY <2>1 DEF Accounted, Ordered
    <2>3. CASE saved = NoRow
      BY <2>2, <2>3 DEF NoOldSettings, Accounted, Ordered, Loaded, envAppSettings
    <2>4. ASSUME NEW s \in Settings, saved # NoRow, saved = Global(s) PROVE NoOldSettings
      <3>1. Loaded.smtp = Open /\ Loaded.web = s /\ Loaded = Global(s)
        BY <2>4 DEF Loaded, Global
      <3>2. policy \in {EnvLimits, Open}
        BY DEF Accounted, Ordered
      <3>3. QED
        BY <2>2, <3>1, <3>2 DEF NoOldSettings
    <2>5. QED
      BY <2>3, <2>4 DEF Accounted, Ordered
  <1>2. QED
    BY <1>1, Invariance, PTL

-----------------------------------------------------------------------------
(* The limit on logins.  A request that has passed the count is itself one *)
(* of the requests that the bound allows on top of the limit.              *)
Clocked ==
    /\ IsFiniteSet(attempts)
    /\ \A r \in Request : req[r].at <= now

LEMMA FewGuess ==
    ASSUME NEW c
    PROVE  /\ IsFiniteSet(Request) /\ Cardinality(Request) \in Nat
           /\ IsFiniteSet(Guessing(c)) /\ Cardinality(Guessing(c)) \in Nat
           /\ Cardinality(Guessing(c)) <= Cardinality(Request)
  <1>1. IsFiniteSet(Request) /\ Guessing(c) \subseteq Request
    BY AccessAssumption DEF Guessing
  <1>2. QED
    BY <1>1, FS_Subset, FS_CardinalityType

\* A set of attempts that shrinks, and the requests that may be wrong as well.
LEMMA Fewer ==
    ASSUME NEW S, NEW T, IsFiniteSet(S), T \subseteq S
    PROVE  /\ IsFiniteSet(T) /\ Cardinality(T) \in Nat /\ Cardinality(S) \in Nat
           /\ Cardinality(T) <= Cardinality(S)
  BY FS_Subset, FS_CardinalityType

LEMMA ClockedStep == Typed /\ Clocked /\ [Next]_vars => Clocked'
  <1> SUFFICES ASSUME Typed, Clocked, [Next]_vars PROVE Clocked'
    OBVIOUS
  <1>0. /\ now \in Nat /\ pc \in [Request -> Step] /\ req \in [Request -> RequestRecord]
        /\ \A r \in Request : req[r].at \in Nat
    BY AccessAssumption DEF Typed, TypeOK, RequestRecord
  <1>1. attempts' \subseteq attempts => IsFiniteSet(attempts')
    BY FS_Subset DEF Clocked
  <1>2. \/ attempts' \subseteq attempts
        \/ \E a : attempts' = attempts \cup {a}
    BY DEF Next, handleLogin, Serve, LoginStart, CountAttempts, Refuse, Accept, RecordExpire,
           RecordLoginAttempt, ClearLoginAttempts, CreateAuthSession, DeleteAuthSession,
           Authenticate, DeleteMessages, CreateUser, DeleteUser, SaveAppSettings, Apply, Fail,
           OnData, CreateMessage, DeliveryFails, Tick, Restart, Recent, vars
  <1>3. IsFiniteSet(attempts')
    BY <1>1, <1>2, FS_AddElement DEF Clocked
  <1>4. Tick \/ now' = now
    BY DEF Next, handleLogin, Serve, LoginStart, CountAttempts, Refuse, Accept, RecordExpire,
           RecordLoginAttempt, ClearLoginAttempts, CreateAuthSession, DeleteAuthSession,
           Authenticate, DeleteMessages, CreateUser, DeleteUser, SaveAppSettings, Apply, Fail,
           OnData, CreateMessage, DeliveryFails, Restart, vars
  <1>5. now' \in Nat /\ now <= now'
    BY <1>0, <1>4 DEF Tick
  <1> DEFINE Read == \A q \in Request : req'[q].at \in {0, now, req[q].at}
  <1>a. ASSUME NEW r \in Request, End(r) PROVE Read
    BY <1>0, <1>a DEF End, NoRequest
  <1>b. ASSUME UNCHANGED req PROVE Read
    BY <1>b
  <1>6. ASSUME NEW r \in Request, handleLogin(r) PROVE Read
    <2>1. ASSUME NEW c \in Client, LoginStart(r, c) PROVE Read
      BY <1>0, <2>1 DEF LoginStart, NoRequest
    <2>2. CASE CountAttempts(r)
      BY <1>0, <1>a, <2>2 DEF CountAttempts, RequestRecord
    <2>3. ASSUME NEW u \in {Admin} \cup User, Accept(r, u) PROVE Read
      BY <1>0, <2>3 DEF Accept, RequestRecord
    <2>4. CASE RecordExpire(r)
      BY <1>0, <2>4 DEF RecordExpire, RequestRecord
    <2>5. QED
      BY <1>6, <1>a, <1>b, <2>1, <2>2, <2>3, <2>4
         DEF handleLogin, Refuse, RecordLoginAttempt, ClearLoginAttempts, CreateAuthSession
  <1>7. ASSUME NEW r \in Request, Serve(r) PROVE Read
    <2>1. ASSUME NEW c \in Cookie, Authenticate(r, c) PROVE Read
      BY <1>0, <1>b, <2>1 DEF Authenticate, NoRequest, requests
    <2>2. ASSUME NEW u \in User, DeleteUser(r, u) PROVE Read
      <3>1. ASSUME NEW q \in Request PROVE req'[q].at \in {0, now, req[q].at}
        <4>1. CASE q = r
          BY <2>2, <4>1 DEF DeleteUser, NoRequest
        <4>2. CASE q # r
          <5> DEFINE s == req[q].stray \/ (req[q].user = u /\ pc[q] # "serve")
          <5>1. req'[q] = [req[q] EXCEPT !.stray = s] /\ req[q] \in RequestRecord
            BY <1>0, <2>2, <4>2 DEF DeleteUser
          <5> HIDE DEF s
          <5>2. QED
            BY <5>1 DEF RequestRecord
        <4>3. QED
          BY <4>1, <4>2
      <3>2. QED
        BY <3>1
    <2>3. ASSUME NEW s \in Settings, SaveAppSettings(r, s) PROVE Read
      BY <1>0, <2>3 DEF SaveAppSettings, RequestRecord
    <2>4. QED
      BY <1>7, <1>a, <2>1, <2>2, <2>3 DEF Serve, DeleteMessages, CreateUser, Apply
  <1>8. ASSUME Restart PROVE Read
    <2>1. req' = [r \in Request |-> NoRequest]
      BY <1>8 DEF Restart
    <2>2. \A q \in Request : req'[q].at = 0
      BY <2>1 DEF NoRequest
    <2>3. QED
      BY <2>2
  <1> HIDE DEF Read
  <1>9. Read
    <2>1. CASE \E r \in Request : Fail(r)
      BY <2>1, <1>a DEF Fail
    <2>2. CASE \/ \E c \in Cookie : DeleteAuthSession(c)
               \/ \E d \in Delivery : \/ CreateMessage(d) \/ DeliveryFails(d)
                                      \/ \E u \in {Admin} \cup User : OnData(d, u)
               \/ Tick \/ UNCHANGED vars
      BY <2>2, <1>b
         DEF DeleteAuthSession, OnData, CreateMessage, DeliveryFails, Tick, vars, requests
    <2>3. QED
      BY <2>1, <2>2, <1>6, <1>7, <1>8 DEF Next
  <1>10. QED
    BY <1>0, <1>3, <1>5, <1>9 DEF Clocked, Read

LEMMA ThrottledStep == Typed /\ Clocked /\ Throttled /\ [Next]_vars => Throttled'
  <1> SUFFICES ASSUME Typed, Clocked, Throttled, [Next]_vars, NEW c \in Client
               PROVE  Cardinality(From(c, Recent(now)))' + Cardinality(Guessing(c)')
                         < LoginLimit + Cardinality(Request)
    BY DEF Throttled
  <1> DEFINE A == From(c, Recent(now))
             G == Guessing(c)
  <1>0. /\ now \in Nat /\ now' \in Nat /\ LoginWindow \in Nat /\ LoginLimit \in Nat
        /\ pc \in [Request -> Step] /\ req \in [Request -> RequestRecord]
        /\ \A r \in Request : req[r].at \in Nat
        /\ \A a \in attempts : a.at \in Nat
    <2>1. Typed'
      BY TypedStep
    <2>2. QED
      BY <2>1, AccessAssumption DEF Typed, TypeOK, RequestRecord
  <1>1. /\ IsFiniteSet(A) /\ Cardinality(A) \in Nat
        /\ IsFiniteSet(G) /\ Cardinality(G) \in Nat /\ Cardinality(Request) \in Nat
        /\ Cardinality(A) + Cardinality(G) < LoginLimit + Cardinality(Request)
    <2>1. A \subseteq attempts /\ IsFiniteSet(attempts)
      BY DEF From, Recent, Clocked
    <2>2. QED
      BY <2>1, Fewer, FewGuess DEF Throttled
  \* The address has no new attempt and no new guess.
  <1>a. ASSUME From(c, Recent(now))' \subseteq A, Guessing(c)' \subseteq G
        PROVE  Cardinality(From(c, Recent(now))') + Cardinality(Guessing(c)')
                  < LoginLimit + Cardinality(Request)
    <2>1. Cardinality(From(c, Recent(now))') <= Cardinality(A)
          /\ Cardinality(From(c, Recent(now))') \in Nat
      BY <1>1, <1>a, Fewer
    <2>2. Cardinality(Guessing(c)') <= Cardinality(G) /\ Cardinality(Guessing(c)') \in Nat
      BY <1>1, <1>a, Fewer
    <2>3. QED
      BY <1>0, <1>1, <2>1, <2>2
  <1>b. attempts' \subseteq attempts /\ now' >= now => From(c, Recent(now))' \subseteq A
    BY <1>0 DEF From, Recent
  <1>2. ASSUME NEW r \in Request, CountAttempts(r), ~Limited(req[r].client, req[r].at),
               req[r].client = c
        PROVE  Cardinality(From(c, Recent(now))') + Cardinality(Guessing(c)')
                  < LoginLimit + Cardinality(Request)
    <2>1. attempts' = attempts /\ now' = now
      BY <1>2 DEF CountAttempts
    <2>2. /\ A \subseteq From(c, Recent(req[r].at))
          /\ From(c, Recent(req[r].at)) \subseteq attempts /\ IsFiniteSet(attempts)
          /\ From(c, Recent(now))' = A
      BY <1>0, <2>1 DEF From, Recent, Clocked
    <2>3. IsFiniteSet(From(c, Recent(req[r].at)))
          /\ Cardinality(From(c, Recent(req[r].at))) \in Nat
      BY <2>2, Fewer
    <2>4. Cardinality(A) <= Cardinality(From(c, Recent(req[r].at)))
      BY <2>2, <2>3, Fewer
    <2>5. Cardinality(From(c, Recent(req[r].at))) < LoginLimit
      BY <1>0, <1>2, <2>3 DEF Limited
    <2>6. /\ Guessing(c)' \subseteq Request /\ IsFiniteSet(Request)
      BY AccessAssumption DEF Guessing
    <2>7. Cardinality(Guessing(c)') <= Cardinality(Request) /\ Cardinality(Guessing(c)') \in Nat
      BY <2>6, Fewer
    <2>8. QED
      BY <1>0, <1>1, <2>2, <2>3, <2>4, <2>5, <2>7
  <1>3. ASSUME NEW r \in Request, RecordLoginAttempt(r), req[r].client = c
        PROVE  Cardinality(From(c, Recent(now))') + Cardinality(Guessing(c)')
                  < LoginLimit + Cardinality(Request)
    <2>1. PICK a : attempts' = attempts \cup {a}
      BY <1>3 DEF RecordLoginAttempt
    <2>2. /\ pc[r] = "record" /\ pc' = [pc EXCEPT ![r] = "idle"] /\ now' = now
          /\ \A q \in Request : q # r => req'[q] = req[q]
      BY <1>0, <1>3 DEF RecordLoginAttempt, End, Goto
    <2>3. r \in G /\ Guessing(c)' = G \ {r}
      BY <1>0, <1>3, <2>2 DEF Guessing
    <2>4. Cardinality(Guessing(c)') = Cardinality(G) - 1
      BY <1>1, <2>3, FS_RemoveElement
    <2>5. From(c, Recent(now))' \subseteq A \cup {a}
      BY <2>1, <2>2 DEF From, Recent
    <2>6. /\ IsFiniteSet(A \cup {a}) /\ Cardinality(A \cup {a}) \in Nat
          /\ Cardinality(A \cup {a}) <= Cardinality(A) + 1
      <3>1. CASE a \in A
        <4>1. A \cup {a} = A
          BY <3>1
        <4>2. IsFiniteSet(A \cup {a}) /\ Cardinality(A \cup {a}) = Cardinality(A)
          BY <1>1, <4>1
        <4> HIDE DEF A
        <4>3. QED
          BY <1>1, <4>2
      <3>2. CASE a \notin A
        <4>1. /\ IsFiniteSet(A \cup {a}) /\ Cardinality(A \cup {a}) = Cardinality(A) + 1
          BY <1>1, <3>2, FS_AddElement
        <4>2. QED
          BY <1>1, <4>1
      <3>3. QED
        BY <3>1, <3>2
    <2>7. /\ Cardinality(From(c, Recent(now))') <= Cardinality(A \cup {a})
          /\ Cardinality(From(c, Recent(now))') \in Nat
      BY <2>5, <2>6, Fewer
    <2>8. QED
      BY <1>0, <1>1, <2>4, <2>6, <2>7
  \* A request moves on, and not to where it may be wrong.
  <1> DEFINE Wrong == {"check", "expire", "record"}
             Goal == Cardinality(From(c, Recent(now))') + Cardinality(Guessing(c)')
                        < LoginLimit + Cardinality(Request)
  <1>c. ASSUME NEW r \in Request, NEW s, pc' = [pc EXCEPT ![r] = s],
               s \in Wrong => \/ pc[r] \in Wrong /\ req'[r].client = req[r].client
                              \/ req'[r].client # c,
               \A q \in Request : q # r => req'[q].client = req[q].client,
               attempts' \subseteq attempts, now' >= now
        PROVE  Goal
    <2>1. Guessing(c)' \subseteq G
      BY <1>0, <1>c DEF Guessing
    <2>2. QED
      BY <1>a, <1>b, <1>c, <2>1
  <1>d. ASSUME UNCHANGED requests, attempts' \subseteq attempts, now' >= now PROVE Goal
    <2>1. Guessing(c)' \subseteq G
      BY <1>d DEF Guessing, requests
    <2>2. QED
      BY <1>a, <1>b, <1>d, <2>1
  <1>e. ASSUME NEW r \in Request, End(r), attempts' \subseteq attempts, now' >= now PROVE Goal
    <2>1. /\ pc' = [pc EXCEPT ![r] = "idle"]
          /\ \A q \in Request : q # r => req'[q].client = req[q].client
      BY <1>0, <1>e DEF End, Goto
    <2>2. QED
      BY <1>c, <1>e, <2>1
  <1>4. ASSUME NEW r \in Request, handleLogin(r) PROVE Goal
    <2>1. ASSUME NEW k \in Client, LoginStart(r, k) PROVE Goal
      <3>1. /\ pc' = [pc EXCEPT ![r] = "count"] /\ attempts' \subseteq attempts /\ now' >= now
            /\ \A q \in Request : q # r => req'[q].client = req[q].client
        BY <1>0, <2>1 DEF LoginStart, Goto, Recent
      <3>2. QED
        BY <1>c, <3>1
    <2>2. CASE CountAttempts(r)
      <3>1. now' >= now /\ attempts' = attempts
        BY <1>0, <2>2 DEF CountAttempts
      <3>2. CASE End(r)
        BY <1>e, <3>1, <3>2
      <3>3. CASE /\ ~Limited(req[r].client, req[r].at) /\ Goto(r, "check")
                 /\ req' = [req EXCEPT ![r].at = 0]
        <4>1. \A q \in Request : req'[q].client = req[q].client
          BY <1>0, <3>3 DEF RequestRecord
        <4>2. QED
          BY <1>2, <1>c, <2>2, <3>1, <3>3, <4>1 DEF Goto
      <3>4. QED
        BY <2>2, <3>2, <3>3 DEF CountAttempts
    <2>3. CASE Refuse(r)
      <3>1. /\ pc[r] = "check" /\ pc' = [pc EXCEPT ![r] = "expire"] /\ req' = req
            /\ attempts' = attempts /\ now' >= now
        BY <1>0, <2>3 DEF Refuse, Goto
      <3>2. QED
        BY <1>c, <3>1
    <2>4. ASSUME NEW u \in {Admin} \cup User, Accept(r, u) PROVE Goal
      <3>1. /\ pc' = [pc EXCEPT ![r] = "clear"] /\ attempts' = attempts /\ now' >= now
            /\ \A q \in Request : q # r => req'[q].client = req[q].client
        BY <1>0, <2>4 DEF Accept, Goto
      <3>2. QED
        BY <1>c, <3>1
    <2>5. CASE RecordExpire(r)
      <3>1. /\ pc[r] = "expire" /\ pc' = [pc EXCEPT ![r] = "record"]
            /\ attempts' \subseteq attempts /\ now' >= now
            /\ \A q \in Request : req'[q].client = req[q].client
        BY <1>0, <2>5 DEF RecordExpire, Goto, Recent, RequestRecord
      <3>2. QED
        BY <1>c, <3>1
    <2>6. CASE RecordLoginAttempt(r)
      <3>1. CASE req[r].client = c
        BY <1>3, <2>6, <3>1
      <3>2. CASE req[r].client # c
        <4>1. From(c, Recent(now))' \subseteq A
          BY <2>6, <3>2 DEF RecordLoginAttempt, From, Recent
        <4>2. Guessing(c)' \subseteq G
          BY <1>0, <2>6 DEF RecordLoginAttempt, End, Goto, Guessing
        <4>3. QED
          BY <1>a, <4>1, <4>2
      <3>3. QED
        BY <3>1, <3>2
    <2>7. CASE ClearLoginAttempts(r)
      <3>1. /\ pc' = [pc EXCEPT ![r] = "create"] /\ req' = req
            /\ attempts' \subseteq attempts /\ now' >= now
        BY <1>0, <2>7 DEF ClearLoginAttempts, Goto
      <3>2. QED
        BY <1>c, <3>1
    <2>8. CASE CreateAuthSession(r)
      BY <1>0, <1>e, <2>8 DEF CreateAuthSession
    <2>9. QED
      BY <1>4, <2>1, <2>2, <2>3, <2>4, <2>5, <2>6, <2>7, <2>8 DEF handleLogin
  <1>5. ASSUME NEW r \in Request, Serve(r) PROVE Goal
    <2>1. ASSUME NEW k \in Cookie, Authenticate(r, k) PROVE Goal
      <3>1. attempts' = attempts /\ now' >= now
        BY <1>0, <2>1 DEF Authenticate
      <3>2. \/ UNCHANGED requests
            \/ /\ pc' = [pc EXCEPT ![r] = "serve"]
               /\ \A q \in Request : q # r => req'[q].client = req[q].client
        BY <1>0, <2>1 DEF Authenticate, Goto
      <3>3. QED
        BY <1>c, <1>d, <3>1, <3>2
    <2>2. ASSUME NEW u \in User, DeleteUser(r, u) PROVE Goal
      <3>1. /\ pc' = [pc EXCEPT ![r] = "idle"] /\ attempts' = attempts /\ now' >= now
        BY <1>0, <2>2 DEF DeleteUser, Goto
      <3>2. ASSUME NEW q \in Request, q # r PROVE req'[q].client = req[q].client
        <4> DEFINE s == req[q].stray \/ (req[q].user = u /\ pc[q] # "serve")
        <4>1. req'[q] = [req[q] EXCEPT !.stray = s] /\ req[q] \in RequestRecord
          BY <1>0, <2>2, <3>2 DEF DeleteUser
        <4> HIDE DEF s
        <4>2. QED
          BY <4>1 DEF RequestRecord
      <3>3. QED
        BY <1>c, <3>1, <3>2
    <2>3. ASSUME NEW s \in Settings, SaveAppSettings(r, s) PROVE Goal
      <3>1. /\ pc' = [pc EXCEPT ![r] = "apply"] /\ attempts' = attempts /\ now' >= now
            /\ \A q \in Request : q # r => req'[q].client = req[q].client
        BY <1>0, <2>3 DEF SaveAppSettings, Goto
      <3>2. QED
        BY <1>c, <3>1
    <2>4. CASE DeleteMessages(r) \/ CreateUser(r) \/ Apply(r)
      BY <1>0, <1>e, <2>4 DEF DeleteMessages, CreateUser, Apply
    <2>5. QED
      BY <1>5, <2>1, <2>2, <2>3, <2>4 DEF Serve
  <1>6. ASSUME NEW r \in Request, Fail(r) PROVE Goal
    BY <1>0, <1>e, <1>6 DEF Fail
  <1>7. ASSUME \/ \E k \in Cookie : DeleteAuthSession(k)
               \/ \E d \in Delivery : \/ CreateMessage(d) \/ DeliveryFails(d)
                                      \/ \E u \in {Admin} \cup User : OnData(d, u)
               \/ Tick \/ UNCHANGED vars
        PROVE  Goal
    <2>1. UNCHANGED requests /\ attempts' = attempts /\ now' >= now
      BY <1>0, <1>7 DEF DeleteAuthSession, OnData, CreateMessage, DeliveryFails, Tick, vars
    <2>2. QED
      BY <1>d, <2>1
  <1>8. ASSUME Restart PROVE Goal
    <2>1. Guessing(c)' \subseteq G /\ attempts' = attempts /\ now' >= now
      BY <1>0, <1>8 DEF Restart, Guessing
    <2>2. QED
      BY <1>a, <1>b, <2>1
  <1> HIDE DEF Goal
  <1>9. Goal
    BY <1>4, <1>5, <1>6, <1>7, <1>8 DEF Next
  <1>10. QED
    BY <1>9 DEF Goal

(* Wrong passwords of an address, recorded or still being checked, exceed  *)
(* the limit by less than the number of requests that can run at once      *)
(* (auth.go:223-242).                                                      *)
THEOREM LoginsThrottled == Spec => []Throttled
  <1>1. Init => Clocked
    BY FS_EmptySet DEF Init, Clocked, NoRequest
  <1>2. Init => Throttled
    <2> SUFFICES ASSUME Init, NEW c \in Client
                 PROVE  Cardinality(From(c, Recent(now))) + Cardinality(Guessing(c))
                           < LoginLimit + Cardinality(Request)
      BY DEF Throttled
    <2>1. From(c, Recent(now)) = {} /\ Guessing(c) = {}
      BY DEF Init, From, Recent, Guessing
    <2>2. QED
      BY <2>1, FS_EmptySet, FewGuess, AccessAssumption
  <1>3. QED
    BY <1>1, <1>2, InitTyped, TypedStep, ClockedStep, ThrottledStep, PTL DEF Spec
-----------------------------------------------------------------------------
(* What a step may never do.                                               *)

\* The steps that take mail away, and those that write the users.
LEMMA MailShrinks ==
    ASSUME [Next]_vars
    PROVE  \/ store \subseteq store'
           \/ \E r \in Request : DeleteMessages(r) \/ \E u \in User : DeleteUser(r, u)
  BY DEF Next, handleLogin, Serve, LoginStart, CountAttempts, Refuse, Accept, RecordExpire,
         RecordLoginAttempt, ClearLoginAttempts, CreateAuthSession, DeleteAuthSession,
         Authenticate, CreateUser, SaveAppSettings, Apply, Fail, OnData, CreateMessage,
         DeliveryFails, Tick, Restart, mail, vars

LEMMA UsersChange ==
    ASSUME [Next]_vars
    PROVE  \/ UNCHANGED accounts
           \/ \E r \in Request : CreateUser(r) \/ \E u \in User : DeleteUser(r, u)
  BY DEF Next, handleLogin, Serve, LoginStart, CountAttempts, Refuse, Accept, RecordExpire,
         RecordLoginAttempt, ClearLoginAttempts, CreateAuthSession, DeleteAuthSession,
         Authenticate, DeleteMessages, SaveAppSettings, Apply, Fail, OnData, CreateMessage,
         DeliveryFails, Tick, Restart, vars

\* A request in the name of the account the message is for, or of the
\* administrator.
Entitled(r, m) == pc[r] = "serve" /\ (req[r].user = Admin \/ req[r].who = m.who)

(* auth.go:67-73 with sqlite.go:872-875, 957-960 and 561-592.  No request   *)
(* takes mail away that is not its own account's: not one whose principal   *)
(* was learned before its user was deleted, and not one of a user created   *)
(* since.                                                                   *)
THEOREM MailGoesByItsOwner ==
    Spec => [][\A m \in store \ store' : \E r \in Request : Entitled(r, m)]_vars
  <1>1. ASSUME Typed, Accounted, [Next]_vars, NEW m \in store \ store'
        PROVE  \E r \in Request : Entitled(r, m)
    <2>1. PICK r \in Request : DeleteMessages(r) \/ \E u \in User : DeleteUser(r, u)
      BY <1>1, MailShrinks
    <2>2. CASE DeleteMessages(r)
      <3>1. pc[r] = "serve" /\ m \in Visible(req[r].user)
        BY <1>1, <2>2 DEF DeleteMessages
      <3>2. Meant(m.owner, m.who) /\ Meant(req[r].user, req[r].who)
        BY <1>1, <3>1 DEF Accounted, Identity, Known
      <3>3. QED
        BY <3>1, <3>2 DEF Visible, Meant, Entitled
    <2>3. CASE \E u \in User : DeleteUser(r, u)
      BY <2>3 DEF DeleteUser, ServeAs, Entitled
    <2>4. QED
      BY <2>1, <2>2, <2>3
  <1>2. Typed /\ Accounted /\ [Next]_vars =>
           [\A m \in store \ store' : \E r \in Request : Entitled(r, m)]_vars
    BY <1>1
  <1>3. QED
    BY <1>2, Invariance, PTL DEF Spec

\* An id that has been given out keeps its account until that is deleted, and
\* has none from then on.
Settled(u) ==
    /\ users[u] # 0 => users'[u] \in {0, users[u]}
    /\ users[u] = 0 /\ u <= created => users'[u] = 0

(* sqlite.go:127-134.  AUTOINCREMENT, as everything that remembers an id    *)
(* relies on it: sessions, requests and deliveries under way, and mail.     *)
THEOREM IdsAreForever == Spec => [][created <= created' /\ \A u \in User : Settled(u)]_vars
  <1>1. ASSUME Typed, Accounted, [Next]_vars
        PROVE  created <= created' /\ \A u \in User : Settled(u)
    <2>1. created \in Nat /\ users \in [User -> Nat]
      BY <1>1, AccessAssumption DEF Typed, TypeOK
    <2>2. CASE UNCHANGED accounts
      BY <2>1, <2>2 DEF accounts, Settled
    <2>3. ASSUME NEW r \in Request, CreateUser(r)
          PROVE  created <= created' /\ \A u \in User : Settled(u)
      <3>1. users' = [users EXCEPT ![created + 1] = created + 1] /\ created' = created + 1
        BY <2>3 DEF CreateUser, NextId
      <3>2. \A u \in User : u > created => users[u] = 0
        BY <1>1 DEF Accounted, Identity
      <3>3. ASSUME NEW u \in User PROVE Settled(u)
        <4>1. CASE u = created + 1
          BY <2>1, <3>2, <4>1 DEF Settled
        <4>2. CASE u # created + 1
          BY <2>1, <3>1, <4>2 DEF Settled
        <4>3. QED
          BY <4>1, <4>2
      <3>4. QED
        BY <2>1, <3>1, <3>3
    <2>4. ASSUME NEW r \in Request, NEW u \in User, DeleteUser(r, u)
          PROVE  created <= created' /\ \A v \in User : Settled(v)
      BY <2>1, <2>4 DEF DeleteUser, Settled
    <2>5. QED
      BY <1>1, <2>2, <2>3, <2>4, UsersChange
  <1>2. Typed /\ Accounted /\ [Next]_vars =>
           [created <= created' /\ \A u \in User : Settled(u)]_vars
    BY <1>1
  <1>3. QED
    BY <1>2, Invariance, PTL DEF Spec
=============================================================================
