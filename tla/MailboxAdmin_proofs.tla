------------------------ MODULE MailboxAdmin_proofs ------------------------
(***************************************************************************)
(* What the administration API keeps when requests come one at a time      *)
(* (Alone): exclusive recipients, distinct names, and expiry dates that    *)
(* follow the settings.  Deliveries and the retention worker run all the   *)
(* while.  With two requests the first two fail, as MailboxAdmin_ownership *)
(* shows; Alone is what the proof needs at the step that saves.            *)
(***************************************************************************)
EXTENDS MailboxAdmin, MailboxPolicy_proofs, TLAPS

\* Requests are served one at a time.
Alone == \A r, s \in Request : r = s

Busy(r) == pc[r] # "idle"

\* What a request asks for.
RequestOK ==
    \A r \in Request : Busy(r) =>
        /\ req[r].op = "create" <=> req[r].owner = NoId
        /\ Named(req[r].op) <=> req[r].name # NoName
        /\ pc[r] = "name" => Named(req[r].op)
        /\ pc[r] \in {"password", "list", "apply"} => req[r].owner \in Owner

\* What has been validated so far still holds.
ValidatedOK ==
    \A r \in Request :
        /\ /\ pc[r] \in {"users", "name", "save"}
           /\ req[r].owner # Admin
           => ~Conflict(req[r].row.rcpt, Admin)
        /\ pc[r] \in {"name", "save"} =>
              \A u \in Others(r) : ~Conflict(req[r].row.rcpt, u)
        /\ pc[r] = "save" /\ Named(req[r].op) =>
              /\ Fold[req[r].name] # Reserved
              /\ \A u \in Others(r) : Fold[users[u]] # Fold[req[r].name]

\* Messages have ids of their own.
IdsOK ==
    /\ \A m \in store : m.id <= lastId
    /\ \A m, n \in store : m.id = n.id => m = n

\* What a delivery has read is what the settings say.
ReadOK == \A d \in Delivery : \A x \in inbound[d] : x.old \/ x.keep = daysKept(x.owner)

\* There is no mail for a user that is yet to be created.
FreshOK ==
    /\ \A m \in store : m.owner <= lastUser
    /\ \A d \in Delivery : \A x \in inbound[d] : x.owner <= lastUser

\* What a request is about to apply is what the settings say, and it applies
\* it to messages of one owner.
PendingOK ==
    \A r \in Request :
        /\ pc[r] \in {"password", "list", "apply"} => daysKept(req[r].owner) = req[r].row.days
        /\ pc[r] = "apply" =>
              /\ \A i \in req[r].list : i <= lastId
              /\ \A m \in store : m.id \in req[r].list => m.owner = req[r].owner

IInv ==
    /\ TypeOK
    /\ RequestOK
    /\ ValidatedOK
    /\ ExclusiveOwnership
    /\ NamesDistinct
    /\ IdsOK
    /\ ReadOK
    /\ FreshOK
    /\ PendingOK
    /\ RetentionFollows
----------------------------------------------------------------------------
(* Types.                                                                   *)
Read    == [owner : Owner, keep : Nat, old : BOOLEAN]
Message == [id : Nat, owner : Owner, keep : Nat, old : BOOLEAN]
Phase   == {"idle", "admin", "users", "name", "save", "password", "list", "apply"}

\* Marking what was read before a change keeps its type.
LEMMA OutdateType ==
    ASSUME NEW o
    PROVE  /\ \A S \in SUBSET Read : Outdate(S, o) \in SUBSET Read
           /\ \A S \in SUBSET Message : Outdate(S, o) \in SUBSET Message
BY DEF Outdate, Read, Message

\* NormalizeUserSettings makes a settings row of what is asked for.
LEMMA NormalizeType ==
    ASSUME NEW s \in Settings
    PROVE  Normalize(s) \in Row /\ Normalize(s).rcpt = s.rcpt
BY AdminAssumption DEF Normalize, Row, Asked

\* A row is a row.
LEMMA RowNotMissing == NoRow \notin Row
<1>1. Asked \subseteq Matcher  BY AdminAssumption DEF Asked
<1> QED  BY <1>1, AdminAssumption DEF Row

\* An idle request is none.
LEMMA NoRequestDistinct == NoRequest \notin RequestRecord
BY DEF NoRequest, RequestRecord

\* What a settings row says has the type of a row.
LEMMA DaysType ==
    ASSUME TypeOK, NEW o \in Owner
    PROVE  daysKept(o) \in Nat
BY DEF TypeOK, daysKept, Row

\* TypeOK by the tables it speaks of.
DirectoryType ==
    /\ users \in [User -> Name \cup {NoName}]
    /\ rows \in [Owner -> Row \cup {NoRow}]
    /\ lastUser \in 0..MaxUser

RequestType ==
    /\ pc \in [Request -> Phase]
    /\ req \in [Request -> RequestRecord \cup {NoRequest}]
    /\ \A r \in Request : pc[r] = "idle" <=> req[r] = NoRequest

MailType ==
    /\ inbound \in [Delivery -> SUBSET Read]
    /\ store \in SUBSET Message
    /\ lastId \in Nat

LEMMA TypeParts ==
    /\ TypeOK <=> DirectoryType /\ RequestType /\ MailType
    /\ TypeOK' <=> DirectoryType' /\ RequestType' /\ MailType'
BY DEF TypeOK, DirectoryType, RequestType, MailType, Phase, Read, Message

\* A request that moves on or ends.
LEMMA RequestMoves ==
    ASSUME RequestType, NEW r \in Request, Busy(r),
           \/ End(r)
           \/ /\ \E step \in Phase \ {"idle"} : Goto(r, step)
              /\ req' = req \/ \E l \in SUBSET Nat : req' = [req EXCEPT ![r].list = l]
    PROVE  RequestType'
<1>1. req[r] \in RequestRecord  BY DEF RequestType, Busy
<1>2. \A l \in SUBSET Nat : [req[r] EXCEPT !.list = l] \in RequestRecord
  BY <1>1 DEF RequestRecord
<1>3. CASE End(r)
  BY <1>3 DEF End, Goto, RequestType, Phase
<1>4. ASSUME NEW step \in Phase \ {"idle"}, Goto(r, step), req' = req
      PROVE  RequestType'
  BY <1>4 DEF Goto, RequestType, Phase, Busy
<1>5. ASSUME NEW step \in Phase \ {"idle"}, Goto(r, step),
             NEW l \in SUBSET Nat, req' = [req EXCEPT ![r].list = l]
      PROVE  RequestType'
  <2>1. pc' = [pc EXCEPT ![r] = step]  BY <1>5 DEF Goto
  <2>2. req'[r] \in RequestRecord  BY <1>2, <1>5 DEF RequestType
  <2>3. \A s \in Request \ {r} : req'[s] = req[s] /\ pc'[s] = pc[s]
    BY <1>5, <2>1 DEF RequestType
  <2>4. req' \in [Request -> RequestRecord \cup {NoRequest}]
    BY <1>2, <1>1, <1>5 DEF RequestType
  <2> QED  BY <2>1, <2>2, <2>3, <2>4, NoRequestDistinct DEF RequestType, Phase
<1> QED  BY <1>3, <1>4, <1>5

\* A request that begins.
LEMMA StartType ==
    ASSUME RequestType, NEW r \in Request,
           NEW op \in {"create", "update", "settings", "admin"},
           NEW o \in Owner \cup {NoId}, NEW name \in Name \cup {NoName},
           NEW s \in Settings, Start(r, op, o, name, s)
    PROVE  RequestType'
<1> DEFINE q == [op |-> op, owner |-> o, name |-> name, row |-> Normalize(s), list |-> {}]
<1>1. q \in RequestRecord  BY NormalizeType DEF RequestRecord
<1>2. req' = [req EXCEPT ![r] = q]  BY DEF Start
<1> HIDE DEF q
<1> DEFINE step == IF Empty(s.rcpt) THEN IF Named(op) THEN "name" ELSE "save"
                   ELSE IF o = Admin THEN "users" ELSE "admin"
<1>3. pc' = [pc EXCEPT ![r] = step]  BY DEF Start, Goto
<1>4. step \in Phase \ {"idle"}  BY DEF Phase
<1> HIDE DEF step
<1> QED  BY <1>1, <1>2, <1>3, <1>4, NoRequestDistinct DEF RequestType, Phase

\* Marking what was read before a change of settings.
LEMMA OutdatedType ==
    ASSUME MailType, NEW o, Outdated(o)
    PROVE  inbound' \in [Delivery -> SUBSET Read]
<1>1. \A d \in Delivery : Outdate(inbound[d], o) \in SUBSET Read
  BY OutdateType DEF MailType
<1> QED  BY <1>1 DEF Outdated

\* Recalculated dates.
LEMMA RecalculateType ==
    ASSUME MailType, RequestType, NEW r \in Request, Busy(r), NEW ids, Recalculate(r, ids)
    PROVE  MailType'
<1>1. req[r].row.days \in Nat  BY DEF RequestType, Busy, RequestRecord, Row
<1>2. \A m \in Message : Keep(m, ids, req[r].row.days) \in Message
  BY <1>1 DEF Keep, Message
<1> QED  BY <1>2 DEF Recalculate, MailType

LEMMA TypeStep == TypeOK /\ [Next]_vars => TypeOK'
<1> SUFFICES ASSUME DirectoryType, RequestType, MailType, [Next]_vars
             PROVE  DirectoryType' /\ RequestType' /\ MailType'
  BY TypeParts
<1> USE AdminAssumption
<1>1. ASSUME NEW r \in Request, Serve(r)
      PROVE  DirectoryType' /\ RequestType' /\ MailType'
  <2>1. ASSUME NEW op \in {"create", "update", "settings", "admin"},
               NEW o \in Owner \cup {NoId}, NEW name \in Name \cup {NoName},
               NEW s \in Settings, Start(r, op, o, name, s)
        PROVE  DirectoryType' /\ RequestType' /\ MailType'
    <3>1. RequestType'  BY <2>1, StartType
    <3>2. UNCHANGED <<directory, mail>>  BY <2>1 DEF Start
    <3> QED  BY <3>1, <3>2 DEF directory, mail, DirectoryType, MailType
  <2>2. CASE ValidateAdmin(r) \/ ValidateUsers(r) \/ CheckName(r) \/ SavePassword(r)
             \/ Fail(r) \/ ListMessages(r)
    <3>1. UNCHANGED <<directory, mail>>
      BY <2>2 DEF ValidateAdmin, ValidateUsers, CheckName, SavePassword, Fail, ListMessages,
                  directory, mail
    <3>2. IdsOf(req[r].owner) \in SUBSET Nat  BY DEF IdsOf, MailType, Message
    <3>3. RequestType'
      BY <2>2, <3>2, RequestMoves
      DEF ValidateAdmin, ValidateUsers, CheckName, SavePassword, Fail, ListMessages, Busy, Phase
    <3> QED  BY <3>1, <3>3 DEF directory, mail, DirectoryType, MailType
  <2>3. CASE SaveNewUser(r)
    <3>1. Busy(r)  BY <2>3 DEF SaveNewUser, Busy
    <3>2. req[r] \in RequestRecord  BY <3>1 DEF RequestType, Busy
    <3>3. lastUser + 1 \in User  BY <2>3 DEF SaveNewUser, DirectoryType, User
    <3>4. DirectoryType'
      BY <2>3, <3>2, <3>3 DEF SaveNewUser, DirectoryType, RequestRecord, Owner, User
    <3>5. RequestType'  BY <2>3, <3>1, RequestMoves DEF SaveNewUser
    <3> QED  BY <2>3, <3>4, <3>5 DEF SaveNewUser, mail, MailType
  <2>4. CASE SaveRow(r)
    <3>1. Busy(r)  BY <2>4 DEF SaveRow, Busy
    <3>2. req[r] \in RequestRecord  BY <3>1 DEF RequestType, Busy
    <3>3. DirectoryType'
      BY <2>4, <3>2 DEF SaveRow, DirectoryType, RequestRecord
    <3>4. RequestType'  BY <2>4, <3>1, RequestMoves DEF SaveRow, Phase
    <3>5. MailType'
      BY <2>4, OutdatedType, OutdateType DEF SaveRow, MailType
    <3> QED  BY <3>3, <3>4, <3>5
  <2>5. CASE ApplyToListed(r) \/ ApplyToAll(r)
    <3>1. PICK ids : Recalculate(r, ids)  BY <2>5 DEF ApplyToListed, ApplyToAll
    <3>2. Busy(r)  BY <2>5 DEF ApplyToListed, ApplyToAll, Busy
    <3> QED
      BY <3>1, <3>2, RecalculateType, RequestMoves DEF Recalculate, directory, DirectoryType
  <2>6. ASSUME NEW u \in User, DeleteUser(r, u)
        PROVE  DirectoryType' /\ RequestType' /\ MailType'
    <3>1. DirectoryType'  BY <2>6 DEF DeleteUser, DirectoryType
    <3>2. RequestType'  BY <2>6 DEF DeleteUser, requests, RequestType
    <3> QED  BY <2>6, <3>1, <3>2, OutdatedType DEF DeleteUser, MailType
  <2> QED  BY <1>1, <2>1, <2>2, <2>3, <2>4, <2>5, <2>6 DEF Serve
<1>2. ASSUME NEW d \in Delivery, persistMessage(d)
      PROVE  DirectoryType' /\ RequestType' /\ MailType'
  <2>1. ASSUME NEW o \in Receiving, ReadRetention(d, o)
        PROVE  DirectoryType' /\ RequestType' /\ MailType'
    <3>1. o \in Owner  BY DEF Owner, Admin, User
    <3>2. daysKept(o) \in Nat  BY <3>1, DaysType, TypeParts
    <3>3. MailType'  BY <2>1, <3>1, <3>2 DEF ReadRetention, MailType, Read
    <3> QED
      BY <2>1, <3>3 DEF ReadRetention, directory, requests, DirectoryType, RequestType
  <2>2. CASE CreateMessage(d)
    <3>1. MailType'  BY <2>2 DEF CreateMessage, MailType, Read, Message, None
    <3> QED
      BY <2>2, <3>1 DEF CreateMessage, directory, requests, DirectoryType, RequestType
  <2>3. CASE DeliveryFails(d)
    BY <2>3
    DEF DeliveryFails, directory, requests, DirectoryType, RequestType, MailType, None
  <2> QED  BY <1>2, <2>1, <2>2, <2>3 DEF persistMessage
<1>3. CASE DeleteExpiredMessages
  BY <1>3
  DEF DeleteExpiredMessages, directory, requests, DirectoryType, RequestType, MailType
<1>4. CASE Restart
  BY <1>4
  DEF Restart, directory, DirectoryType, RequestType, MailType, Phase, None
<1>5. CASE UNCHANGED vars
  BY <1>5
  DEF vars, directory, requests, mail, DirectoryType, RequestType, MailType
<1> QED  BY <1>1, <1>2, <1>3, <1>4, <1>5 DEF Next
\* Initially all is well typed.
LEMMA TypeInit == Init => TypeOK
BY AdminAssumption DEF Init, TypeOK, User, Owner, Admin, None

(* MailboxAdmin!TypeOK, for any number of users, requests and deliveries:   *)
(* in particular no settings row ever holds negative days.                  *)
THEOREM WellTyped == Spec => []TypeOK
BY TypeInit, TypeStep, PTL DEF Spec
----------------------------------------------------------------------------
(* Frames: what a step leaves alone.                                        *)

\* Without a change of the directory its properties stay.
LEMMA DirectoryFrame ==
    ASSUME UNCHANGED directory
    PROVE  /\ ExclusiveOwnership => ExclusiveOwnership'
           /\ NamesDistinct => NamesDistinct'
           /\ \A o : claims(o)' = claims(o) /\ daysKept(o)' = daysKept(o)
           /\ \A u : Exists(u)' <=> Exists(u)
BY DEF directory, ExclusiveOwnership, NamesDistinct, claims, daysKept, Exists, Mailbox

\* A step of a request that writes nothing.
LEMMA TablesFrame ==
    ASSUME IInv, UNCHANGED <<directory, mail>>
    PROVE  /\ ExclusiveOwnership' /\ NamesDistinct' /\ IdsOK' /\ ReadOK' /\ FreshOK'
           /\ RetentionFollows'
BY DirectoryFrame DEF IInv, mail, directory, IdsOK, ReadOK, FreshOK, RetentionFollows

\* A request that is over is no concern.
LEMMA IdleFrame ==
    ASSUME \A r \in Request : pc'[r] = "idle"
    PROVE  RequestOK' /\ ValidatedOK' /\ PendingOK'
BY DEF RequestOK, ValidatedOK, PendingOK, Busy

LEMMA EndFrame ==
    ASSUME Alone, TypeOK, NEW r \in Request, End(r)
    PROVE  RequestOK' /\ ValidatedOK' /\ PendingOK'
<1>1. \A s \in Request : pc'[s] = "idle"  BY DEF Alone, End, Goto, TypeOK
<1> QED  BY <1>1, IdleFrame

\* A step that is no request's, but may store messages.
LEMMA RequestFrame ==
    ASSUME IInv, UNCHANGED <<directory, requests>>
    PROVE  /\ RequestOK' /\ ValidatedOK' /\ ExclusiveOwnership' /\ NamesDistinct'
           /\ \A r \in Request : pc[r] \in {"password", "list", "apply"} =>
                 daysKept(req[r].owner)' = req[r].row.days
<1>1. requests' = requests  OBVIOUS
<1>2. RequestOK'  BY <1>1 DEF IInv, RequestOK, requests, Busy
<1>3. ValidatedOK'
  BY <1>1, DirectoryFrame
  DEF IInv, ValidatedOK, requests, directory, Conflict, Others, Exists, claims
<1>4. \A r \in Request : daysKept(req[r].owner)' = daysKept(req[r].owner)
  BY <1>1, DirectoryFrame DEF requests, daysKept, directory
<1> QED  BY <1>2, <1>3, <1>4, DirectoryFrame DEF IInv, PendingOK
----------------------------------------------------------------------------
(* One lemma for each way a request or a delivery moves.                    *)

\* What validation establishes for a request without recipients.
LEMMA NothingWanted ==
    ASSUME NEW wanted, Empty(wanted), NEW o
    PROVE  ~Conflict(wanted, o)
BY DEF Conflict, recipientOwnershipOverlaps

LEMMA StartStep ==
    ASSUME Alone, IInv, NEW r \in Request,
           NEW op \in {"create", "update", "settings", "admin"},
           NEW o \in Owner \cup {NoId}, NEW name \in Name \cup {NoName},
           NEW s \in Settings, Start(r, op, o, name, s)
    PROVE  RequestOK' /\ ValidatedOK' /\ PendingOK'
<1> DEFINE q == [op |-> op, owner |-> o, name |-> name, row |-> Normalize(s), list |-> {}]
<1> DEFINE step == IF Empty(s.rcpt) THEN IF Named(op) THEN "name" ELSE "save"
                   ELSE IF o = Admin THEN "users" ELSE "admin"
<1>1. \A t \in Request : t = r  BY DEF Alone
<1>2. req'[r] = q /\ pc'[r] = step  BY DEF Start, Goto, IInv, TypeOK
<1>3. /\ op = "create" <=> o = NoId
      /\ Named(op) <=> name # NoName
  BY DEF Start
<1>4. q.op = op /\ q.owner = o /\ q.name = name /\ q.row.rcpt = s.rcpt
  BY NormalizeType
<1>5. UNCHANGED directory  BY DEF Start
<1>6. step \in {"name", "save", "users", "admin"}  OBVIOUS
<1>7. /\ step = "name" => Named(op)
      /\ step = "save" => ~Named(op)
      /\ step = "users" => o = Admin
      /\ step \in {"name", "save"} => Empty(s.rcpt)
  OBVIOUS
<1> HIDE DEF q, step
<1>8. RequestOK'
  BY <1>1, <1>2, <1>3, <1>4, <1>6, <1>7 DEF RequestOK, Busy
<1>9. \A p : Empty(s.rcpt) => ~Conflict(s.rcpt, p)'
  BY NothingWanted DEF Conflict, recipientOwnershipOverlaps
<1>10. ValidatedOK'
  BY <1>1, <1>2, <1>4, <1>6, <1>7, <1>9 DEF ValidatedOK, Conflict
<1>11. PendingOK'
  BY <1>1, <1>2, <1>6 DEF PendingOK
<1> QED  BY <1>8, <1>10, <1>11

LEMMA ValidateStep ==
    ASSUME Alone, IInv, NEW r \in Request, ValidateAdmin(r) \/ ValidateUsers(r)
    PROVE  RequestOK' /\ ValidatedOK' /\ PendingOK'
<1>1. CASE End(r)  BY <1>1, EndFrame DEF IInv
<1>2. CASE ~End(r)
  <2>1. \A t \in Request : t = r  BY DEF Alone
  <2>2. req' = req /\ UNCHANGED directory /\ Busy(r)
    BY <1>2 DEF ValidateAdmin, ValidateUsers, Busy
  <2>3. \/ pc[r] = "admin" /\ pc'[r] = "users" /\ ~Conflict(req[r].row.rcpt, Admin)
        \/ /\ pc[r] = "users" /\ pc'[r] = IF Named(req[r].op) THEN "name" ELSE "save"
           /\ \A u \in Others(r) : ~Conflict(req[r].row.rcpt, u)
    BY <1>2 DEF ValidateAdmin, ValidateUsers, Goto, IInv, TypeOK
  <2>4. RequestOK'
    BY <2>1, <2>2, <2>3 DEF RequestOK, IInv, Busy
  <2>5. ValidatedOK'
    BY <2>1, <2>2, <2>3
    DEF ValidatedOK, IInv, directory, Conflict, claims, Others, Exists
  <2>6. PendingOK'  BY <2>1, <2>3 DEF PendingOK
  <2> QED  BY <2>4, <2>5, <2>6
<1> QED  BY <1>1, <1>2

LEMMA CheckNameStep ==
    ASSUME Alone, IInv, NEW r \in Request, CheckName(r)
    PROVE  RequestOK' /\ ValidatedOK' /\ PendingOK'
<1>1. CASE End(r)  BY <1>1, EndFrame DEF IInv
<1>2. CASE ~End(r)
  <2> DEFINE found == {u \in User : Exists(u) /\ SameName(users[u], req[r].name)}
  <2>1. \A t \in Request : t = r  BY DEF Alone
  <2>2. /\ req' = req /\ UNCHANGED directory /\ pc[r] = "name" /\ pc'[r] = "save"
        /\ Fold[req[r].name] # Reserved
        /\ found = {} \/ req[r].owner \in found
    BY <1>2 DEF CheckName, Goto, IInv, TypeOK
  <2>3. \A u \in Others(r) : Fold[users[u]] # Fold[req[r].name]
    <3>1. CASE found = {}  BY <3>1 DEF Others, SameName
    <3>2. CASE req[r].owner \in found
      BY <3>2 DEF Others, SameName, IInv, NamesDistinct
    <3> QED  BY <2>2, <3>1, <3>2
  <2> HIDE DEF found
  <2>4. RequestOK'
    BY <2>1, <2>2 DEF RequestOK, IInv, Busy
  <2>5. ValidatedOK'
    BY <2>1, <2>2, <2>3
    DEF ValidatedOK, IInv, directory, Conflict, claims, Others, Exists
  <2>6. PendingOK'  BY <2>1, <2>2 DEF PendingOK
  <2> QED  BY <2>4, <2>5, <2>6
<1> QED  BY <1>1, <1>2

LEMMA SavePasswordStep ==
    ASSUME Alone, IInv, NEW r \in Request, SavePassword(r)
    PROVE  RequestOK' /\ ValidatedOK' /\ PendingOK'
<1>1. \A t \in Request : t = r  BY DEF Alone
<1>2. /\ req' = req /\ UNCHANGED <<directory, mail>>
      /\ pc[r] = "password" /\ pc'[r] = "list"
  BY DEF SavePassword, Goto, IInv, TypeOK
<1>3. daysKept(req[r].owner)' = daysKept(req[r].owner)  BY <1>2, DirectoryFrame DEF directory, daysKept
<1>4. RequestOK'  BY <1>1, <1>2 DEF RequestOK, IInv, Busy
<1>5. ValidatedOK'  BY <1>1, <1>2 DEF ValidatedOK
<1>6. PendingOK'  BY <1>1, <1>2, <1>3 DEF PendingOK, IInv
<1> QED  BY <1>4, <1>5, <1>6

LEMMA ListMessagesStep ==
    ASSUME Alone, IInv, NEW r \in Request, ListMessages(r)
    PROVE  RequestOK' /\ ValidatedOK' /\ PendingOK'
<1>1. \A t \in Request : t = r  BY DEF Alone
<1>2. /\ UNCHANGED <<directory, mail>> /\ pc[r] = "list" /\ pc'[r] = "apply"
      /\ req' = [req EXCEPT ![r].list = IdsOf(req[r].owner)]
  BY DEF ListMessages, Goto, IInv, TypeOK
<1>3. req[r] \in RequestRecord  BY <1>2 DEF IInv, TypeOK
<1>4. /\ req'[r].list = IdsOf(req[r].owner)
      /\ req'[r].op = req[r].op /\ req'[r].owner = req[r].owner
      /\ req'[r].name = req[r].name /\ req'[r].row = req[r].row
  BY <1>2, <1>3 DEF IInv, TypeOK, RequestRecord
<1>5. RequestOK'  BY <1>1, <1>2, <1>4 DEF RequestOK, IInv, Busy
<1>6. ValidatedOK'  BY <1>1, <1>2 DEF ValidatedOK
<1>7. daysKept(req[r].owner)' = req'[r].row.days
  <2>1. \A o : daysKept(o)' = daysKept(o)  BY <1>2, DirectoryFrame
  <2>2. daysKept(req[r].owner) = req[r].row.days  BY <1>2 DEF IInv, PendingOK
  <2> QED  BY <1>2, <1>4, <2>2 DEF daysKept, directory
<1>8. /\ \A k \in req'[r].list : k <= lastId'
      /\ \A m \in store' : m.id \in req'[r].list => m.owner = req'[r].owner
  BY <1>2, <1>4 DEF IInv, IdsOK, IdsOf, mail
<1>9. PendingOK'  BY <1>1, <1>2, <1>4, <1>7, <1>8 DEF PendingOK
<1> QED  BY <1>5, <1>6, <1>9

\* The new user's claims have been compared with everybody's.
LEMMA SaveNewUserStep ==
    ASSUME Alone, IInv, NEW r \in Request, SaveNewUser(r)
    PROVE  IInv' \/ ~TypeOK'
<1> SUFFICES ASSUME TypeOK' PROVE IInv'  OBVIOUS
<1> USE AdminAssumption
<1> DEFINE q == req[r]
<1>0. PICK new \in User : new = lastUser + 1
  BY DEF SaveNewUser, IInv, TypeOK, User
<1>1. /\ pc[r] = "save" /\ q.op = "create" /\ End(r) /\ UNCHANGED mail
      /\ users' = [users EXCEPT ![new] = q.name]
      /\ rows' = [rows EXCEPT ![new] = q.row]
  BY <1>0 DEF SaveNewUser
<1>2. q.owner = NoId /\ q \in RequestRecord /\ q.name # NoName
  BY <1>1 DEF IInv, RequestOK, Busy, Named, TypeOK
<1>3. new # Admin /\ NoId \notin User /\ NoId # Admin /\ Admin \notin User
  BY DEF User, Admin, NoId
<1>4. q.row # NoRow  BY <1>2, RowNotMissing DEF RequestRecord
<1>5. /\ ~Conflict(q.row.rcpt, Admin)
      /\ \A u \in User : Exists(u) =>
            ~Conflict(q.row.rcpt, u) /\ Fold[users[u]] # Fold[q.name]
      /\ Fold[q.name] # Reserved
  BY <1>1, <1>2, <1>3 DEF IInv, ValidatedOK, Named, Others
<1>6. /\ claims(new)' = q.row.rcpt /\ users'[new] = q.name
      /\ \A o \in Owner \ {new} : claims(o)' = claims(o) /\ daysKept(o)' = daysKept(o)
      /\ \A u \in User \ {new} : users'[u] = users[u]
  <2>1. rows'[new] = q.row /\ \A o \in Owner \ {new} : rows'[o] = rows[o]
    BY <1>1 DEF IInv, TypeOK, Owner
  <2>2. users'[new] = q.name /\ \A u \in User \ {new} : users'[u] = users[u]
    BY <1>1 DEF IInv, TypeOK
  <2> HIDE DEF q
  <2> QED  BY <1>4, <2>1, <2>2 DEF claims, daysKept
<1> HIDE DEF q
<1>7. ExclusiveOwnership'
  <2>1. Mailbox' \subseteq Mailbox \cup {new} /\ Mailbox' \subseteq Owner
    BY <1>6 DEF Mailbox, Exists, Owner
  <2>2. \A o \in Mailbox \ {new} : ~recipientOwnershipOverlaps(q.row.rcpt, claims(o))
    BY <1>5 DEF Mailbox, Conflict
  <2>3. \A o \in Mailbox \ {new} : ~recipientOwnershipOverlaps(claims(o), q.row.rcpt)
    BY <2>2, OverlapSymmetric
  <2>4. ASSUME NEW o \in Mailbox', NEW p \in Mailbox', o # p
        PROVE  ~recipientOwnershipOverlaps(claims(o)', claims(p)')
    <3>1. CASE o = new  BY <1>6, <2>1, <2>2, <2>4, <3>1
    <3>2. CASE p = new  BY <1>6, <2>1, <2>3, <2>4, <3>2
    <3>3. CASE o # new /\ p # new
      BY <1>6, <2>1, <2>4, <3>3 DEF IInv, ExclusiveOwnership
    <3> QED  BY <3>1, <3>2, <3>3
  <2> QED
    BY <2>4
    DEF ExclusiveOwnership, recipientOwnershipOverlaps, Empty, Covers, MatchDomain, Match
<1>8. NamesDistinct'
  BY <1>5, <1>6 DEF IInv, NamesDistinct, Exists
<1>9. RequestOK' /\ ValidatedOK' /\ PendingOK'  BY <1>1, EndFrame DEF IInv
<1>10. IdsOK' /\ FreshOK'
  BY <1>1 DEF SaveNewUser, IInv, TypeOK, IdsOK, FreshOK, mail, Owner, User, Admin
<1>11. ReadOK'
  <2>1. \A d \in Delivery : \A x \in inbound[d] : x.owner \in Owner \ {new}
    BY <1>0 DEF IInv, TypeOK, FreshOK, Owner, User, Admin
  <2> QED  BY <1>1, <1>6, <2>1 DEF IInv, ReadOK, mail
<1>12. RetentionFollows'
  <2>1. \A m \in store : m.owner \in Owner \ {new}
    BY <1>0 DEF IInv, TypeOK, FreshOK, Owner, User, Admin
  <2> QED  BY <1>1, <1>6, <2>1 DEF IInv, RetentionFollows, mail
<1> QED  BY <1>7, <1>8, <1>9, <1>10, <1>11, <1>12 DEF IInv

\* Marking leaves everything but the mark.
LEMMA OutdateKeeps ==
    ASSUME NEW T \in {Read, Message}, NEW S \in SUBSET T, NEW o, NEW y \in Outdate(S, o)
    PROVE  \E x \in S : /\ y.owner = x.owner /\ y.keep = x.keep
                        /\ T = Message => y.id = x.id
                        /\ y.old \/ (y = x /\ x.owner # o)
<1>1. PICK x \in S : y = [x EXCEPT !.old = (x.owner = o) \/ @]  BY DEF Outdate
<1>2. CASE T = Read
  BY <1>1, <1>2 DEF Read, Message
<1>3. CASE T = Message
  BY <1>1, <1>3 DEF Read, Message
<1> QED  BY <1>2, <1>3

\* Ids stay distinct when messages are marked.
LEMMA OutdateIds ==
    ASSUME IdsOK, NEW o, store' = Outdate(store, o), lastId' = lastId, store \in SUBSET Message
    PROVE  IdsOK'
<1>1. ASSUME NEW y \in store', NEW z \in store', y.id = z.id
      PROVE  y = z
  <2>1. PICK x \in store : y = [x EXCEPT !.old = (x.owner = o) \/ @]  BY DEF Outdate
  <2>2. PICK w \in store : z = [w EXCEPT !.old = (w.owner = o) \/ @]  BY DEF Outdate
  <2>3. y.id = x.id /\ z.id = w.id  BY <2>1, <2>2 DEF Message
  <2> QED  BY <1>1, <2>1, <2>2, <2>3 DEF IdsOK
<1>2. \A y \in store' : y.id <= lastId'  BY OutdateKeeps DEF IdsOK
<1> QED  BY <1>1, <1>2 DEF IdsOK

\* When the settings of one mailbox change and all that was read of them is
\* marked, what is not marked is still what the settings say.
LEMMA ChangeMarked ==
    ASSUME IInv, NEW o \in Owner, Outdated(o),
           \A p \in Owner \ {o} : daysKept(p)' = daysKept(p)
    PROVE  /\ ReadOK'
           /\ \A d \in Delivery : \A y \in inbound'[d] : y.owner <= lastUser
<1>1. ASSUME NEW d \in Delivery, NEW y \in inbound'[d]
      PROVE  (y.old \/ y.keep = daysKept(y.owner)') /\ y.owner <= lastUser
  <2>1. y \in Outdate(inbound[d], o) /\ inbound[d] \in SUBSET Read
    BY <1>1 DEF Outdated, IInv, TypeOK, Read
  <2>2. PICK x \in inbound[d] : /\ y.owner = x.owner /\ y.keep = x.keep
                                /\ y.old \/ (y = x /\ x.owner # o)
    BY <2>1, OutdateKeeps
  <2>3. x.owner \in Owner /\ x.owner <= lastUser /\ (x.old \/ x.keep = daysKept(x.owner))
    BY <2>1 DEF Read, IInv, FreshOK, ReadOK
  <2> QED  BY <2>2, <2>3
<1> QED  BY <1>1 DEF ReadOK

LEMMA SaveRowStep ==
    ASSUME Alone, IInv, NEW r \in Request, SaveRow(r), TypeOK'
    PROVE  IInv'
<1>0. PICK own, q : own = req[r].owner /\ q = req[r]  OBVIOUS
<1>1. /\ pc[r] = "save" /\ q.op # "create" /\ pc'[r] \in {"password", "list"}
      /\ req' = req /\ lastUser' = lastUser /\ lastId' = lastId
      /\ rows' = [rows EXCEPT ![own] = q.row]
      /\ Outdated(own) /\ store' = Outdate(store, own)
  BY <1>0 DEF SaveRow, Goto, IInv, TypeOK
<1>2. \/ /\ Named(q.op) /\ Exists(own) /\ users' = [users EXCEPT ![own] = q.name]
      \/ users' = users
  BY <1>0 DEF SaveRow, RowFound, Named
<1>3. \A t \in Request : t = r  BY DEF Alone
<1>4. q \in RequestRecord /\ own \in Owner /\ NoId \notin Owner /\ Admin \notin User
  <2>1. NoId \notin Owner /\ Admin \notin User  BY AdminAssumption DEF NoId, Owner, User, Admin
  <2>2. q \in RequestRecord  BY <1>0, <1>1 DEF IInv, TypeOK
  <2>3. own # NoId  BY <1>0, <1>1 DEF IInv, RequestOK, Busy
  <2> QED  BY <1>0, <2>1, <2>2, <2>3 DEF RequestRecord
<1>5. q.row # NoRow  BY <1>4, RowNotMissing DEF RequestRecord
<1>6. /\ claims(own)' = q.row.rcpt /\ daysKept(own)' = q.row.days
      /\ \A o \in Owner \ {own} : claims(o)' = claims(o) /\ daysKept(o)' = daysKept(o)
  <2>1. rows'[own] = q.row /\ \A o \in Owner \ {own} : rows'[o] = rows[o]
    BY <1>1, <1>4 DEF IInv, TypeOK
  <2> QED  BY <1>5, <2>1 DEF claims, daysKept
<1>7. \A u \in User \ {own} : users'[u] = users[u]
  BY <1>2 DEF IInv, TypeOK
<1>8. Mailbox' \subseteq Mailbox /\ Mailbox \subseteq Owner
  BY <1>2, <1>7 DEF Mailbox, Exists, Owner
<1>9. \A p \in Mailbox \ {own} : ~recipientOwnershipOverlaps(q.row.rcpt, claims(p))
  <2>1. own # Admin => ~Conflict(q.row.rcpt, Admin)
    BY <1>0, <1>1 DEF IInv, ValidatedOK
  <2>2. \A u \in User : Exists(u) /\ u # own => ~Conflict(q.row.rcpt, u)
    BY <1>0, <1>1 DEF IInv, ValidatedOK, Others
  <2> QED  BY <2>1, <2>2 DEF Mailbox, Conflict
<1>10. ExclusiveOwnership'
  <2>1. ASSUME NEW o \in Mailbox', NEW p \in Mailbox', o # p
        PROVE  ~recipientOwnershipOverlaps(claims(o)', claims(p)')
    <3>1. CASE o = own  BY <1>6, <1>8, <1>9, <2>1, <3>1
    <3>2. CASE p = own  BY <1>6, <1>8, <1>9, <2>1, <3>2, OverlapSymmetric
    <3>3. CASE o # own /\ p # own
      BY <1>6, <1>8, <2>1, <3>3 DEF IInv, ExclusiveOwnership
    <3> QED  BY <3>1, <3>2, <3>3
  <2> QED
    BY <2>1
    DEF ExclusiveOwnership, recipientOwnershipOverlaps, Empty, Covers, MatchDomain, Match
<1>11. NamesDistinct'
  <2>1. CASE users' = users  BY <2>1 DEF IInv, NamesDistinct, Exists
  <2>2. CASE Named(q.op) /\ Exists(own) /\ users' = [users EXCEPT ![own] = q.name]
    <3>1. /\ Fold[q.name] # Reserved
          /\ \A u \in User : Exists(u) /\ u # own => Fold[users[u]] # Fold[q.name]
      BY <1>0, <1>1, <2>2 DEF IInv, ValidatedOK, Others
    <3>2. own \in User => users'[own] = q.name  BY <2>2 DEF IInv, TypeOK
    <3> QED  BY <1>7, <3>1, <3>2 DEF IInv, NamesDistinct, Exists
  <2> QED  BY <1>2, <2>1, <2>2
<1>12. RequestOK'
  BY <1>0, <1>1, <1>3, <1>4 DEF IInv, RequestOK, Busy
<1>13. ValidatedOK'  BY <1>1, <1>3 DEF ValidatedOK
<1>14. PendingOK'
  <2>1. daysKept(req[r].owner)' = daysKept(own)'  BY <1>0, <1>1 DEF daysKept
  <2> QED  BY <1>0, <1>1, <1>3, <1>6, <2>1 DEF PendingOK
<1>15. IdsOK'  BY <1>1, OutdateIds DEF IInv, TypeOK, Message
<1>16. ReadOK' /\ \A d \in Delivery : \A y \in inbound'[d] : y.owner <= lastUser'
  BY <1>1, <1>4, <1>6, ChangeMarked
<1>17. RetentionFollows' /\ \A m \in store' : m.owner <= lastUser'
  <2>1. ASSUME NEW y \in store'
        PROVE  (y.old \/ y.keep = daysKept(y.owner)') /\ y.owner <= lastUser'
    <3>1. store \in SUBSET Message  BY DEF IInv, TypeOK, Message
    <3>2. PICK x \in store : /\ y.owner = x.owner /\ y.keep = x.keep
                             /\ y.old \/ (y = x /\ x.owner # own)
      BY <1>1, <2>1, <3>1, OutdateKeeps
    <3>3. x.owner \in Owner /\ x.owner <= lastUser /\ (x.old \/ x.keep = daysKept(x.owner))
      BY <3>1 DEF Message, IInv, FreshOK, RetentionFollows
    <3> QED  BY <1>1, <1>6, <3>2, <3>3
  <2> QED  BY <2>1 DEF RetentionFollows
<1> QED
  BY <1>10, <1>11, <1>12, <1>13, <1>14, <1>15, <1>16, <1>17 DEF IInv, FreshOK

LEMMA RecalculateStep ==
    ASSUME Alone, IInv, NEW r \in Request, ApplyToListed(r) \/ ApplyToAll(r), TypeOK'
    PROVE  IInv'
<1>1. PICK ids : /\ Recalculate(r, ids) /\ pc[r] \in {"list", "apply"}
                 /\ \A m \in store : m.id \in ids => m.owner = req[r].owner
  <2>1. CASE ApplyToListed(r)
    BY <2>1 DEF ApplyToListed, IInv, PendingOK
  <2>2. CASE ApplyToAll(r)
    <3>1. \A m \in store : m.id \in IdsOf(req[r].owner) => m.owner = req[r].owner
      BY DEF IdsOf, IInv, IdsOK
    <3> QED  BY <2>2, <3>1 DEF ApplyToAll
  <2> QED  BY <2>1, <2>2
<1>2. PICK days : days = req[r].row.days  OBVIOUS
<1>3. /\ UNCHANGED directory /\ inbound' = inbound /\ lastId' = lastId
      /\ store' = {Keep(m, ids, days) : m \in store} /\ End(r)
  BY <1>1, <1>2 DEF Recalculate
<1>4. daysKept(req[r].owner) = days  BY <1>1, <1>2 DEF IInv, PendingOK
<1>5. \A m \in store : /\ Keep(m, ids, days).id = m.id
                       /\ Keep(m, ids, days).owner = m.owner
                       /\ m.id \in ids => Keep(m, ids, days).keep = days
                       /\ m.id \notin ids => Keep(m, ids, days) = m
  BY DEF Keep, IInv, TypeOK
<1>6. \A o : daysKept(o)' = daysKept(o)  BY <1>3, DirectoryFrame
<1>7. RetentionFollows'
  <2>1. ASSUME NEW y \in store'
        PROVE  y.old \/ y.keep = daysKept(y.owner)
    <3>1. PICK m \in store : y = Keep(m, ids, days)  BY <1>3, <2>1
    <3>2. CASE m.id \in ids  BY <1>1, <1>4, <1>5, <3>1, <3>2
    <3>3. CASE m.id \notin ids  BY <1>5, <3>1, <3>3 DEF IInv, RetentionFollows
    <3> QED  BY <3>2, <3>3
  <2> QED  BY <1>6, <2>1 DEF RetentionFollows
<1>8. IdsOK'
  <2>1. ASSUME NEW y \in store'
        PROVE  \E m \in store : y = Keep(m, ids, days) /\ y.id = m.id
    BY <1>3, <1>5, <2>1
  <2> QED  BY <1>3, <2>1 DEF IInv, IdsOK
<1>9. FreshOK' /\ ReadOK'
  <2>1. \A y \in store' : \E m \in store : y.owner = m.owner  BY <1>3, <1>5
  <2> QED  BY <1>3, <1>6, <2>1 DEF IInv, FreshOK, ReadOK, directory
<1>10. RequestOK' /\ ValidatedOK' /\ PendingOK'  BY <1>3, EndFrame DEF IInv
<1> QED  BY <1>3, <1>7, <1>8, <1>9, <1>10, DirectoryFrame DEF IInv

LEMMA DeleteUserStep ==
    ASSUME Alone, IInv, NEW r \in Request, NEW u \in User, DeleteUser(r, u), TypeOK'
    PROVE  IInv'
<1>1. \A t \in Request : pc'[t] = "idle"  BY DEF Alone, DeleteUser, requests
<1>2. /\ users' = [users EXCEPT ![u] = NoName] /\ rows' = [rows EXCEPT ![u] = NoRow]
      /\ store' = {m \in store : m.owner # u} /\ Outdated(u)
      /\ lastUser' = lastUser /\ lastId' = lastId
  BY DEF DeleteUser
<1>3. u \in Owner  BY DEF Owner
<1>4. /\ \A v \in User \ {u} : users'[v] = users[v]
      /\ users'[u] = NoName
      /\ \A o \in Owner \ {u} : claims(o)' = claims(o) /\ daysKept(o)' = daysKept(o)
  BY <1>2, <1>3 DEF IInv, TypeOK, claims, daysKept
<1>5. Mailbox' \subseteq Mailbox \ {u} /\ Mailbox \subseteq Owner
  <2>1. u # Admin  BY AdminAssumption DEF User, Admin
  <2> QED  BY <1>4, <2>1 DEF Mailbox, Exists, Owner
<1>6. ExclusiveOwnership'
  <2>1. ASSUME NEW o \in Mailbox', NEW p \in Mailbox', o # p
        PROVE  ~recipientOwnershipOverlaps(claims(o)', claims(p)')
    BY <1>4, <1>5, <2>1 DEF IInv, ExclusiveOwnership
  <2> QED
    BY <2>1
    DEF ExclusiveOwnership, recipientOwnershipOverlaps, Empty, Covers, MatchDomain, Match
<1>7. NamesDistinct'  BY <1>4 DEF IInv, NamesDistinct, Exists
<1>8. RequestOK' /\ ValidatedOK' /\ PendingOK'  BY <1>1, IdleFrame
<1>9. ReadOK' /\ \A d \in Delivery : \A y \in inbound'[d] : y.owner <= lastUser'
  BY <1>2, <1>3, <1>4, ChangeMarked
<1>10. IdsOK' /\ \A m \in store' : m.owner <= lastUser'
  BY <1>2 DEF IInv, IdsOK, FreshOK
<1>11. RetentionFollows'
  <2>1. \A m \in store' : m \in store /\ m.owner \in Owner \ {u}
    BY <1>2 DEF IInv, TypeOK
  <2> QED  BY <1>4, <2>1 DEF IInv, RetentionFollows
<1> QED  BY <1>6, <1>7, <1>8, <1>9, <1>10, <1>11 DEF IInv, FreshOK

\* Deliveries.
LEMMA DeliveryStep ==
    ASSUME IInv, NEW d \in Delivery, persistMessage(d), TypeOK'
    PROVE  IInv'
<1>1. UNCHANGED <<directory, requests>>
  BY DEF persistMessage, ReadRetention, CreateMessage, DeliveryFails
<1>2. \A o : daysKept(o)' = daysKept(o)  BY <1>1, DirectoryFrame
<1>3. RequestOK' /\ ValidatedOK' /\ ExclusiveOwnership' /\ NamesDistinct'
  BY <1>1, RequestFrame
<1>4. \A r \in Request : pc[r] \in {"password", "list", "apply"} =>
         daysKept(req[r].owner)' = req[r].row.days
  BY <1>1, RequestFrame
<1>5. pc' = pc /\ req' = req /\ lastUser' = lastUser  BY <1>1 DEF requests, directory
<1>6. ASSUME NEW o \in Receiving, ReadRetention(d, o)  PROVE IInv'
  <2>1. /\ store' = store /\ lastId' = lastId
        /\ \A e \in Delivery \ {d} : inbound'[e] = inbound[e]
        /\ inbound'[d] = {[owner |-> o, keep |-> daysKept(o), old |-> FALSE]}
    BY <1>6 DEF ReadRetention, IInv, TypeOK
  <2>2. o <= lastUser
    BY <1>6, AdminAssumption DEF ReadRetention, User, IInv, TypeOK
  <2>3. ReadOK' /\ FreshOK'  BY <1>2, <1>5, <2>1, <2>2 DEF IInv, ReadOK, FreshOK
  <2>4. IdsOK' /\ RetentionFollows'  BY <1>2, <2>1 DEF IInv, IdsOK, RetentionFollows
  <2>5. PendingOK'  BY <1>2, <1>4, <1>5, <2>1 DEF IInv, PendingOK, daysKept
  <2> QED  BY <1>3, <2>3, <2>4, <2>5 DEF IInv
<1>7. CASE CreateMessage(d)
  <2>1. PICK x \in inbound[d] :
           store' = store \cup {[id |-> lastId + 1, owner |-> x.owner, keep |-> x.keep,
                                 old |-> x.old]}
    BY <1>7 DEF CreateMessage
  <2>2. PICK n : n = [id |-> lastId + 1, owner |-> x.owner, keep |-> x.keep, old |-> x.old]
    OBVIOUS
  <2>3. /\ store' = store \cup {n} /\ lastId' = lastId + 1 /\ lastId \in Nat
        /\ n.id = lastId + 1 /\ n.owner = x.owner /\ n.keep = x.keep /\ n.old = x.old
    BY <1>7, <2>1, <2>2 DEF CreateMessage, IInv, TypeOK
  <2>4. \A e \in Delivery : inbound'[e] \subseteq inbound[e]
    BY <1>7 DEF CreateMessage, IInv, TypeOK, None
  <2>5. ReadOK' /\ FreshOK'
    BY <1>2, <1>5, <2>3, <2>4 DEF IInv, ReadOK, FreshOK
  <2>6. RetentionFollows'
    BY <1>2, <2>3 DEF IInv, ReadOK, RetentionFollows
  <2>7. \A m \in store : m.id \in Nat /\ m.id <= lastId
    BY DEF IInv, TypeOK, IdsOK
  <2>8. IdsOK'  BY <2>3, <2>7 DEF IInv, IdsOK
  <2>9. \A r \in Request : pc[r] = "apply" => \A k \in req[r].list : k \in Nat /\ k <= lastId
    <3>1. \A r \in Request : pc[r] = "apply" => req[r] \in RequestRecord
      BY DEF IInv, TypeOK
    <3> QED  BY <3>1 DEF IInv, PendingOK, RequestRecord
  <2>10. \A r \in Request : pc[r] = "apply" =>
            /\ \A k \in req[r].list : k <= lastId'
            /\ \A m \in store' : m.id \in req[r].list => m.owner = req[r].owner
    BY <2>3, <2>9 DEF IInv, PendingOK
  <2>11. PendingOK'  BY <1>2, <1>4, <1>5, <2>10 DEF PendingOK, daysKept
  <2> QED  BY <1>3, <2>5, <2>6, <2>8, <2>11 DEF IInv
<1>8. CASE DeliveryFails(d)
  <2>1. /\ store' = store /\ lastId' = lastId
        /\ \A e \in Delivery : inbound'[e] \subseteq inbound[e]
    BY <1>8 DEF DeliveryFails, IInv, TypeOK, None
  <2>2. ReadOK' /\ FreshOK'  BY <1>2, <1>5, <2>1 DEF IInv, ReadOK, FreshOK
  <2>3. IdsOK' /\ RetentionFollows'  BY <1>2, <2>1 DEF IInv, IdsOK, RetentionFollows
  <2>4. PendingOK'  BY <1>2, <1>4, <1>5, <2>1 DEF IInv, PendingOK, daysKept
  <2> QED  BY <1>3, <2>2, <2>3, <2>4 DEF IInv
<1> QED  BY <1>6, <1>7, <1>8 DEF persistMessage

LEMMA InvariantInit == Init => IInv
<1> SUFFICES ASSUME Init PROVE IInv  OBVIOUS
<1>1. TypeOK  BY TypeInit
<1>2. Mailbox = {Admin}  BY DEF Init, Mailbox, Exists
<1> QED
  BY <1>1, <1>2
  DEF Init, IInv, RequestOK, ValidatedOK, ExclusiveOwnership, NamesDistinct, IdsOK, ReadOK,
      FreshOK, PendingOK, RetentionFollows, Busy, Exists, None

LEMMA InvariantStep ==
    ASSUME Alone, IInv, [Next]_vars
    PROVE  IInv'
<1>1. TypeOK'  BY TypeStep DEF IInv
<1>2. ASSUME NEW r \in Request, Serve(r)  PROVE IInv'
  <2>1. ASSUME NEW op \in {"create", "update", "settings", "admin"},
               NEW o \in Owner \cup {NoId}, NEW name \in Name \cup {NoName},
               NEW s \in Settings, Start(r, op, o, name, s)
        PROVE  IInv'
    <3>1. UNCHANGED <<directory, mail>>  BY <2>1 DEF Start
    <3>2. RequestOK' /\ ValidatedOK' /\ PendingOK'  BY <2>1, StartStep
    <3> QED  BY <1>1, <3>1, <3>2, TablesFrame DEF IInv
  <2>2. CASE ValidateAdmin(r) \/ ValidateUsers(r) \/ CheckName(r) \/ SavePassword(r)
             \/ Fail(r) \/ ListMessages(r)
    <3>1. UNCHANGED <<directory, mail>>
      BY <2>2 DEF ValidateAdmin, ValidateUsers, CheckName, SavePassword, Fail, ListMessages
    <3>2. CASE Fail(r)
      <4>1. RequestOK' /\ ValidatedOK' /\ PendingOK'  BY <3>2, EndFrame DEF Fail, IInv
      <4> QED  BY <1>1, <3>1, <4>1, TablesFrame DEF IInv
    <3>3. CASE ~Fail(r)
      <4>1. RequestOK' /\ ValidatedOK' /\ PendingOK'
        BY <2>2, <3>3, ValidateStep, CheckNameStep, SavePasswordStep, ListMessagesStep
      <4> QED  BY <1>1, <3>1, <4>1, TablesFrame DEF IInv
    <3> QED  BY <3>2, <3>3
  <2>3. CASE SaveNewUser(r)  BY <1>1, <2>3, SaveNewUserStep
  <2>4. CASE SaveRow(r)  BY <1>1, <2>4, SaveRowStep
  <2>5. CASE ApplyToListed(r) \/ ApplyToAll(r)  BY <1>1, <2>5, RecalculateStep
  <2>6. ASSUME NEW u \in User, DeleteUser(r, u)  PROVE IInv'
    BY <1>1, <2>6, DeleteUserStep
  <2> QED  BY <1>2, <2>1, <2>2, <2>3, <2>4, <2>5, <2>6 DEF Serve
<1>3. ASSUME NEW d \in Delivery, persistMessage(d)  PROVE IInv'
  BY <1>1, <1>3, DeliveryStep
<1>4. CASE DeleteExpiredMessages
  <2>1. UNCHANGED <<directory, requests>> /\ inbound' = inbound /\ lastId' = lastId
        /\ store' \subseteq store
    BY <1>4 DEF DeleteExpiredMessages
  <2>2. \A o : daysKept(o)' = daysKept(o)  BY <2>1, DirectoryFrame
  <2>3. IdsOK' /\ ReadOK' /\ FreshOK' /\ RetentionFollows'
    BY <2>1, <2>2 DEF IInv, IdsOK, ReadOK, FreshOK, RetentionFollows, directory
  <2>4. \A r \in Request : pc[r] \in {"password", "list", "apply"} =>
           daysKept(req[r].owner)' = req[r].row.days
    BY <2>1, RequestFrame
  <2>5. PendingOK'  BY <2>1, <2>4 DEF IInv, PendingOK, requests, daysKept
  <2> QED  BY <1>1, <2>1, <2>3, <2>5, RequestFrame DEF IInv
<1>5. CASE Restart
  <2>1. /\ UNCHANGED <<directory, store, lastId>>
        /\ \A d \in Delivery : inbound'[d] = {}
        /\ \A r \in Request : pc'[r] = "idle"
    BY <1>5 DEF Restart, None
  <2>2. IdsOK' /\ ReadOK' /\ FreshOK' /\ RetentionFollows'
    BY <2>1, DirectoryFrame DEF IInv, IdsOK, ReadOK, FreshOK, RetentionFollows, directory
  <2>3. RequestOK' /\ ValidatedOK' /\ PendingOK'  BY <2>1, IdleFrame
  <2> QED  BY <1>1, <2>1, <2>2, <2>3, DirectoryFrame DEF IInv
<1>6. CASE UNCHANGED vars
  <2>1. UNCHANGED <<directory, mail>> /\ UNCHANGED <<directory, requests>>
    BY <1>6 DEF vars
  <2>2. PendingOK'
    BY <2>1, RequestFrame DEF IInv, PendingOK, requests, mail, daysKept
  <2> QED  BY <1>1, <2>1, <2>2, TablesFrame, RequestFrame DEF IInv
<1> QED  BY <1>2, <1>3, <1>4, <1>5, <1>6 DEF Next

(* MailboxAdmin!ExclusiveOwnership (policy.go:110-159): with one request at *)
(* a time, whatever fails and whatever mail comes in, no two mailboxes ever *)
(* claim the same recipients.                                               *)
THEOREM OwnershipExclusive ==
    ASSUME Alone
    PROVE  Spec => []ExclusiveOwnership
<1>1. Init => IInv  BY InvariantInit
<1>2. IInv /\ [Next]_vars => IInv'  BY InvariantStep
<1>3. IInv => ExclusiveOwnership  BY DEF IInv
<1> QED  BY <1>1, <1>2, <1>3, PTL DEF Spec

\* An address that two mailboxes match.
Shared(o, p, a) == o # p /\ Match(claims(o), a) /\ Match(claims(p), a)

(* policy.go:110-159, 311-339: with one request at a time, whatever the     *)
(* users ask for, two mailboxes match a common address only where the       *)
(* comparison of their claims cannot see it: never by a domain that both    *)
(* name, and never by one pattern of both.                                  *)
THEOREM AmbiguityConfined ==
    ASSUME Alone
    PROVE  Spec => [](\A o, p \in Mailbox : \A a \in Address :
                         Shared(o, p, a) => Unseen(claims(o), claims(p), a))
<1> DEFINE Confined == \A o, p \in Mailbox : \A a \in Address :
                         Shared(o, p, a) => Unseen(claims(o), claims(p), a)
<1>1. Init => IInv  BY InvariantInit
<1>2. IInv /\ [Next]_vars => IInv'  BY InvariantStep
<1>3. IInv => Confined
  <2>1. ASSUME IInv, NEW o \in Mailbox  PROVE claims(o) \in Matcher
    <3>1. o \in Owner /\ Asked \subseteq Matcher
      BY AdminAssumption DEF Mailbox, Owner, Asked
    <3>2. Unclaimed \in Matcher  BY DEF Unclaimed, Matcher
    <3> QED  BY <2>1, <3>1, <3>2 DEF claims, IInv, TypeOK, Row
  <2> QED  BY <2>1, AmbiguityUnseen DEF IInv, ExclusiveOwnership, Shared
<1> HIDE DEF Confined
<1>4. Spec => []Confined  BY <1>1, <1>2, <1>3, PTL DEF Spec
<1> QED  BY <1>4 DEF Confined

(* MailboxAdmin!NamesDistinct (service.go:198-232): with one request at a   *)
(* time a login name means one account at most, and never the               *)
(* administrator's.                                                         *)
THEOREM NamesUnambiguous ==
    ASSUME Alone
    PROVE  Spec => []NamesDistinct
<1>1. Init => IInv  BY InvariantInit
<1>2. IInv /\ [Next]_vars => IInv'  BY InvariantStep
<1>3. IInv => NamesDistinct  BY DEF IInv
<1> QED  BY <1>1, <1>2, <1>3, PTL DEF Spec

(* MailboxAdmin!RetentionFollows (service.go:142, 173, 250; server.go:286-  *)
(* 304): with one request at a time a message that does not follow its      *)
(* owner's settings was inserted across a change of them, or the request    *)
(* that changed them failed before it recalculated.                         *)
THEOREM RetentionIsFollowed ==
    ASSUME Alone
    PROVE  Spec => []RetentionFollows
<1>1. Init => IInv  BY InvariantInit
<1>2. IInv /\ [Next]_vars => IInv'  BY InvariantStep
<1>3. IInv => RetentionFollows  BY DEF IInv
<1> QED  BY <1>1, <1>2, <1>3, PTL DEF Spec
----------------------------------------------------------------------------
(* The tables implement MailboxDirectory.                                   *)

\* What MailboxDirectory sees of a mailbox, and of all.
Entry(o) == [login |-> IF o = Admin THEN Reserved ELSE Fold[users[o]], claim |-> claims(o)]
Box      == [o \in Mailbox |-> Entry(o)]

\* Ids that are not given out yet have no user.
FreshUsers == \A u \in User : u > lastUser => ~Exists(u)

LEMMA FreshUsersStep ==
    ASSUME TypeOK, FreshUsers, [Next]_vars
    PROVE  FreshUsers'
<1>1. ASSUME NEW r \in Request, Serve(r)  PROVE FreshUsers'
  <2>1. CASE SaveNewUser(r)
    <3>1. /\ lastUser' = lastUser + 1 /\ lastUser \in Nat
          /\ users' = [users EXCEPT ![lastUser + 1] = req[r].name]
      BY <2>1, AdminAssumption DEF SaveNewUser, TypeOK
    <3>2. \A u \in User : u > lastUser' => u > lastUser /\ users'[u] = users[u]
      BY <3>1, AdminAssumption DEF TypeOK, User
    <3> QED  BY <3>2 DEF FreshUsers, Exists
  <2>2. CASE SaveRow(r)
    <3>1. lastUser' = lastUser /\ \A u \in User : ~Exists(u) => users'[u] = users[u]
      BY <2>2 DEF SaveRow, RowFound, TypeOK, Exists
    <3> QED  BY <3>1 DEF FreshUsers, Exists
  <2>3. ASSUME NEW u \in User, DeleteUser(r, u)  PROVE FreshUsers'
    BY <2>3 DEF DeleteUser, TypeOK, FreshUsers, Exists
  <2>4. CASE UNCHANGED directory  BY <2>4 DEF directory, FreshUsers, Exists
  <2> QED
    BY <1>1, <2>1, <2>2, <2>3, <2>4
    DEF Serve, Start, ValidateAdmin, ValidateUsers, CheckName, SavePassword, Fail,
        ListMessages, ApplyToListed, ApplyToAll, Recalculate
<1>2. CASE UNCHANGED directory  BY <1>2 DEF directory, FreshUsers, Exists
<1> QED
  BY <1>1, <1>2
  DEF Next, persistMessage, ReadRetention, CreateMessage, DeliveryFails,
      DeleteExpiredMessages, Restart, vars

\* What holds of the tables makes every mailbox fit, before and after.
LEMMA AllFit ==
    /\ ExclusiveOwnership /\ NamesDistinct => \A o \in Mailbox : Directory!Fits(o)
    /\ (ExclusiveOwnership /\ NamesDistinct)' => \A o \in Mailbox' : Directory!Fits(o)'
<1>1. Mailbox \subseteq {Admin} \cup User /\ Admin \notin User
  BY AdminAssumption DEF Mailbox, Admin, User
<1>2. ASSUME ExclusiveOwnership, NamesDistinct, NEW o \in Mailbox
      PROVE  Directory!Fits(o)
  <2>1. ASSUME NEW p \in Mailbox \ {o}
        PROVE  Entry(p).login # Entry(o).login
    BY <1>1, <1>2, <2>1 DEF NamesDistinct, Entry, Mailbox
  <2>2. \A p \in Mailbox \ {o} : ~recipientOwnershipOverlaps(claims(o), claims(p))
    BY <1>2 DEF ExclusiveOwnership
  <2> QED  BY <2>1, <2>2 DEF Directory!Fits, Entry
<1>3. ASSUME ExclusiveOwnership', NamesDistinct', NEW o \in Mailbox'
      PROVE  Directory!Fits(o)'
  <2>1. ASSUME NEW p \in Mailbox' \ {o}
        PROVE  Entry(p)'.login # Entry(o)'.login
    BY <1>1, <1>3, <2>1 DEF NamesDistinct, Entry, Mailbox
  <2>2. \A p \in Mailbox' \ {o} : ~recipientOwnershipOverlaps(claims(o), claims(p))'
    BY <1>3 DEF ExclusiveOwnership
  <2> QED  BY <2>1, <2>2 DEF Directory!Fits, Entry
<1> QED  BY <1>2, <1>3

\* One mailbox is written, and the entries of all others stay.
LEMMA OneWritten ==
    ASSUME NEW o, Mailbox' \ {o} = Mailbox \ {o},
           \A p \in Mailbox \ {o} : Entry(p)' = Entry(p)
    PROVE  Directory!Only(o)
<1>1. \A p \in Mailbox' : Entry(p)' = IF p = o THEN Entry(o)' ELSE Entry(p)  OBVIOUS
<1> QED  BY <1>1 DEF Directory!Only, Entry

\* Entries of mailboxes whose user and row stay.
LEMMA EntryStays ==
    ASSUME NEW o \in Owner, o \in User => users'[o] = users[o], rows'[o] = rows[o]
    PROVE  Entry(o)' = Entry(o) /\ (o \in Mailbox' <=> o \in Mailbox)
<1>1. Owner = {Admin} \cup User  BY DEF Owner
<1> QED  BY <1>1 DEF Entry, claims, Mailbox, Exists

\* A mailbox without an entry changes nothing.
LEMMA BoxStays ==
    ASSUME Mailbox' = Mailbox, \A p \in Mailbox : Entry(p)' = Entry(p)
    PROVE  Box' = Box
BY DEF Box

LEMMA Registers ==
    ASSUME TypeOK, RequestOK, FreshUsers, NEW r \in Request, SaveNewUser(r),
           \A o \in Mailbox' : Directory!Fits(o)'
    PROVE  \E u \in User : Directory!Register(u) /\ Box' # Box
<1>1. PICK new \in User : new = lastUser + 1
  BY AdminAssumption DEF SaveNewUser, TypeOK, User
<1>2. PICK q : q = req[r]  OBVIOUS
<1>3. /\ users' = [users EXCEPT ![new] = q.name] /\ rows' = [rows EXCEPT ![new] = q.row]
      /\ lastUser' = new /\ pc[r] = "save" /\ q.op = "create"
  BY <1>1, <1>2 DEF SaveNewUser
<1>4. q \in RequestRecord /\ q.name \in Name
  BY <1>2, <1>3 DEF TypeOK, RequestOK, Busy, Named, RequestRecord
<1>5. users'[new] = q.name /\ rows'[new] = q.row /\ new \in Mailbox'
  BY <1>3, <1>4, AdminAssumption DEF TypeOK, Owner, Mailbox, Exists
<1>6. new \notin Mailbox
  BY <1>1, AdminAssumption DEF FreshUsers, TypeOK, Mailbox, User, Admin
<1>7. Entry(new)' \in [login : {Fold[name] : name \in Name}, claim : Asked]
  <2>1. claims(new)' \in Asked
    BY <1>4, <1>5, RowNotMissing DEF claims, RequestRecord, Row
  <2>2. new # Admin  BY AdminAssumption DEF User, Admin
  <2> QED  BY <1>4, <1>5, <2>1, <2>2 DEF Entry
<1>8. \A p \in Owner \ {new} : Entry(p)' = Entry(p) /\ (p \in Mailbox' <=> p \in Mailbox)
  BY <1>3, EntryStays DEF TypeOK
<1>9. Mailbox \subseteq Owner /\ Mailbox' \subseteq Owner  BY DEF Mailbox, Owner
<1>10. Directory!Only(new)  BY <1>8, <1>9, OneWritten
<1>11. Box' # Box  BY <1>5, <1>6 DEF Box
<1> QED
  BY <1>1, <1>3, <1>5, <1>7, <1>10, <1>11 DEF Directory!Register, Entry

LEMMA Changes ==
    ASSUME TypeOK, RequestOK, NEW r \in Request, SaveRow(r),
           \A o \in Mailbox' : Directory!Fits(o)'
    PROVE  Box' = Box \/ \E o \in Mailbox : Directory!Change(o)
<1>1. PICK own, q : own = req[r].owner /\ q = req[r]  OBVIOUS
<1>2. /\ pc[r] = "save" /\ q.op # "create" /\ rows' = [rows EXCEPT ![own] = q.row]
      /\ lastUser' = lastUser
      /\ \/ Named(q.op) /\ Exists(own) /\ users' = [users EXCEPT ![own] = q.name]
         \/ users' = users
  BY <1>1 DEF SaveRow, RowFound, Named
<1>3. q \in RequestRecord /\ own \in Owner /\ (Named(q.op) => q.name \in Name)
  BY <1>1, <1>2 DEF TypeOK, RequestOK, Busy, Named, RequestRecord
<1>4. rows'[own] = q.row  BY <1>2, <1>3 DEF TypeOK
<1>5. \A p \in Owner \ {own} : Entry(p)' = Entry(p) /\ (p \in Mailbox' <=> p \in Mailbox)
  BY <1>2, EntryStays DEF TypeOK
<1>6. Mailbox \subseteq Owner /\ Mailbox' \subseteq Owner  BY DEF Mailbox, Owner
<1>7. own \in Mailbox' <=> own \in Mailbox
  BY <1>2, <1>3, AdminAssumption DEF TypeOK, Mailbox, Exists
<1>8. CASE own \notin Mailbox
  BY <1>5, <1>6, <1>7, <1>8, BoxStays
<1>9. CASE own \in Mailbox
  <2>1. claims(own)' \in Asked
    BY <1>3, <1>4, RowNotMissing DEF claims, RequestRecord, Row
  <2>2. Entry(own)'.login \in IF own = Admin THEN {Reserved} ELSE {Fold[name] : name \in Name}
    <3>1. CASE own = Admin  BY <3>1 DEF Entry
    <3>2. CASE own # Admin
      <4>1. own \in User /\ users'[own] \in Name
        BY <1>2, <1>3, <1>9, <3>2 DEF TypeOK, Mailbox, Exists
      <4> QED  BY <3>2, <4>1 DEF Entry
    <3> QED  BY <3>1, <3>2
  <2>3. Directory!Only(own)  BY <1>5, <1>6, <1>7, OneWritten
  <2>4. Directory!Change(own)
    BY <1>2, <1>7, <1>9, <2>1, <2>2, <2>3 DEF Directory!Change, Entry
  <2> QED  BY <1>9, <2>4
<1> QED  BY <1>8, <1>9

LEMMA Removes ==
    ASSUME TypeOK, NEW r \in Request, NEW u \in User, DeleteUser(r, u)
    PROVE  Directory!Remove(u) /\ u \in Mailbox /\ Box' # Box
<1>1. u \in Mailbox /\ u # Admin  BY AdminAssumption DEF DeleteUser, Mailbox, User, Admin
<1>2. u \notin Mailbox'  BY <1>1 DEF DeleteUser, TypeOK, Mailbox, Exists
<1>3. \A p \in Owner \ {u} : Entry(p)' = Entry(p) /\ (p \in Mailbox' <=> p \in Mailbox)
  BY EntryStays DEF DeleteUser, TypeOK
<1>4. Mailbox \subseteq Owner /\ Mailbox' \subseteq Owner  BY DEF Mailbox, Owner
<1>5. Directory!Only(u)  BY <1>3, <1>4, OneWritten
<1>6. Box' # Box  BY <1>1, <1>2 DEF Box
<1> QED  BY <1>1, <1>2, <1>5, <1>6 DEF Directory!Remove, DeleteUser

LEMMA DirectoryStutters ==
    ASSUME UNCHANGED directory
    PROVE  UNCHANGED <<Box, lastUser>>
BY DEF directory, Box, Entry, Mailbox, Exists, claims

LEMMA DirectoryStep ==
    ASSUME Alone, IInv, FreshUsers, [Next]_vars
    PROVE  Directory!DirectoryNext \/ UNCHANGED <<Box, lastUser>>
<1>1. \A o \in Mailbox' : Directory!Fits(o)'
  BY InvariantStep, AllFit DEF IInv
<1>2. ASSUME NEW r \in Request, Serve(r)
      PROVE  Directory!DirectoryNext \/ UNCHANGED <<Box, lastUser>>
  <2>1. CASE SaveNewUser(r)
    <3>1. \E u \in User : Directory!Register(u) /\ Box' # Box
      BY <1>1, <2>1, Registers DEF IInv
    <3> QED  BY <3>1 DEF Directory!DirectoryNext, User, Box, Entry
  <2>2. CASE SaveRow(r)
    <3>1. Box' = Box \/ \E o \in Mailbox : Directory!Change(o)
      BY <1>1, <2>2, Changes DEF IInv
    <3>2. lastUser' = lastUser  BY <2>2 DEF SaveRow
    <3> QED  BY <3>1, <3>2 DEF Directory!DirectoryNext, Box, Entry
  <2>3. ASSUME NEW u \in User, DeleteUser(r, u)
        PROVE  Directory!DirectoryNext
    <3>1. Directory!Remove(u) /\ u \in Mailbox /\ Box' # Box
      BY <2>3, Removes DEF IInv
    <3> QED  BY <3>1 DEF Directory!DirectoryNext, Box, Entry
  <2>4. CASE UNCHANGED directory  BY <2>4, DirectoryStutters
  <2> QED
    BY <1>2, <2>1, <2>2, <2>3, <2>4
    DEF Serve, Start, ValidateAdmin, ValidateUsers, CheckName, SavePassword, Fail,
        ListMessages, ApplyToListed, ApplyToAll, Recalculate
<1>3. CASE UNCHANGED directory  BY <1>3, DirectoryStutters
<1> QED
  BY <1>2, <1>3
  DEF Next, persistMessage, ReadRetention, CreateMessage, DeliveryFails,
      DeleteExpiredMessages, Restart, vars

LEMMA DirectoryStart == Init => Directory!DirectoryInit /\ FreshUsers
<1> SUFFICES ASSUME Init PROVE Directory!DirectoryInit /\ FreshUsers  OBVIOUS
<1>1. Mailbox = {Admin} /\ FreshUsers
  BY DEF Init, Mailbox, FreshUsers, Exists
<1>2. claims(Admin) = Unclaimed  BY DEF Init, claims, Owner
<1> QED  BY <1>1, <1>2 DEF Directory!DirectoryInit, Init, Entry

(* MailboxAdmin!ImplementsDirectory (service.go:101-264): with one request  *)
(* at a time, the many reads of a validation and the save after them amount *)
(* to one step: a mailbox is registered, changed or removed alone, what it  *)
(* claims and its login are free at that step, no id is given out twice and *)
(* no request brings a deleted user back.                                   *)
THEOREM DirectoryIsAtomic ==
    ASSUME Alone
    PROVE  Spec => ImplementsDirectory
<1>1. Init => IInv /\ FreshUsers /\ Directory!DirectoryInit
  BY InvariantInit, DirectoryStart
<1>2. IInv /\ FreshUsers /\ [Next]_vars => IInv' /\ FreshUsers'
  BY InvariantStep, FreshUsersStep DEF IInv
<1>3. IInv /\ FreshUsers /\ [Next]_vars => [Directory!DirectoryNext]_(Directory!directoryVars)
  BY DirectoryStep DEF Directory!directoryVars, Box, Entry
<1> QED  BY <1>1, <1>2, <1>3, PTL DEF Spec, ImplementsDirectory, Directory!DirectorySpec

\* Apart, by pairs.
TwoApart(x, y) ==
    x.login # y.login /\ ~recipientOwnershipOverlaps(x.claim, y.claim)

LEMMA ApartByPairs ==
    /\ Directory!Apart <=>
          \A o \in Mailbox : \A p \in Mailbox \ {o} : TwoApart(Box[o], Box[p])
    /\ Directory!Apart' <=>
          \A o \in Mailbox' : \A p \in Mailbox' \ {o} : TwoApart(Box'[o], Box'[p])
<1>1. Directory!Apart <=>
         \A o \in Mailbox : \A p \in Mailbox \ {o} : TwoApart(Box[o], Box[p])
  BY DEF Directory!Apart, Directory!Fits, Box, Entry, TwoApart
<1>2. \A x, y : recipientOwnershipOverlaps(x.claim, y.claim)' <=>
                recipientOwnershipOverlaps(x.claim', y.claim')
  BY DEF recipientOwnershipOverlaps, Empty, Covers, MatchDomain, Match
<1>3. Directory!Apart' <=>
         \A o \in Mailbox' : \A p \in Mailbox' \ {o} : TwoApart(Box[o]', Box[p]')
  BY <1>2 DEF Directory!Apart, Directory!Fits, Box, Entry, TwoApart
<1> QED  BY <1>1, <1>3

\* One step of the directory leaves the mailboxes apart.
LEMMA ApartStep ==
    ASSUME Directory!Apart, Directory!DirectoryNext
    PROVE  Directory!Apart'
<1>1. \A o \in Mailbox : \A p \in Mailbox \ {o} : TwoApart(Box[o], Box[p])
  BY ApartByPairs
<1>2. PICK x : /\ Mailbox' \ {x} = Mailbox \ {x}
               /\ \A p \in Mailbox' \ {x} : Box'[p] = Box[p]
               /\ x \in Mailbox' => Directory!Fits(x)'
  <2>1. PICK x : /\ Directory!Only(x)
                 /\ x \in Mailbox' => Directory!Fits(x)'
    BY DEF Directory!DirectoryNext, Directory!Register, Directory!Change, Directory!Remove
  <2> QED  BY <2>1 DEF Directory!Only, Box, Entry
<1>3. x \in Mailbox' => \A p \in Mailbox' \ {x} : TwoApart(Box'[x], Box'[p])
  BY <1>2 DEF Directory!Fits, Box, Entry, TwoApart, recipientOwnershipOverlaps, Empty, Covers,
              MatchDomain, Match
<1>4. \A o \in Mailbox' : \A p \in Mailbox' \ {o} : TwoApart(Box'[o], Box'[p])
  BY <1>1, <1>2, <1>3, OverlapSymmetric DEF TwoApart
<1> QED  BY <1>4, ApartByPairs

(* MailboxDirectory!Apart: what the atomic directory is worth.  A step that *)
(* looks at one mailbox keeps all of them apart, because overlap is         *)
(* symmetric (policy.go:311-339); no invariant of the code is used.         *)
THEOREM DirectoryApart == Directory!DirectorySpec => []Directory!Apart
<1>1. Directory!DirectoryInit => Directory!Apart
  BY DEF Directory!DirectoryInit, Directory!Apart, Directory!Fits
<1>2. Directory!Apart /\ [Directory!DirectoryNext]_(Directory!directoryVars) => Directory!Apart'
  <2>1. CASE Directory!DirectoryNext  BY <2>1, ApartStep
  <2>2. CASE UNCHANGED Directory!directoryVars
    <3>1. Box' = Box  BY <2>2 DEF Directory!directoryVars, Box, Entry
    <3>2. Mailbox' = Mailbox  BY <3>1 DEF Box
    <3> QED  BY <3>1, <3>2, ApartByPairs
  <2> QED  BY <2>1, <2>2
<1> QED  BY <1>1, <1>2, PTL DEF Directory!DirectorySpec
=============================================================================
