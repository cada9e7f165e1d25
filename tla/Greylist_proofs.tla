--------------------------- MODULE Greylist_proofs ---------------------------
(***************************************************************************)
(* Nobody passes a greylist rule without having earned it, for any rules,  *)
(* clients and interleaving of their attempts.                             *)
(*                                                                         *)
(* PassEarned speaks of what an observer of the answers noted down, the    *)
(* code decides by an entry that concurrent attempts overwrite.  The       *)
(* invariant relates the two: an entry, and the entry an attempt is about  *)
(* to save, never claims more than the observer has noted (EntryOK,        *)
(* ResultOK), and the keys an attempt has passed stay earned until it has  *)
(* gone through all of them (PassedOK).                                    *)
(*                                                                         *)
(* The converse, that whoever has earned it passes, needs that no rule's   *)
(* cleanup forgets for another and that answers for one key do not overlap *)
(* (second half).                                                          *)
(***************************************************************************)
EXTENDS Greylist, TLAPS

\* Attempts counted so far, the current one excepted, were refused - as many
\* as the rule asks for.
Paid(k, n) == refused[k] >= AllowAfter[k] \/ refused[k] >= n

EntryOK(k) ==
    entry[k] # NoEntry =>
        /\ heard[k] <= entry[k].last
        /\ entry[k].first <= since[k]
        /\ Paid(k, entry[k].attempts)

\* The entry about to be saved is new, or continues what was noted.
ResultOK(c) ==
    pc[c] = "save" =>
        /\ result[c] # NoEntry
        /\ \/ result[c].state = Fresh /\ ~result[c].pass
           \/ /\ ~Silent(key(c))
              /\ result[c].state.last = 0
              /\ result[c].state.first <= since[key(c)]
              /\ Paid(key(c), result[c].state.attempts - 1)
              /\ result[c].pass =>
                    /\ result[c].state.attempts > AllowAfter[key(c)]
                    /\ result[c].state.first >= MinRetryAfter[key(c)]

PassedOK(c) ==
    /\ pos[c] \in DOMAIN KeysOf[c]
    /\ pc[c] \in {"rest", "wait"} => pos[c] = 1
    /\ \A i \in DOMAIN KeysOf[c] : i < pos[c] => Earned(KeysOf[c][i])

IInv ==
    /\ TypeOK
    /\ \A k \in Key : EntryOK(k)
    /\ \A c \in Client : ResultOK(c) /\ PassedOK(c)

----------------------------------------------------------------------------
(* A bounded count (Older, UpTo) stays in range and keeps the order.        *)
LEMMA Ages ==
    ASSUME NEW a \in 0..Horizon, NEW b \in 0..Horizon, a <= b
    PROVE  Older(a) \in 0..Horizon /\ Older(a) <= Older(b)
BY GreylistAssumption DEF Older

LEMMA Counts ==
    ASSUME NEW m \in Nat, NEW n \in Nat
    PROVE  /\ UpTo(m, n) \in Nat /\ UpTo(m, n) <= m /\ UpTo(m, n) <= n
           /\ UpTo(m, n) = m \/ UpTo(m, n) = n
BY DEF UpTo

(* The key an attempt has come to is one of the keys.                       *)
LEMMA KeyType ==
    ASSUME NEW c \in Client, pos[c] \in DOMAIN KeysOf[c]
    PROVE  key(c) \in Key
<1>1. KeysOf[c] \in Seq(Key)
  BY GreylistAssumption
<1>2. QED
  BY <1>1 DEF key

LEMMA FirstKey ==
    ASSUME NEW c \in Client
    PROVE  1 \in DOMAIN KeysOf[c] /\ Len(KeysOf[c]) \in Nat
                /\ DOMAIN KeysOf[c] = 1..Len(KeysOf[c])
<1>1. KeysOf[c] \in Seq(Key) /\ KeysOf[c] # <<>>
  BY GreylistAssumption
<1>2. QED
  BY <1>1

(* What greylistResponse makes of an entry (mailfail.go:171-217) claims no   *)
(* more than the entry did, and passes only on what the rule asks for.       *)
LEMMA Decision ==
    ASSUME NEW k \in Key, NEW s \in State \cup {NoEntry}
    PROVE  LET r == greylistResponse(k, s)
           IN  /\ r \in Result
               /\ \/ r.state = Fresh /\ ~r.pass
                  \/ /\ s # NoEntry /\ s.last < ResetAfter[k]
                     /\ r.state.last = 0 /\ r.state.first = s.first
                     /\ r.state.attempts <= s.attempts + 1
                     /\ r.pass => /\ r.state.attempts > AllowAfter[k]
                                  /\ r.state.first >= MinRetryAfter[k]
<1>1. AllowAfter[k] \in Nat /\ Horizon \in Nat /\ ResetAfter[k] \in Nat /\ MinRetryAfter[k] \in Nat
  BY GreylistAssumption
<1>2. Fresh \in State
  BY <1>1 DEF Fresh, State
<1>3. CASE s = NoEntry \/ s.last >= ResetAfter[k]
  BY <1>2, <1>3 DEF greylistResponse, Result
<1>4. CASE s # NoEntry /\ ~(s.last >= ResetAfter[k])
  <2>1. s \in State
    BY <1>4
  <2>2. s.first \in 0..Horizon /\ s.last \in 0..Horizon /\ s.attempts \in Nat \ {0}
    BY <2>1 DEF State
  <2>3. UpTo(AllowAfter[k] + 1, s.attempts + 1) \in Nat \ {0}
        /\ UpTo(AllowAfter[k] + 1, s.attempts + 1) <= s.attempts + 1
    BY <1>1, <2>2 DEF UpTo
  <2>4. Counted(k, s) \in State
    BY <1>1, <2>2, <2>3 DEF Counted, State
  <2>5. Enough(k, Counted(k, s)) \in BOOLEAN
    BY DEF Enough
  <2>6. greylistResponse(k, s) = [state |-> Counted(k, s), pass |-> Enough(k, Counted(k, s))]
    BY <1>4 DEF greylistResponse
  <2>7. s.last < ResetAfter[k]
    BY <1>1, <1>4, <2>2
  <2>8. greylistResponse(k, s) \in Result
    BY <2>4, <2>5, <2>6 DEF Result
  <2>9. greylistResponse(k, s).state = Counted(k, s)
        /\ greylistResponse(k, s).pass = Enough(k, Counted(k, s))
    BY <2>6
  <2>10. Counted(k, s).last = 0 /\ Counted(k, s).first = s.first
         /\ Counted(k, s).attempts <= s.attempts + 1
    BY <2>3 DEF Counted
  <2>11. Enough(k, Counted(k, s)) =>
            Counted(k, s).attempts > AllowAfter[k] /\ Counted(k, s).first >= MinRetryAfter[k]
    BY DEF Enough
  <2>12. QED
    BY <1>4, <2>7, <2>8, <2>9, <2>10, <2>11
<1>5. QED
  BY <1>3, <1>4
----------------------------------------------------------------------------
LEMMA Initially == Init => IInv
<1> SUFFICES ASSUME Init PROVE IInv
  OBVIOUS
<1>1. Horizon \in Nat /\ MaxFaults \in Nat
  BY GreylistAssumption
<1>2. TypeOK
  BY <1>1 DEF Init, TypeOK
<1>3. \A k \in Key : EntryOK(k)
  BY DEF Init, EntryOK
<1>4. \A c \in Client : ResultOK(c)
  BY DEF Init, ResultOK
<1>5. \A c \in Client : PassedOK(c)
  BY FirstKey DEF Init, PassedOK
<1>6. QED
  BY <1>2, <1>3, <1>4, <1>5 DEF IInv

(* A step that leaves the entries and what was noted alone, and with every  *)
(* client either leaves its result alone or is not about to save, keeps the *)
(* invariant's claims about results and passed keys.                        *)
LEMMA QuietStep ==
    ASSUME IInv, UNCHANGED history, NEW c \in Client,
           \/ UNCHANGED <<pc[c], pos[c], result[c]>>
           \/ pos'[c] = pos[c] /\ pc[c] # "save" /\ pc'[c] = "load"
           \/ pos'[c] = pos[c] /\ pc'[c] = "cleanup"
           \/ pos'[c] = 1 /\ pc'[c] \in {"rest", "wait"}
    PROVE  ResultOK(c)' /\ PassedOK(c)'
<1>1. ResultOK(c) /\ PassedOK(c)
  BY DEF IInv
<1>2. ResultOK(c)'
  BY <1>1 DEF ResultOK, history, key, Silent, Paid
<1>3. PassedOK(c)'
  BY <1>1, FirstKey DEF PassedOK, history, Earned, Silent
<1>4. QED
  BY <1>2, <1>3

LEMMA AttemptStep == ASSUME IInv, NEW c \in Client, Attempt(c) PROVE IInv'
<1>1. TypeOK'
  BY DEF IInv, TypeOK, Attempt, history
<1>2. \A k \in Key : EntryOK(k)'
  BY DEF IInv, Attempt, EntryOK, Paid, history
<1>3. ASSUME NEW d \in Client PROVE ResultOK(d)' /\ PassedOK(d)'
  BY <1>3, QuietStep DEF Attempt, IInv, TypeOK
<1>4. QED
  BY <1>1, <1>2, <1>3 DEF IInv

LEMMA AnswerStep ==
    ASSUME IInv, NEW c \in Client, NEW to \in {"rest", "wait"}, Answer(c, to),
           UNCHANGED <<entry, history>>, faults' \in 0..MaxFaults
    PROVE  IInv'
<1>1. TypeOK'
  BY DEF IInv, TypeOK, Answer, history
<1>2. \A k \in Key : EntryOK(k)'
  BY DEF IInv, EntryOK, Paid, history
<1>3. ASSUME NEW d \in Client PROVE ResultOK(d)' /\ PassedOK(d)'
  BY <1>3, QuietStep DEF Answer, IInv, TypeOK
<1>4. QED
  BY <1>1, <1>2, <1>3 DEF IInv

LEMMA FaultType == ASSUME IInv, Fault PROVE faults' \in 0..MaxFaults
BY GreylistAssumption DEF IInv, TypeOK, Fault

LEMMA DeleteExpiredStep == ASSUME IInv, NEW c \in Client, DeleteExpired(c) PROVE IInv'
<1>1. faults' \in 0..MaxFaults
  BY FaultType DEF DeleteExpired, IInv, TypeOK
<1>2. \A k \in Key : entry'[k] \in {entry[k], NoEntry}
  BY DEF DeleteExpired
<1>3. entry' \in [Key -> State \cup {NoEntry}]
  BY DEF DeleteExpired, IInv, TypeOK
<1>4. TypeOK'
  BY <1>1, <1>3 DEF IInv, TypeOK, DeleteExpired, history
<1>5. \A k \in Key : EntryOK(k)'
  BY <1>2 DEF IInv, DeleteExpired, EntryOK, Paid, history
<1>6. ASSUME NEW d \in Client PROVE ResultOK(d)' /\ PassedOK(d)'
  BY <1>6, QuietStep DEF DeleteExpired, IInv, TypeOK
<1>7. QED
  BY <1>4, <1>5, <1>6 DEF IInv

LEMMA LoadStep == ASSUME IInv, NEW c \in Client, Load(c) PROVE IInv'
<1> DEFINE k == key(c)
           r == greylistResponse(k, entry[k])
<1>1. PassedOK(c) /\ TypeOK
  BY DEF IInv
<1>2. k \in Key
  BY <1>1, KeyType DEF PassedOK
<1>3. entry[k] \in State \cup {NoEntry}
  BY <1>1, <1>2 DEF TypeOK
<1>4. r \in Result
  BY <1>2, <1>3, Decision
<1>5. TypeOK'
  BY <1>1, <1>4 DEF TypeOK, Load, history
<1>6. \A l \in Key : EntryOK(l)'
  BY DEF IInv, Load, EntryOK, Paid, history
<1>7. ASSUME NEW d \in Client PROVE PassedOK(d)'
  BY <1>7 DEF IInv, PassedOK, Load, TypeOK, Earned, Silent, history
<1>8. ASSUME NEW d \in Client, d # c PROVE ResultOK(d)'
  BY <1>8 DEF IInv, ResultOK, Load, TypeOK, history, key, Silent, Paid
<1>9. ResultOK(c)'
  <2>1. result'[c] = r /\ key(c)' = k /\ result'[c] # NoEntry
    BY <1>1, <1>4, GreylistAssumption DEF Load, TypeOK, key
  <2>2. UNCHANGED <<refused, since, heard>>
    BY DEF Load, history
  <2>3. \/ r.state = Fresh /\ ~r.pass
        \/ /\ entry[k] # NoEntry /\ entry[k].last < ResetAfter[k]
           /\ r.state.last = 0 /\ r.state.first = entry[k].first
           /\ r.state.attempts <= entry[k].attempts + 1
           /\ r.pass => r.state.attempts > AllowAfter[k] /\ r.state.first >= MinRetryAfter[k]
    BY <1>2, <1>3, Decision
  <2>4. CASE r.state = Fresh /\ ~r.pass
    BY <2>1, <2>4 DEF ResultOK
  <2>5. CASE /\ entry[k] # NoEntry /\ entry[k].last < ResetAfter[k]
             /\ r.state.last = 0 /\ r.state.first = entry[k].first
             /\ r.state.attempts <= entry[k].attempts + 1
             /\ r.pass => r.state.attempts > AllowAfter[k] /\ r.state.first >= MinRetryAfter[k]
    <3>1. EntryOK(k)
      BY <1>2 DEF IInv
    <3>2. entry[k].last \in Int /\ entry[k].attempts \in Int /\ r.state.attempts \in Int
      BY <1>3, <1>4, <2>5 DEF State, Result
    <3>3. heard[k] \in Int /\ refused[k] \in Int /\ ResetAfter[k] \in Int /\ AllowAfter[k] \in Int
      BY <1>1, <1>2, GreylistAssumption DEF TypeOK
    <3>4. ~Silent(k) /\ r.state.first <= since[k]
      BY <2>5, <3>1, <3>2, <3>3 DEF EntryOK, Silent
    <3>5. Paid(k, r.state.attempts - 1)
      BY <2>5, <3>1, <3>2, <3>3 DEF EntryOK, Paid
    <3>6. QED
      BY <2>1, <2>2, <2>5, <3>4, <3>5 DEF ResultOK, Silent, Paid
  <2>6. QED
    BY <2>3, <2>4, <2>5
<1>10. QED
  BY <1>5, <1>6, <1>7, <1>8, <1>9 DEF IInv

(* The key of an attempt, when it is saved, its entry and its note.          *)
LEMMA SaveTypes ==
    ASSUME IInv, NEW c \in Client, Save(c)
    PROVE  /\ key(c) \in Key /\ result[c] \in Result
           /\ TypeOK /\ ResultOK(c) /\ PassedOK(c)
           /\ refused[key(c)] \in Nat /\ since[key(c)] \in Nat
           /\ AllowAfter[key(c)] \in Nat \ {0} /\ ResetAfter[key(c)] \in Nat \ {0}
           /\ MinRetryAfter[key(c)] \in Nat
<1>1. TypeOK /\ ResultOK(c) /\ PassedOK(c) /\ pc[c] = "save"
  BY DEF IInv, Save
<1>2. key(c) \in Key
  BY <1>1, KeyType DEF PassedOK
<1>3. result[c] \in Result
  BY <1>1 DEF TypeOK, ResultOK
<1>4. refused[key(c)] \in Nat /\ since[key(c)] \in 0..Horizon
  BY <1>1, <1>2 DEF TypeOK
<1>5. /\ Horizon \in Nat /\ AllowAfter[key(c)] \in Nat \ {0}
      /\ ResetAfter[key(c)] \in Nat \ {0} /\ MinRetryAfter[key(c)] \in Nat
  BY <1>2, GreylistAssumption
<1>6. QED
  BY <1>1, <1>2, <1>3, <1>4, <1>5

(* What is noted: never less than before, unless it was a silence.          *)
LEMMA Noted ==
    ASSUME IInv, NEW c \in Client, Save(c)
    PROVE  /\ \A k \in Key \ {key(c)} :
                 UNCHANGED <<refused[k], since[k], heard[k]>>
           /\ heard'[key(c)] = 0 /\ ~(heard'[key(c)] >= ResetAfter[key(c)])
           /\ Silent(key(c)) => since'[key(c)] = 0
           /\ ~Silent(key(c)) => since'[key(c)] = since[key(c)]
           /\ ~Silent(key(c)) => refused'[key(c)] >= AllowAfter[key(c)]
                                 \/ refused'[key(c)] >= refused[key(c)]
           /\ ~result[c].pass => refused'[key(c)] >= AllowAfter[key(c)]
                                 \/ refused'[key(c)] >= 1
           /\ ~result[c].pass /\ ~Silent(key(c)) =>
                    \/ refused'[key(c)] >= AllowAfter[key(c)]
                    \/ refused'[key(c)] >= refused[key(c)] + 1
           /\ refused' \in [Key -> Nat] /\ since' \in [Key -> 0..Horizon]
           /\ heard' \in [Key -> 0..Horizon]
<1> DEFINE k == key(c)
           n == (IF Silent(k) THEN 0 ELSE refused[k]) + (IF result[c].pass THEN 0 ELSE 1)
<1>1. /\ k \in Key /\ TypeOK /\ refused[k] \in Nat
      /\ AllowAfter[k] \in Nat \ {0} /\ ResetAfter[k] \in Nat \ {0}
      /\ Horizon \in Nat
  BY SaveTypes, GreylistAssumption
<1>2. n \in Nat
  BY <1>1
<1>3. UpTo(AllowAfter[k], n) \in Nat
      /\ (UpTo(AllowAfter[k], n) = AllowAfter[k] \/ UpTo(AllowAfter[k], n) = n)
  BY <1>1, <1>2, Counts
<1>4. /\ heard' = [heard EXCEPT ![k] = 0]
      /\ since' = [since EXCEPT ![k] = IF Silent(k) THEN 0 ELSE @]
      /\ refused' = [refused EXCEPT ![k] = UpTo(AllowAfter[k], n)]
  BY DEF Save, Note
<1>5. heard'[k] = 0 /\ since'[k] = (IF Silent(k) THEN 0 ELSE since[k])
      /\ refused'[k] = UpTo(AllowAfter[k], n)
  BY <1>1, <1>4 DEF TypeOK
<1>6. refused' \in [Key -> Nat] /\ since' \in [Key -> 0..Horizon] /\ heard' \in [Key -> 0..Horizon]
  BY <1>1, <1>3, <1>4 DEF TypeOK
<1>7. \A l \in Key \ {k} : UNCHANGED <<refused[l], since[l], heard[l]>>
  BY <1>4, <1>1 DEF TypeOK
<1>8. ~(heard'[k] >= ResetAfter[k])
  BY <1>1, <1>5
<1>9. refused'[k] = AllowAfter[k] \/ refused'[k] = n
  BY <1>3, <1>5
<1>10. /\ ~Silent(k) => refused'[k] >= AllowAfter[k] \/ refused'[k] >= refused[k]
       /\ ~result[c].pass => refused'[k] >= AllowAfter[k] \/ refused'[k] >= 1
       /\ ~result[c].pass /\ ~Silent(k) =>
              refused'[k] >= AllowAfter[k] \/ refused'[k] >= refused[k] + 1
  BY <1>1, <1>9
<1>11. QED
  BY <1>5, <1>6, <1>7, <1>8, <1>10

(* Earned keys stay earned, and a key whose attempt passes is earned.       *)
LEMMA EarnedStays ==
    ASSUME IInv, NEW c \in Client, Save(c), NEW k \in Key, Earned(k)
    PROVE  Earned(k)'
<1>1. CASE k = key(c)
  <2>1. refused' \in [Key -> Nat] /\ refused[k] \in Nat /\ AllowAfter[k] \in Nat
    BY Noted, SaveTypes, <1>1
  <2>2. refused'[k] \in Nat
    BY <2>1
  <2>3. refused'[k] >= AllowAfter[k] /\ since'[k] = since[k]
    BY Noted, <1>1, <2>1, <2>2 DEF Earned
  <2>4. ~(heard'[k] >= ResetAfter[k])
    BY Noted, <1>1
  <2>5. QED
    BY <2>3, <2>4 DEF Earned, Silent
<1>2. CASE k # key(c)
  BY Noted, <1>2 DEF Earned, Silent
<1>3. QED
  BY <1>1, <1>2

LEMMA PassEarns ==
    ASSUME IInv, NEW c \in Client, Save(c), result[c].pass,
           NEW k \in Key, k = key(c)
    PROVE  Earned(k)'
<1>1. pc[c] = "save"
  BY DEF Save
<1>2. /\ ~Silent(k)
      /\ result[c].state.first <= since[k]
      /\ Paid(k, result[c].state.attempts - 1)
      /\ result[c].state.attempts > AllowAfter[k]
      /\ result[c].state.first >= MinRetryAfter[k]
  BY <1>1, SaveTypes DEF ResultOK
<1>3. result[c].state.first \in Int /\ result[c].state.attempts \in Int
      /\ since[k] \in Int /\ refused[k] \in Int /\ AllowAfter[k] \in Int /\ MinRetryAfter[k] \in Int
  BY SaveTypes DEF Result, State
<1>4. refused[k] >= AllowAfter[k] /\ since[k] >= MinRetryAfter[k]
  BY <1>2, <1>3 DEF Paid
<1>5. QED
  BY <1>2, <1>4, EarnedStays DEF Earned

LEMMA SaveStep == ASSUME IInv, NEW c \in Client, Save(c) PROVE IInv'
<1> DEFINE k == key(c)
           s == result[c].state
<1>1. /\ k \in Key /\ result[c] \in Result /\ s \in State
      /\ TypeOK /\ ResultOK(c) /\ PassedOK(c) /\ pc[c] = "save"
  BY SaveTypes DEF Save, Result
<1>2. /\ s.first \in Nat /\ s.last \in Nat /\ s.attempts \in Nat \ {0}
      /\ refused[k] \in Nat /\ since[k] \in Nat
      /\ AllowAfter[k] \in Nat \ {0} /\ ResetAfter[k] \in Nat \ {0}
  BY SaveTypes, <1>1, GreylistAssumption DEF State
<1>3. refused'[k] \in Nat /\ since'[k] \in 0..Horizon
  BY <1>1, Noted
<1>4. pos[c] \in DOMAIN KeysOf[c] /\ Len(KeysOf[c]) \in Nat
      /\ DOMAIN KeysOf[c] = 1..Len(KeysOf[c])
  BY <1>1, FirstKey DEF PassedOK
<1>5. TypeOK'
  <2>1. entry' \in [Key -> State \cup {NoEntry}]
    BY <1>1 DEF Save, TypeOK
  <2>2. refused' \in [Key -> Nat] /\ since' \in [Key -> 0..Horizon] /\ heard' \in [Key -> 0..Horizon]
    BY Noted
  <2>3. pos[c] + 1 \in Nat \ {0}
    BY <1>4
  <2>4. /\ pc' \in [Client -> {"rest", "wait", "cleanup", "load", "save"}]
        /\ pos' \in [Client -> Nat \ {0}]
        /\ result' \in [Client -> Result \cup {NoEntry}]
        /\ pause' \in [Client -> Nat]
        /\ faults' \in 0..MaxFaults
    BY <1>1, <2>3 DEF Save, Answer, TypeOK
  <2>5. QED
    BY <2>1, <2>2, <2>4 DEF TypeOK
<1>6. ASSUME NEW l \in Key PROVE EntryOK(l)'
  <2>1. CASE l # k
    BY <1>1, <2>1, Noted DEF IInv, EntryOK, Paid, Save, TypeOK
  <2>2. CASE l = k
    <3>1. entry'[k] = s /\ heard'[k] = 0
      BY <1>1, Noted DEF Save, TypeOK
    <3>2. s.first <= since'[k] /\ (refused'[k] >= AllowAfter[k] \/ refused'[k] >= s.attempts)
      <4>1. CASE s = Fresh /\ ~result[c].pass
        BY <1>2, <1>3, <4>1, Noted DEF Fresh
      <4>2. CASE ~(s = Fresh /\ ~result[c].pass)
        <5>1. ~Silent(k) /\ s.first <= since[k] /\ Paid(k, s.attempts - 1)
              /\ (result[c].pass => s.attempts > AllowAfter[k])
          BY <1>1, <4>2 DEF ResultOK
        <5>2. since'[k] = since[k]
          BY <5>1, Noted
        <5>3. CASE result[c].pass
          BY <1>2, <1>3, <5>1, <5>2, <5>3, Noted DEF Paid
        <5>4. CASE ~result[c].pass
          BY <1>2, <1>3, <5>1, <5>2, <5>4, Noted DEF Paid
        <5>5. QED
          BY <5>3, <5>4
      <4>3. QED
        BY <4>1, <4>2
    <3>3. 0 <= s.last
      BY <1>2
    <3>4. QED
      BY <2>2, <3>1, <3>2, <3>3 DEF EntryOK, Paid
  <2>3. QED
    BY <2>1, <2>2
<1>7. ASSUME NEW d \in Client PROVE ResultOK(d)'
  <2>1. CASE d = c
    BY <1>1, <2>1 DEF Save, Answer, ResultOK, TypeOK
  <2>2. CASE d # c
    <3> SUFFICES ASSUME pc[d] = "save" PROVE ResultOK(d)'
      BY <1>1, <2>2 DEF Save, Answer, ResultOK, TypeOK
    <3>1. UNCHANGED <<pc[d], pos[d], result[d]>>
      BY <1>1, <2>2 DEF Save, Answer, TypeOK
    <3>2. ResultOK(d) /\ key(d) \in Key /\ result[d] # NoEntry /\ result[d] \in Result
      BY KeyType DEF IInv, PassedOK, ResultOK, TypeOK
    <3>3. CASE key(d) # k
      <4>1. key(d)' = key(d)
        BY <3>1 DEF key
      <4>2. \A j \in Key \ {k} : UNCHANGED <<refused[j], since[j], heard[j]>>
        BY Noted
      <4>3. UNCHANGED <<refused[key(d)], since[key(d)], heard[key(d)]>>
        BY <3>2, <3>3, <4>2, <4>1
      <4> HIDE DEF k, s
      <4>4. QED
        BY <3>1, <3>2, <4>1, <4>3 DEF ResultOK, Silent, Paid
    <3>4. CASE key(d) = k
      <4>1. CASE result[d].state = Fresh /\ ~result[d].pass
        BY <3>1, <3>2, <4>1 DEF ResultOK
      <4>2. CASE ~(result[d].state = Fresh /\ ~result[d].pass)
        <5>1. /\ ~Silent(k) /\ result[d].state.last = 0
              /\ result[d].state.first <= since[k]
              /\ Paid(k, result[d].state.attempts - 1)
              /\ result[d].pass => /\ result[d].state.attempts > AllowAfter[k]
                                   /\ result[d].state.first >= MinRetryAfter[k]
          BY <3>2, <3>4, <4>2 DEF ResultOK
        <5>2. since'[k] = since[k] /\ ~(heard'[k] >= ResetAfter[k])
              /\ (refused'[k] >= AllowAfter[k] \/ refused'[k] >= refused[k])
          BY <5>1, Noted
        <5>3. result[d].state.attempts \in Nat
          BY <3>2 DEF Result, State
        <5>4. refused'[k] >= AllowAfter[k] \/ refused'[k] >= result[d].state.attempts - 1
          BY <1>2, <1>3, <5>1, <5>2, <5>3 DEF Paid
        <5>5. key(d)' = k
          BY <3>1, <3>4 DEF key
        <5>6. QED
          BY <3>1, <3>2, <5>1, <5>2, <5>4, <5>5 DEF ResultOK, Silent, Paid
      <4>3. QED
        BY <4>1, <4>2
    <3>5. QED
      BY <3>3, <3>4
  <2>3. QED
    BY <2>1, <2>2
<1>8. ASSUME NEW d \in Client PROVE PassedOK(d)'
  <2>1. PassedOK(d)
    BY DEF IInv
  <2>2. DOMAIN KeysOf[d] = 1..Len(KeysOf[d]) /\ 1 \in DOMAIN KeysOf[d]
        /\ Len(KeysOf[d]) \in Nat
    BY FirstKey
  <2>3. \A i \in DOMAIN KeysOf[d] : KeysOf[d][i] \in Key
    <3>1. KeysOf[d] \in Seq(Key)
      BY GreylistAssumption
    <3>2. QED
      BY <3>1
  <2>4. \A i \in DOMAIN KeysOf[d] : i < pos[d] => Earned(KeysOf[d][i])'
    BY <2>1, <2>3, EarnedStays DEF PassedOK
  <2>5. CASE pos'[d] = pos[d] /\ pc'[d] = pc[d]
    BY <2>1, <2>4, <2>5 DEF PassedOK
  <2>6. CASE pos'[d] = 1
    BY <2>2, <2>6 DEF PassedOK
  <2>7. CASE d = c /\ result[c].pass /\ ~LastKey(c) /\ pos'[c] = pos[c] + 1 /\ pc'[c] = "cleanup"
    <3>1. pos[c] + 1 \in DOMAIN KeysOf[c]
      BY <1>4, <2>7 DEF LastKey
    <3>2. \A i \in DOMAIN KeysOf[c] : i = pos[c] => Earned(KeysOf[c][i])'
      <4> SUFFICES ASSUME NEW i \in DOMAIN KeysOf[c], i = pos[c]
                   PROVE  Earned(KeysOf[c][i])'
        OBVIOUS
      <4>1. KeysOf[c][i] = key(c) /\ KeysOf[c][i] \in Key
        BY <1>1 DEF key
      <4>2. QED
        BY <2>7, <4>1, PassEarns
    <3>3. \A i \in DOMAIN KeysOf[c] : i < pos[c] + 1 => i < pos[c] \/ i = pos[c]
      BY <1>4
    <3>4. QED
      BY <2>4, <2>7, <3>1, <3>2, <3>3 DEF PassedOK
  <2>8. QED
    BY <1>1, <2>5, <2>6, <2>7 DEF Save, Answer, TypeOK
<1>9. QED
  BY <1>5, <1>6, <1>7, <1>8 DEF IInv

(* Time passes only while nobody is being answered, so there is no result   *)
(* to keep up with it, and it ages entries and notes alike.                 *)
LEMMA TickStep == ASSUME IInv, Tick PROVE IInv'
<1>1. TypeOK
  BY DEF IInv
<1>2. \A a \in 0..Horizon : Older(a) \in 0..Horizon
  BY Ages, GreylistAssumption DEF Older
<1>3. \A k \in Key : entry[k] # NoEntry =>
         /\ entry[k] \in State
         /\ entry'[k] = [entry[k] EXCEPT !.first = Older(@), !.last = Older(@)]
  BY <1>1 DEF Tick, TypeOK
<1>4. \A k \in Key : entry[k] = NoEntry => entry'[k] = NoEntry
  BY DEF Tick
<1>5. entry' \in [Key -> State \cup {NoEntry}]
  <2>1. \A k \in Key : entry'[k] \in State \cup {NoEntry}
    <3> SUFFICES ASSUME NEW k \in Key, entry[k] # NoEntry PROVE entry'[k] \in State
      BY <1>4
    <3>1. entry[k].first \in 0..Horizon /\ entry[k].last \in 0..Horizon
      BY <1>3 DEF State
    <3>2. Older(entry[k].first) \in 0..Horizon /\ Older(entry[k].last) \in 0..Horizon
      BY <1>2, <3>1
    <3>3. QED
      BY <1>3, <3>2 DEF State
  <2>2. entry' = [k \in Key |-> entry'[k]]
    BY DEF Tick
  <2>3. QED
    BY <2>1, <2>2
<1>6. pause' \in [Client -> Nat]
  <2>1. \A c \in Client : RetryGap[c] \in Nat /\ pause[c] + 1 \in Nat
    BY <1>1, GreylistAssumption DEF TypeOK
  <2>2. \A c \in Client : UpTo(RetryGap[c], pause[c] + 1) \in Nat
    BY <2>1, Counts
  <2>3. QED
    BY <2>2 DEF Tick
<1>7. since' \in [Key -> 0..Horizon] /\ heard' \in [Key -> 0..Horizon]
  BY <1>1, <1>2 DEF Tick, TypeOK
<1>8. TypeOK'
  BY <1>1, <1>5, <1>6, <1>7 DEF Tick, TypeOK
<1>9. ASSUME NEW k \in Key PROVE EntryOK(k)'
  <2>1. CASE entry[k] = NoEntry
    BY <1>4, <2>1 DEF EntryOK
  <2>2. CASE entry[k] # NoEntry
    <3>1. /\ entry[k] \in State /\ EntryOK(k)
          /\ heard[k] \in 0..Horizon /\ since[k] \in 0..Horizon
          /\ entry[k].first \in 0..Horizon /\ entry[k].last \in 0..Horizon
      BY <1>1, <1>3, <2>2 DEF IInv, TypeOK, State
    <3>2. /\ entry'[k].first = Older(entry[k].first) /\ entry'[k].last = Older(entry[k].last)
          /\ entry'[k].attempts = entry[k].attempts
      BY <1>3, <2>2, <3>1 DEF State
    <3>3. since'[k] = Older(since[k]) /\ heard'[k] = Older(heard[k])
          /\ UNCHANGED refused
      BY DEF Tick
    <3>4. heard[k] <= entry[k].last /\ entry[k].first <= since[k]
          /\ Paid(k, entry[k].attempts)
      BY <2>2, <3>1 DEF EntryOK
    <3>5. Older(heard[k]) <= Older(entry[k].last)
      BY <3>1, <3>4, Ages
    <3>6. Older(entry[k].first) <= Older(since[k])
      BY <3>1, <3>4, Ages
    <3>7. QED
      BY <3>2, <3>3, <3>4, <3>5, <3>6 DEF EntryOK, Paid
  <2>3. QED
    BY <2>1, <2>2
<1>10. ASSUME NEW c \in Client PROVE ResultOK(c)' /\ PassedOK(c)'
  <2>1. pc'[c] # "save" /\ pos'[c] = pos[c] /\ pos[c] = 1
    BY DEF Tick, IInv, PassedOK
  <2>2. QED
    BY <2>1, FirstKey DEF ResultOK, PassedOK
<1>11. QED
  BY <1>8, <1>9, <1>10 DEF IInv

LEMMA NextStep == ASSUME IInv, [Next]_vars PROVE IInv'
<1>1. ASSUME NEW c \in Client, Attempt(c) PROVE IInv'
  BY <1>1, AttemptStep
<1>2. ASSUME NEW c \in Client, GiveUp(c) PROVE IInv'
  <2>1. Answer(c, "rest") /\ UNCHANGED <<entry, history>> /\ faults' \in 0..MaxFaults
    BY <1>2 DEF GiveUp, IInv, TypeOK
  <2>2. QED
    BY <2>1, AnswerStep
<1>3. ASSUME NEW c \in Client, DeleteExpired(c) PROVE IInv'
  BY <1>3, DeleteExpiredStep
<1>4. ASSUME NEW c \in Client, Load(c) PROVE IInv'
  BY <1>4, LoadStep
<1>5. ASSUME NEW c \in Client, Save(c) PROVE IInv'
  BY <1>5, SaveStep
<1>6. ASSUME NEW c \in Client, Abort(c) PROVE IInv'
  <2>1. Answer(c, "wait") /\ UNCHANGED <<entry, history>> /\ faults' \in 0..MaxFaults
    BY <1>6, FaultType DEF Abort
  <2>2. QED
    BY <2>1, AnswerStep
<1>7. CASE Tick
  BY <1>7, TickStep
<1>8. CASE UNCHANGED vars
  <2>1. UNCHANGED <<entry, pc, pos, result, pause, refused, since, heard, faults>>
    BY <1>8 DEF vars, handler, history
  <2>2. TypeOK' /\ \A k \in Key : EntryOK(k)'
    BY <2>1 DEF IInv, TypeOK, EntryOK, Paid
  <2>3. \A c \in Client : ResultOK(c)' /\ PassedOK(c)'
    BY <2>1, QuietStep DEF history
  <2>4. QED
    BY <2>2, <2>3 DEF IInv
<1>9. QED
  BY <1>1, <1>2, <1>3, <1>4, <1>5, <1>6, <1>7, <1>8 DEF Next, Respond

(* IInv is an invariant of the specification; it contains TypeOK.           *)
THEOREM WellTyped == Spec => []TypeOK
<1>1. IInv => TypeOK
  BY DEF IInv
<1>2. QED
  BY <1>1, Initially, NextStep, PTL DEF Spec

(* mailfail.go:163-217.  Whoever is let through by greylist rules has been  *)
(* refused AllowAfter times and has waited MinRetryAfter, for every         *)
(* recipient of the message, since the last silence of ResetAfter.          *)
THEOREM EveryPassIsEarned == Spec => PassEarned
<1> DEFINE Earns == \A c \in Client : pc[c] = "save" /\ pc'[c] = "rest" =>
                       \A i \in DOMAIN KeysOf[c] : Earned(KeysOf[c][i])'
<1>1. ASSUME IInv, [Next]_vars PROVE Earns
  <2> SUFFICES ASSUME NEW c \in Client, pc[c] = "save", pc'[c] = "rest",
                      NEW i \in DOMAIN KeysOf[c]
               PROVE  Earned(KeysOf[c][i])'
    OBVIOUS
  <2>1. TypeOK /\ PassedOK(c)
    BY <1>1 DEF IInv
  <2>2. Save(c)
    <3>1. ~UNCHANGED vars /\ ~Tick
      BY DEF vars, handler, Tick
    <3>2. PICK d \in Client : Attempt(d) \/ GiveUp(d) \/ Respond(d) \/ Abort(d)
      BY <1>1, <3>1 DEF Next
    <3>3. d = c
      BY <2>1, <3>2 DEF TypeOK, Attempt, GiveUp, Respond, Abort, DeleteExpired, Load, Save, Answer
    <3>4. QED
      BY <2>1, <3>2, <3>3 DEF TypeOK, Attempt, GiveUp, Respond, Abort, DeleteExpired, Load, Answer
  <2>3. result[c].pass /\ LastKey(c)
    BY <2>1, <2>2 DEF Save, Answer, TypeOK
  <2>4. DOMAIN KeysOf[c] = 1..Len(KeysOf[c]) /\ Len(KeysOf[c]) \in Nat
    BY FirstKey
  <2>5. i < pos[c] \/ i = pos[c]
    BY <2>3, <2>4 DEF LastKey
  <2>6. KeysOf[c][i] \in Key
    <3>1. KeysOf[c] \in Seq(Key)
      BY GreylistAssumption
    <3>2. QED
      BY <3>1
  <2>7. CASE i < pos[c]
    BY <1>1, <2>1, <2>2, <2>6, <2>7, EarnedStays DEF PassedOK
  <2>8. CASE i = pos[c]
    <3>1. KeysOf[c][i] = key(c)
      BY <2>8 DEF key
    <3>2. QED
      BY <1>1, <2>2, <2>3, <2>6, <3>1, PassEarns
  <2>9. QED
    BY <2>5, <2>7, <2>8
<1>2. IInv /\ [Next]_vars => [Earns]_vars
  BY <1>1
<1>3. QED
  BY <1>2, Initially, NextStep, PTL DEF Spec, PassEarned
----------------------------------------------------------------------------
(* The converse.  A greylist refuses who has earned to pass for two reasons *)
(* only: another rule's cleanup dropped the entry (StateKept), or another   *)
(* attempt for the same key was answered at the same time and its entry     *)
(* overwritten.  Without them the entries say exactly what was noted.       *)

\* No two attempts are between loading and saving the same key.
Apart == \A c, d \in Client : c # d /\ pc[c] = "save" /\ pc[d] = "save" => key(c) # key(d)

Kept == \A k \in Key : entry[k] # NoEntry /\ entry'[k] = NoEntry => entry[k].last >= ResetAfter[k]

Faithful(k) ==
    /\ ~Silent(k) => entry[k] # NoEntry
    /\ entry[k] # NoEntry =>
          /\ entry[k].last = heard[k] /\ entry[k].first = since[k]
          /\ refused[k] = UpTo(AllowAfter[k], entry[k].attempts)

\* The rule's answer to what the observer has noted of key k.
Due(k) == greylistResponse(k, IF Silent(k) THEN NoEntry ELSE entry[k])

Current(c) == pc[c] = "save" => result[c] = Due(key(c))

Exact ==
    /\ IInv
    /\ \A k \in Key : Faithful(k)
    /\ \A c \in Client : Current(c)

(* An entry older than its rule counts as none.                             *)
LEMMA DueFromEntry ==
    ASSUME NEW k \in Key, Faithful(k)
    PROVE  greylistResponse(k, entry[k]) = Due(k)
BY DEF Faithful, Due, greylistResponse, Silent

(* Refusals and attempts are capped alike: AllowAfter of the former are      *)
(* AllowAfter attempts before the present one.                               *)
LEMMA Caps ==
    ASSUME NEW a \in Nat, NEW n \in Nat
    PROVE  /\ UpTo(a + 1, n + 1) > a <=> UpTo(a, n) >= a
           /\ UpTo(a, UpTo(a + 1, n + 1)) = UpTo(a, UpTo(a, n) + 1)
           /\ UpTo(a, n) >= a => UpTo(a, UpTo(a + 1, n + 1)) = UpTo(a, UpTo(a, n))
BY DEF UpTo

LEMMA DueWhenEarned ==
    ASSUME TypeOK, NEW k \in Key, Faithful(k)
    PROVE  Due(k).pass <=> Earned(k)
<1>1. CASE Silent(k)
  BY <1>1 DEF Due, greylistResponse, Earned
<1>2. CASE ~Silent(k)
  <2>1. entry[k] # NoEntry /\ entry[k].last = heard[k] /\ entry[k].first = since[k]
        /\ refused[k] = UpTo(AllowAfter[k], entry[k].attempts)
    BY <1>2 DEF Faithful
  <2>2. entry[k].attempts \in Nat /\ AllowAfter[k] \in Nat
    BY <2>1, GreylistAssumption DEF TypeOK, State
  <2>3. ~(entry[k].last >= ResetAfter[k])
    BY <1>2, <2>1 DEF Silent
  <2>4. Due(k).pass = Enough(k, Counted(k, entry[k]))
    BY <1>2, <2>1, <2>3 DEF Due, greylistResponse
  <2>5. Enough(k, Counted(k, entry[k])) <=>
            /\ UpTo(AllowAfter[k] + 1, entry[k].attempts + 1) > AllowAfter[k]
            /\ since[k] >= MinRetryAfter[k]
    BY <2>1 DEF Enough, Counted
  <2>6. UpTo(AllowAfter[k] + 1, entry[k].attempts + 1) > AllowAfter[k]
            <=> refused[k] >= AllowAfter[k]
    BY <2>1, <2>2, Caps
  <2>7. QED
    BY <1>2, <2>4, <2>5, <2>6 DEF Earned
<1>3. QED
  BY <1>1, <1>2

LEMMA SavedIsFaithful ==
    ASSUME Exact, NEW c \in Client, Save(c), NEW k \in Key, k = key(c)
    PROVE  Faithful(k)'
<1> DEFINE s == result[c].state
<1>1. /\ TypeOK /\ Faithful(k) /\ result[c] = Due(k)
      /\ AllowAfter[k] \in Nat \ {0} /\ IInv
  BY SaveTypes DEF Exact, Current, Save
<1>2. /\ entry'[k] = s /\ heard'[k] = 0
      /\ since'[k] = (IF Silent(k) THEN 0 ELSE since[k])
      /\ refused'[k] = UpTo(AllowAfter[k],
            (IF Silent(k) THEN 0 ELSE refused[k]) + (IF result[c].pass THEN 0 ELSE 1))
  BY <1>1 DEF Save, Note, TypeOK
<1>3. s # NoEntry
  BY <1>1, SaveTypes, GreylistAssumption DEF Result
<1>4. s.last = 0 /\ s.first = since'[k] /\ refused'[k] = UpTo(AllowAfter[k], s.attempts)
  <2>1. CASE Silent(k)
    <3>1. s = Fresh /\ ~result[c].pass
      BY <1>1, <2>1 DEF Due, greylistResponse
    <3>2. QED
      BY <1>2, <2>1, <3>1 DEF Fresh
  <2>2. CASE ~Silent(k)
    <3>1. entry[k] # NoEntry /\ entry[k].last = heard[k] /\ entry[k].first = since[k]
          /\ refused[k] = UpTo(AllowAfter[k], entry[k].attempts)
      BY <1>1, <2>2 DEF Faithful
    <3>2. entry[k].attempts \in Nat /\ refused[k] \in Nat
      BY <1>1, <3>1 DEF TypeOK, State
    <3>3. ~(entry[k].last >= ResetAfter[k])
      BY <2>2, <3>1 DEF Silent
    <3>4. s = Counted(k, entry[k]) /\ result[c].pass = Enough(k, Counted(k, entry[k]))
      <4>1. Due(k) = [state |-> Counted(k, entry[k]), pass |-> Enough(k, Counted(k, entry[k]))]
        BY <2>2, <3>1, <3>3 DEF Due, greylistResponse
      <4>2. QED
        BY <1>1, <4>1
    <3>5. s.last = 0 /\ s.first = since[k]
          /\ s.attempts = UpTo(AllowAfter[k] + 1, entry[k].attempts + 1)
      BY <3>1, <3>4 DEF Counted
    <3>6. CASE result[c].pass
      <4>1. refused[k] >= AllowAfter[k]
        BY <1>1, <3>6, DueWhenEarned DEF Earned
      <4>2. refused'[k] = UpTo(AllowAfter[k], refused[k])
        BY <1>2, <2>2, <3>2, <3>6
      <4>3. QED
        BY <1>1, <1>2, <2>2, <3>1, <3>2, <3>5, <4>1, <4>2, Caps
    <3>7. CASE ~result[c].pass
      <4>1. refused'[k] = UpTo(AllowAfter[k], refused[k] + 1)
        BY <1>2, <2>2, <3>7
      <4>2. QED
        BY <1>1, <1>2, <2>2, <3>1, <3>2, <3>5, <4>1, Caps
    <3>8. QED
      BY <3>6, <3>7
  <2>3. QED
    BY <2>1, <2>2
<1>5. QED
  BY <1>2, <1>3, <1>4 DEF Faithful

LEMMA ExactInit == Init => Exact
<1>1. ASSUME Init, NEW k \in Key PROVE Faithful(k)
  BY <1>1, GreylistAssumption DEF Init, Faithful, Silent
<1>2. ASSUME Init, NEW c \in Client PROVE Current(c)
  BY <1>2 DEF Init, Current
<1>3. QED
  BY <1>1, <1>2, Initially DEF Exact

(* The step changes nothing that matters to key k, at most drops what the    *)
(* rule has forgotten anyway.                                                *)
Untouched(k) ==
    /\ UNCHANGED <<refused[k], since[k], heard[k]>>
    /\ entry'[k] = entry[k] \/ (entry'[k] = NoEntry /\ Silent(k))

LEMMA UntouchedKey ==
    ASSUME NEW k \in Key, Untouched(k)
    PROVE  /\ Due(k)' = Due(k)
           /\ Faithful(k) => Faithful(k)'
<1>1. Silent(k)' <=> Silent(k)
  BY DEF Untouched, Silent
<1>2. Due(k)' = Due(k)
  BY <1>1 DEF Untouched, Due, greylistResponse
<1>3. Faithful(k) => Faithful(k)'
  BY <1>1 DEF Untouched, Faithful
<1>4. QED
  BY <1>2, <1>3

(* A result stays what is due while its client and its key are left alone.   *)
LEMMA CurrentStays ==
    ASSUME IInv, NEW d \in Client, Current(d),
           pc'[d] = "save" => /\ UNCHANGED <<pc[d], pos[d], result[d]>>
                              /\ Untouched(key(d))
    PROVE  Current(d)'
<1> SUFFICES ASSUME pc'[d] = "save" PROVE result'[d] = Due(key(d))'
  BY DEF Current
<1>1. PICK k \in Key : k = key(d)
  BY KeyType DEF IInv, PassedOK
<1>2. key(d)' = k
  BY <1>1 DEF key
<1>3. Due(k)' = Due(k)
  BY <1>1, UntouchedKey
<1>4. result[d] = Due(k)
  BY <1>1 DEF Current
<1>5. result'[d] = Due(k)'
  BY <1>3, <1>4
<1>6. Due(key(d))' = Due(k)'
  BY <1>2 DEF Due, Silent
<1>7. QED
  BY <1>5, <1>6

LEMMA DropsAreUntouched ==
    ASSUME Exact, NEW c \in Client, DeleteExpired(c), Kept, NEW k \in Key
    PROVE  Untouched(k)
<1>1. entry'[k] \in {entry[k], NoEntry} /\ UNCHANGED <<refused[k], since[k], heard[k]>>
  BY DEF DeleteExpired, history
<1>2. entry[k] # NoEntry /\ entry'[k] = NoEntry => Silent(k)
  BY DEF Exact, Faithful, Silent, Kept
<1>3. QED
  BY <1>1, <1>2 DEF Untouched

LEMMA ExactSave ==
    ASSUME Exact, NEW c \in Client, Save(c), Apart
    PROVE  /\ \A k \in Key : Faithful(k)'
           /\ \A d \in Client : Current(d)'
<1>1. PICK k \in Key : k = key(c)
  BY SaveTypes DEF Exact
<1>2. TypeOK /\ IInv /\ pc[c] = "save"
  BY DEF Exact, IInv, Save
<1>3. ASSUME NEW l \in Key, l # k PROVE Untouched(l)
  <2>1. UNCHANGED <<refused[l], since[l], heard[l]>>
    BY <1>1, <1>2, <1>3, Noted
  <2>2. entry'[l] = entry[l]
    BY <1>1, <1>2, <1>3 DEF Save, TypeOK
  <2>3. QED
    BY <2>1, <2>2 DEF Untouched
<1>4. ASSUME NEW l \in Key PROVE Faithful(l)'
  <2>1. CASE l = k
    BY <1>1, <2>1, SavedIsFaithful
  <2>2. CASE l # k
    BY <1>3, <2>2, UntouchedKey DEF Exact
  <2>3. QED
    BY <2>1, <2>2
<1>5. ASSUME NEW d \in Client PROVE Current(d)'
  <2>1. CASE d = c
    BY <1>2, <2>1 DEF Save, Answer, Current, TypeOK
  <2>2. CASE d # c /\ pc[d] # "save"
    BY <1>2, <2>2 DEF Save, Answer, Current, TypeOK
  <2>3. CASE d # c /\ pc[d] = "save"
    <3>1. key(d) \in Key /\ key(d) # k
      BY <1>1, <1>2, <2>3, KeyType DEF Apart, IInv, PassedOK
    <3>2. UNCHANGED <<pc[d], pos[d], result[d]>>
      BY <1>2, <2>3 DEF Save, Answer, TypeOK
    <3>3. QED
      BY <1>2, <1>3, <3>1, <3>2, CurrentStays DEF Exact
  <2>4. QED
    BY <2>1, <2>2, <2>3
<1>6. QED
  BY <1>4, <1>5

LEMMA AgedEntry ==
    ASSUME TypeOK, Tick, NEW k \in Key, entry[k] # NoEntry
    PROVE  /\ entry'[k].first = Older(entry[k].first) /\ entry'[k].last = Older(entry[k].last)
           /\ entry'[k].attempts = entry[k].attempts /\ entry'[k] # NoEntry
<1>1. entry[k] \in State /\ entry'[k] = [entry[k] EXCEPT !.first = Older(@), !.last = Older(@)]
  BY DEF Tick, TypeOK
<1>2. /\ entry'[k].first = Older(entry[k].first) /\ entry'[k].last = Older(entry[k].last)
      /\ entry'[k].attempts = entry[k].attempts
  BY <1>1 DEF State
<1>3. entry[k].first \in 0..Horizon /\ entry[k].last \in 0..Horizon /\ Horizon \in Nat
  BY <1>1, GreylistAssumption DEF State
<1>4. Older(entry[k].first) \in 0..Horizon /\ Older(entry[k].last) \in 0..Horizon
  BY <1>3 DEF Older
<1>5. entry'[k] \in State
  BY <1>1, <1>4 DEF State
<1>6. QED
  BY <1>2, <1>5, GreylistAssumption

LEMMA ExactTick ==
    ASSUME Exact, Tick
    PROVE  /\ \A k \in Key : Faithful(k)'
           /\ \A c \in Client : Current(c)'
<1>1. TypeOK
  BY DEF Exact, IInv
<1>2. ASSUME NEW c \in Client PROVE Current(c)'
  BY DEF Tick, Current
<1>3. ASSUME NEW k \in Key PROVE Faithful(k)'
  <2>1. Faithful(k) /\ heard[k] \in 0..Horizon /\ since[k] \in 0..Horizon
    BY <1>1 DEF Exact, TypeOK
  <2>2. heard'[k] = Older(heard[k]) /\ since'[k] = Older(since[k]) /\ refused'[k] = refused[k]
    BY DEF Tick
  <2>3. heard[k] <= heard'[k] /\ heard[k] \in Int /\ heard'[k] \in Int
        /\ ResetAfter[k] \in Int
    BY <2>1, <2>2, GreylistAssumption DEF Older
  <2>4. Silent(k) => Silent(k)'
    BY <2>3 DEF Silent
  <2>5. CASE entry[k] = NoEntry
    <3>1. entry'[k] = NoEntry
      BY <2>5 DEF Tick
    <3>2. QED
      BY <2>1, <2>4, <2>5, <3>1 DEF Faithful
  <2>6. CASE entry[k] # NoEntry
    <3>1. /\ entry'[k].first = Older(entry[k].first) /\ entry'[k].last = Older(entry[k].last)
          /\ entry'[k].attempts = entry[k].attempts /\ entry'[k] # NoEntry
      BY <1>1, <2>6, AgedEntry
    <3>2. QED
      BY <2>1, <2>2, <2>6, <3>1 DEF Faithful
  <2>7. QED
    BY <2>5, <2>6
<1>4. QED
  BY <1>2, <1>3

LEMMA ExactStep == ASSUME Exact, [Next]_vars, [Kept]_vars, Apart PROVE Exact'
<1>1. IInv' /\ IInv /\ TypeOK
  BY NextStep DEF Exact, IInv
<1>2. CASE \E c \in Client : Save(c)
  BY <1>1, <1>2, ExactSave DEF Exact
<1>3. CASE Tick
  BY <1>1, <1>3, ExactTick DEF Exact
<1>4. ASSUME NEW c \in Client, Attempt(c) \/ GiveUp(c) \/ DeleteExpired(c) \/ Load(c) \/ Abort(c)
      PROVE  Exact'
  <2>1. ASSUME NEW k \in Key PROVE Untouched(k)
    <3>1. CASE DeleteExpired(c)
      <4>1. Kept
        BY <3>1, <1>1 DEF DeleteExpired, vars, handler, TypeOK
      <4>2. QED
        BY <3>1, <4>1, DropsAreUntouched
    <3>2. CASE ~DeleteExpired(c)
      BY <1>4, <3>2 DEF Attempt, GiveUp, Load, Abort, Untouched, history
    <3>3. QED
      BY <3>1, <3>2
  <2>2. ASSUME NEW k \in Key PROVE Faithful(k)'
    BY <2>1, UntouchedKey DEF Exact
  <2>3. ASSUME NEW d \in Client PROVE Current(d)'
    <3>1. Current(d) /\ key(d) \in Key
      BY <1>1, KeyType DEF Exact, IInv, PassedOK
    <3>2. CASE d = c /\ Load(c)
      <4>1. PICK k \in Key : k = key(c)
        BY <3>1, <3>2
      <4>2. result'[c] = greylistResponse(k, entry[k])
        BY <1>1, <3>2, <4>1 DEF Load, TypeOK
      <4>3. result'[c] = Due(k)
        BY <4>2, DueFromEntry DEF Exact
      <4>4. result'[c] = Due(k)' /\ key(c)' = k
        BY <2>1, <3>2, <4>1, <4>3, UntouchedKey DEF Load, key
      <4>5. Due(key(c))' = Due(k)'
        BY <4>4 DEF Due, Silent
      <4>6. QED
        BY <3>2, <4>4, <4>5 DEF Current
    <3>3. CASE ~(d = c /\ Load(c))
      <4>1. pc'[d] = "save" => UNCHANGED <<pc[d], pos[d], result[d]>>
        BY <1>1, <1>4, <3>3 DEF Attempt, GiveUp, DeleteExpired, Load, Abort, Answer, TypeOK
      <4>2. QED
        BY <1>1, <2>1, <3>1, <4>1, CurrentStays
    <3>4. QED
      BY <3>2, <3>3
  <2>4. QED
    BY <1>1, <2>2, <2>3 DEF Exact
<1>5. CASE UNCHANGED vars
  <2>1. UNCHANGED <<entry, pc, pos, result, refused, since, heard>>
    BY <1>5 DEF vars, handler, history
  <2>2. ASSUME NEW k \in Key PROVE Untouched(k)
    BY <2>1 DEF Untouched
  <2>3. ASSUME NEW k \in Key PROVE Faithful(k)'
    BY <2>2, UntouchedKey DEF Exact
  <2>4. ASSUME NEW d \in Client PROVE Current(d)'
    <3>1. key(d) \in Key /\ Current(d)
      BY <1>1, KeyType DEF Exact, IInv, PassedOK
    <3>2. QED
      BY <1>1, <2>1, <2>2, <3>1, CurrentStays
  <2>5. QED
    BY <1>1, <2>3, <2>4 DEF Exact
<1>6. QED
  BY <1>2, <1>3, <1>4, <1>5 DEF Next, Respond

(* mailfail.go:171-217, README.md:293.  A rule lets pass exactly who has     *)
(* earned it: as long as no cleanup drops an entry its own rule still needs  *)
(* and no two attempts for the same key are answered at once, an attempt     *)
(* that has been refused AllowAfter times and has waited MinRetryAfter is    *)
(* never refused again, whatever store calls fail and wherever the process   *)
(* dies.                                                                     *)
THEOREM PassesWhenEarned ==
    Spec /\ StateKept /\ []Apart
        => [][\A c \in Client : Save(c) => (result[c].pass <=> Earned(key(c)))]_vars
<1> DEFINE Judges == \A c \in Client : Save(c) => (result[c].pass <=> Earned(key(c)))
<1>1. ASSUME Exact PROVE Judges
  <2> SUFFICES ASSUME NEW c \in Client, Save(c)
               PROVE  result[c].pass <=> Earned(key(c))
    OBVIOUS
  <2>1. key(c) \in Key /\ TypeOK /\ result[c] = Due(key(c)) /\ Faithful(key(c))
    BY <1>1, SaveTypes DEF Exact, Current, Save
  <2>2. QED
    BY <2>1, DueWhenEarned
<1>2. Exact => [Judges]_vars
  BY <1>1
<1>3. Exact /\ [Next]_vars /\ [Kept]_vars /\ Apart => Exact'
  BY ExactStep
<1>4. StateKept <=> [][Kept]_vars
  BY DEF StateKept, Kept
<1>5. QED
  BY <1>2, <1>3, <1>4, ExactInit, PTL DEF Spec

(* mailfail.go:167-169.  The cleanup takes the time of one rule for all      *)
(* entries: it keeps every rule's promise if all rules forget after the same *)
(* time.                                                                     *)
THEOREM OneResetTimeKeeps ==
    ASSUME \A k, l \in Key : ResetAfter[k] = ResetAfter[l]
    PROVE  Spec => StateKept
<1>1. ASSUME IInv, [Next]_vars PROVE Kept
  <2> SUFFICES ASSUME NEW k \in Key, entry[k] # NoEntry, entry'[k] = NoEntry
               PROVE  entry[k].last >= ResetAfter[k]
    BY DEF Kept
  <2>1. TypeOK
    BY <1>1 DEF IInv
  <2>2. CASE Tick
    BY <2>1, <2>2, AgedEntry
  <2>3. ASSUME NEW c \in Client, DeleteExpired(c) PROVE entry[k].last >= ResetAfter[k]
    <3>1. key(c) \in Key
      BY <1>1, KeyType DEF IInv, PassedOK
    <3>2. entry[k].last >= ResetAfter[key(c)]
      BY <2>3 DEF DeleteExpired
    <3>3. QED
      BY <3>1, <3>2
  <2>4. ASSUME NEW c \in Client, Save(c) PROVE FALSE
    <3>1. key(c) \in Key /\ result[c] \in Result
      BY <1>1, <2>4, SaveTypes
    <3>2. entry'[k] \in {entry[k], result[c].state} /\ result[c].state \in State
      BY <2>1, <2>4, <3>1 DEF Save, TypeOK, Result
    <3>3. QED
      BY <3>2, GreylistAssumption
  <2>5. ~\E c \in Client : Attempt(c) \/ GiveUp(c) \/ Load(c) \/ Abort(c)
    BY DEF Attempt, GiveUp, Load, Abort
  <2>6. ~UNCHANGED vars
    BY DEF vars
  <2>7. QED
    BY <1>1, <2>2, <2>3, <2>4, <2>5, <2>6 DEF Next, Respond
<1>2. IInv /\ [Next]_vars => [Kept]_vars
  BY <1>1
<1>3. StateKept <=> [][Kept]_vars
  BY DEF StateKept, Kept
<1>4. QED
  BY <1>2, <1>3, Initially, NextStep, PTL DEF Spec
=============================================================================
